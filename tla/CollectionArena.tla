-------------------------- MODULE CollectionArena --------------------------
(***************************************************************************)
(* The allocator classes, one of them as the constructor of a collection   *)
(* chooses it: the one that the client's command names, with the fit mode  *)
(* it names.  Only the chosen one exists, so the three with a model share  *)
(* the variables that mean the same; the global heap and the red-black     *)
(* tree are left out.  This is about the classes: a collection in a schema *)
(* keeps no allocator, since move_from (db_storage.cpp:806) drops it, and  *)
(* its tree never has one (:102).                                          *)
(***************************************************************************)
EXTENDS Integers

CONSTANTS ListSize, ListMaxReq,   \* of the sorted list, in words
          TagsSize, TagsMaxReq,   \* of the boundary tags, in words
          BuddiesPower            \* of the buddies, a power of two

Variants == {"sorted_list", "boundary_tags", "buddy_system"}

VARIABLES
  variant,                           \* _allocator_variant
  mem,                               \* of the sorted list
  tag,                               \* of the boundary tags
  power, occupied, list, crashed,    \* of the buddies
  head, avail, fit, held             \* of two of them or all

vars == <<variant, mem, tag, power, occupied, list, crashed, head, avail, fit, held>>

SL == INSTANCE SortedList WITH Size <- ListSize, MaxReq <- ListMaxReq, freeSpace <- avail
BT == INSTANCE BoundaryTags WITH Size <- TagsSize, MaxReq <- TagsMaxReq
BS == INSTANCE Buddies WITH Power <- BuddiesPower

(* What the constructors demand: room for the words of one block.          *)
ASSUME SizesAssumption ==
  /\ ListSize \in Nat /\ ListSize >= SL!Meta /\ ListMaxReq \in Nat
  /\ TagsSize \in Nat /\ TagsSize >= BT!Meta /\ TagsMaxReq \in Nat
  /\ BuddiesPower \in Nat

(* What there is not of the allocators that were not chosen.               *)
Nothing == [a \in {} |-> 0]

NoList    == mem = Nothing
NoTags    == tag = Nothing
NoBuddies == power = Nothing /\ occupied = {} /\ list = <<>> /\ crashed = FALSE

Init ==
  /\ variant \in Variants
  /\ CASE variant = "sorted_list"   -> SL!Init /\ NoTags /\ NoBuddies
       [] variant = "boundary_tags" -> BT!Init /\ NoList /\ NoBuddies /\ held = {}
       [] variant = "buddy_system"  -> BS!Init /\ NoList /\ NoTags /\ head = 0

Next ==
  \/ /\ variant = "sorted_list" /\ SL!Next
     /\ UNCHANGED <<variant, tag, power, occupied, list, crashed>>
  \/ /\ variant = "boundary_tags" /\ BT!Next
     /\ UNCHANGED <<variant, mem, power, occupied, list, crashed, held>>
  \/ /\ variant = "buddy_system" /\ BS!Next
     /\ UNCHANGED <<variant, mem, tag, head>>

Spec == Init /\ [][Next]_vars

-----------------------------------------------------------------------------
(* The types of the variables of the allocator that was chosen.            *)
TypeOK == CASE variant = "sorted_list"   -> SL!TypeOK
            [] variant = "boundary_tags" -> BT!TypeOK
            [] variant = "buddy_system"  -> BS!TypeOK

(* Of the sorted list: every word is in exactly one block, and that is     *)
(* either linked as free or handed out.                                    *)
Tiled == variant = "sorted_list" => SL!Tiled

(* Of the sorted list: free neighbours are one block.                      *)
Coalesced == variant = "sorted_list" => SL!Coalesced

(* The free space that is reported is what is not handed out.              *)
FreeSpaceExact ==
  /\ variant = "sorted_list"   => SL!FreeSpaceExact
  /\ variant = "boundary_tags" => BT!AvailableExact
  /\ variant = "buddy_system"  => BS!AvailableExact

(* Of the sorted list: a block given back twice is refused.                *)
StaleRefused == variant = "sorted_list" => SL!StaleRefused

(* Of the boundary tags: the links of the blocks mirror each other.        *)
Linked == variant = "boundary_tags" => BT!Linked

(* Of the boundary tags: no rest between two blocks is too small to use.   *)
NoSlivers == variant = "boundary_tags" => BT!NoSlivers

(* Of the buddies: no block is linked as free twice, or handed out and     *)
(* linked.                                                                 *)
Halved == variant = "buddy_system" => BS!Halved

Granted ==
  CASE variant = "sorted_list"   -> [a \in held |-> mem[a]]
    [] variant = "boundary_tags" -> [a \in {b - BT!Meta : b \in DOMAIN tag} |->
                                       tag[a + BT!Meta].size + BT!Meta]
    [] variant = "buddy_system"  -> [a \in held |-> BS!Words[power[a]]]

A == INSTANCE Arena WITH granted <- Granted,
       size <- CASE variant = "sorted_list"   -> ListSize
                 [] variant = "boundary_tags" -> TagsSize
                 [] variant = "buddy_system"  -> BS!Size

(* Whichever allocator was chosen, the places it has handed out do not     *)
(* overlap, after any sequence of calls and changes of the fit mode.       *)
ImplementsArena == A!Spec
=============================================================================
