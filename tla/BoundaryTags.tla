---------------------------- MODULE BoundaryTags ----------------------------
(***************************************************************************)
(* allocator_boundary_tags: the blocks that are handed out are linked both *)
(* ways in the order of their addresses, each behind a tag of four words   *)
(* (data size, owner, previous, next); what lies between two blocks is     *)
(* free.  A block's address is that of its data.                           *)
(***************************************************************************)
EXTENDS Fit

CONSTANTS Size,    \* space_size, in words
          MaxReq   \* bound on the words one allocate call asks for

Meta == 4          \* get_block_meta_size()

Addr == 0 .. Size
Null == -1         \* nullptr

VARIABLES
  tag,    \* [block -> its data size, previous and next block]
  head,   \* get_head_block()
  avail,  \* get_allctr_avail_size()
  fit     \* get_fit_mode()

vars == <<tag, head, avail, fit>>

Init ==
  /\ tag = [b \in {} |-> 0]
  /\ head = Null
  /\ avail = Size
  /\ fit \in FitModes

(* The list from head on; one longer than the arena has words is a cycle.  *)
Blocks ==
  LET from[n \in 0 .. Size] ==
        IF n = 0 THEN IF head = Null THEN <<>> ELSE <<head>>
        ELSE LET l == from[n - 1]
             IN  IF l = <<>> \/ tag[l[Len(l)]].next = Null THEN l
                 ELSE Append(l, tag[l[Len(l)]].next)
  IN  from[Size]

(* Gap i lies before the block list[i], the last one before the arena ends.*)
GapStart(list, i) == IF i = 1 THEN 0 ELSE list[i - 1] + tag[list[i - 1]].size
GapEnd(list, i)   == IF i > Len(list) THEN Size ELSE list[i] - Meta
Gaps(list) == [i \in 1 .. Len(list) + 1 |-> GapEnd(list, i) - GapStart(list, i)]

(* A mutant: a rest of any size is left free.                              *)
TakesWholeIfExact(need, gap) == gap = need

(* A rest too small for a tag is handed out with the block.                *)
TakesWhole(need, gap) == gap - need < Meta

(* A mutant: the block after the new one is not told of it.                *)
InsertedOneWay(b, size, prev, next) ==
  [x \in DOMAIN tag \cup {b} |->
     IF x = b THEN [size |-> size, prev |-> prev, next |-> next]
     ELSE IF x = prev THEN [tag[x] EXCEPT !.next = b]
     ELSE tag[x]]

Inserted(b, size, prev, next) ==
  [x \in DOMAIN tag \cup {b} |->
     IF x = b         THEN [size |-> size, prev |-> prev, next |-> next]
     ELSE IF x = prev THEN [tag[x] EXCEPT !.next = b]
     ELSE IF x = next THEN [tag[x] EXCEPT !.prev = b]
     ELSE tag[x]]

Allocate(req) ==
  LET list == Blocks
      gaps == Gaps(list)
      need == req + Meta
  IN  /\ Fitting(gaps, need) # {}
      /\ LET i     == Choice(gaps, need, fit)
             block == GapStart(list, i) + Meta
             taken == IF TakesWhole(need, gaps[i]) THEN gaps[i] ELSE need
             prev  == IF i = 1 THEN Null ELSE list[i - 1]
             next  == IF prev # Null THEN tag[prev].next ELSE head
         IN  /\ tag' = Inserted(block, taken - Meta, prev, next)
             /\ head' = IF head \in {Null, next} THEN block ELSE head
             /\ avail' = avail - taken
      /\ UNCHANGED fit

(* The check at the top of deallocate.                                     *)
Accepts(b) == b < Size

Removed(b) ==
  [x \in DOMAIN tag \ {b} |->
     IF x = tag[b].prev      THEN [tag[x] EXCEPT !.next = tag[b].next]
     ELSE IF x = tag[b].next THEN [tag[x] EXCEPT !.prev = tag[b].prev]
     ELSE tag[x]]

(* A mutant: the words of the tag are forgotten.                           *)
GivenBackWithoutTag(b) == tag[b].size

GivenBack(b) == Meta + tag[b].size

(* The owner's word stays in the tag, so only blocks that were not given   *)
(* back yet are given back here: the callers' part of the contract.        *)
Deallocate(b) ==
  /\ Accepts(b)
  /\ tag' = Removed(b)
  /\ head' = IF tag[b].prev = Null THEN tag[b].next ELSE head
  /\ avail' = avail + GivenBack(b)
  /\ UNCHANGED fit

SetFitMode ==
  /\ fit' \in FitModes
  /\ UNCHANGED <<tag, head, avail>>

Next ==
  \/ \E req \in 0 .. MaxReq : Allocate(req)
  \/ \E b \in DOMAIN tag : Deallocate(b)
  \/ SetFitMode

Spec == Init /\ [][Next]_vars

-----------------------------------------------------------------------------
TypeOK ==
  /\ \A b \in DOMAIN tag :
       b \in Addr /\ tag[b] \in [size : 0 .. Size, prev : Addr \cup {Null},
                                 next : Addr \cup {Null}]
  /\ head \in DOMAIN tag \cup {Null}
  /\ avail \in 0 .. Size
  /\ fit \in FitModes

(* The list holds every block handed out, once, by address, and its links  *)
(* to the left mirror those to the right; deallocate follows both.         *)
Linked ==
  LET list == Blocks
  IN  /\ {list[i] : i \in DOMAIN list} = DOMAIN tag
      /\ Len(list) = Cardinality(DOMAIN tag)
      /\ \A i \in DOMAIN list :
           tag[list[i]].prev = IF i = 1 THEN Null ELSE list[i - 1]

(* What is free between two blocks is nothing or has room for a tag: no    *)
(* words are lost to rests nobody can be given, in any order of calls.     *)
NoSlivers ==
  LET gaps == Gaps(Blocks) IN \A i \in DOMAIN gaps : gaps[i] = 0 \/ gaps[i] >= Meta

(* The available size that is reported is the words that no block handed   *)
(* out has, for its tag or for its data.                                   *)
AvailableExact ==
  avail = Cardinality({w \in 0 .. Size - 1 :
                         \A b \in DOMAIN tag : w \notin b - Meta .. b + tag[b].size - 1})
=============================================================================
