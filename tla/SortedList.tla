----------------------------- MODULE SortedList -----------------------------
(***************************************************************************)
(* allocator_sorted_list: one arena of memory, the free blocks of which    *)
(* are linked in the order of their addresses.  mem is the arena in words: *)
(* a block at a has its size in mem[a], and in mem[a + 1] either the next  *)
(* free block or, while it is handed out, a pointer to the allocator.      *)
(* Every operation holds the mutex, so each is one step.                   *)
(***************************************************************************)
EXTENDS Fit

CONSTANTS Size,    \* space_size, in words
          MaxReq   \* bound on the words one allocate call asks for

Meta == 2          \* get_block_meta_size() and get_occupied_meta_size()

Addr == 0 .. Size - 1
Null == -1         \* nullptr
This == -2         \* the allocator's own address
Junk == -3         \* memory nobody has written yet

VARIABLES
  mem,        \* the arena
  head,       \* get_head_block()
  freeSpace,  \* get_free_space()
  fit,        \* get_fit_mode()
  held        \* the blocks handed out and not given back

vars == <<mem, head, freeSpace, fit, held>>

Init ==
  /\ mem = [a \in Addr |-> IF a = 0 THEN Size ELSE IF a = 1 THEN Null ELSE Junk]
  /\ head = 0
  /\ freeSpace = Size
  /\ fit \in FitModes
  /\ held = {}

BlockSize(a) == mem[a]
NextBlock(a) == mem[a + 1]

(* The free blocks from head on, as get_next_block links them; a list that *)
(* is longer than the arena has words would be a cycle.                    *)
FreeList ==
  LET from[n \in 0 .. Size] ==
        IF n = 0 THEN IF head = Null THEN <<>> ELSE <<head>>
        ELSE LET l == from[n - 1]
             IN  IF l = <<>> \/ NextBlock(l[Len(l)]) = Null THEN l
                 ELSE Append(l, NextBlock(l[Len(l)]))
  IN  from[Size]

Free == LET list == FreeList IN {list[i] : i \in DOMAIN list}

-----------------------------------------------------------------------------
(* A rest that has no room for a block's own words is handed out with it.  *)
(* Mutants: a rest of any size becomes a block; the rest is forgotten.     *)
TakesWholeIfExact(need, tsize) == need > tsize
TakesWhole(need, tsize) == need + Meta > tsize

TakenAsAsked(need, tsize) == need
Taken(need, tsize) == IF TakesWhole(need, tsize) THEN tsize ELSE need

Allocate(req) ==
  LET need == req + Meta
      list == FreeList
      free == [i \in DOMAIN list |-> BlockSize(list[i])]
  IN  /\ Fitting(free, need) # {}
      /\ LET i      == Choice(free, need, fit)
             target == list[i]
             tsize  == BlockSize(target)
             whole  == TakesWhole(need, tsize)
             size   == Taken(need, tsize)
             next   == IF whole THEN NextBlock(target) ELSE target + need
             split  == IF whole THEN mem
                       ELSE [mem EXCEPT ![target + need] = tsize - need,
                                        ![target + need + 1] = NextBlock(target)]
             linked == IF i = 1 THEN split
                       ELSE [split EXCEPT ![list[i - 1] + 1] = next]
         IN  /\ mem' = [linked EXCEPT ![target] = size, ![target + 1] = This]
             /\ head' = IF i = 1 THEN next ELSE head
             /\ freeSpace' = freeSpace - size
             /\ held' = held \cup {target}
      /\ UNCHANGED fit

(* Block a as a free block before next, one with next if that is adjacent. *)
(* Mutants: neighbours are never merged; a's link is not written.          *)
ReleasedAlone(a, next) == [mem EXCEPT ![a + 1] = next]

ReleasedUnlinked(a, next) ==
  IF next # Null /\ a + BlockSize(a) = next
  THEN [mem EXCEPT ![a] = @ + BlockSize(next)]
  ELSE mem

Released(a, next) ==
  IF next # Null /\ a + BlockSize(a) = next
  THEN [mem EXCEPT ![a] = @ + BlockSize(next), ![a + 1] = NextBlock(next)]
  ELSE [mem EXCEPT ![a + 1] = next]

(* The check at the top of deallocate(at), at = a + Meta.                  *)
Accepts(a) == a + Meta < Size /\ mem[a + 1] = This

Deallocate(a) ==
  /\ Accepts(a)
  /\ LET free   == Free
         before == {f \in free : f < a + Meta}
         after  == free \ before
         next   == IF after = {} THEN Null ELSE Min(after)
         merged == Released(a, next)
         prev   == Max(before)
     IN  /\ mem' = IF before = {} THEN merged
                   ELSE IF prev + merged[prev] = a
                   THEN [merged EXCEPT ![prev] = @ + merged[a],
                                       ![prev + 1] = merged[a + 1]]
                   ELSE [merged EXCEPT ![prev + 1] = a]
         /\ head' = IF before = {} THEN a ELSE head
         /\ freeSpace' = freeSpace + BlockSize(a)
  /\ held' = held \ {a}
  /\ UNCHANGED fit

SetFitMode ==
  /\ fit' \in FitModes
  /\ UNCHANGED <<mem, head, freeSpace, held>>

(* deallocate is called with any block that was ever handed out, given     *)
(* back before or not: what it makes of it is decided by Accepts.          *)
Next ==
  \/ \E req \in 0 .. MaxReq : Allocate(req)
  \/ \E a \in 0 .. Size - Meta : Deallocate(a)
  \/ SetFitMode

Spec == Init /\ [][Next]_vars

-----------------------------------------------------------------------------
TypeOK ==
  /\ mem \in [Addr -> Int]
  /\ head \in Addr \cup {Null}
  /\ freeSpace \in 0 .. Size
  /\ fit \in FitModes
  /\ held \subseteq Addr

(* The blocks as create_blocks_info finds them: from the start of the      *)
(* arena, each after the words of the one before.                          *)
Blocks ==
  LET upto[n \in 0 .. Size] ==
        IF n = 0 THEN {0}
        ELSE LET last == Max(upto[n - 1])
             IN  IF last + BlockSize(last) >= Size \/ BlockSize(last) < Meta
                 THEN upto[n - 1]
                 ELSE upto[n - 1] \cup {last + BlockSize(last)}
  IN  upto[Size]

(* Every word of the arena belongs to exactly one block, and every block   *)
(* either is linked as free or is handed out, never both and never neither:*)
(* no allocation overlaps another, and no memory leaks.                    *)
Tiled ==
  LET blocks == Blocks
      free   == Free
  IN  /\ Max(blocks) + BlockSize(Max(blocks)) = Size
      /\ blocks = free \cup held
      /\ free \cap held = {}

(* The list is in address order and free neighbours are one block, so a    *)
(* request is refused only if no run of free words is long enough.         *)
Coalesced ==
  LET list == FreeList
  IN  \A i \in 1 .. Len(list) - 1 : list[i] + BlockSize(list[i]) < list[i + 1]

(* The free space that is reported and logged is the free blocks' words.   *)
FreeSpaceExact ==
  LET free == Free
  IN  freeSpace = Cardinality({w \in Addr : \E a \in free : w \in a .. a + BlockSize(a) - 1})

(* A block given back twice is refused: the word deallocate tests holds    *)
(* the allocator's address in the blocks handed out and nowhere else.      *)
StaleRefused == \A a \in Addr \ {0} : mem[a] = This => a - 1 \in held

-----------------------------------------------------------------------------
(* "tried to deallocate non-related memory": what deallocate refuses was   *)
(* not handed out by this allocator.                                       *)
OnlyForeignRefused == \A a \in held : Accepts(a)
=============================================================================
