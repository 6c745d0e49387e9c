------------------------------- MODULE Buddies -------------------------------
(***************************************************************************)
(* allocator_buddies_system: the arena is halved until a block has the     *)
(* power of two asked for.  Free blocks are linked from the first on; the  *)
(* links back are never read, so a sequence stands for the list.  Sizes    *)
(* are in blocks of the least size, the one for a request of one byte, so  *)
(* that powers start from 0.                                               *)
(***************************************************************************)
EXTENDS Fit

CONSTANT Power     \* space_size, the power of two of the arena

(* 1 << p, the size of a block of power p.                                 *)
Words[p \in 0 .. Power] == IF p = 0 THEN 1 ELSE 2 * Words[p - 1]

Size == Words[Power]
Addr == 0 .. Size - 1

VARIABLES
  power,     \* get_block_data_size: [first words of blocks -> powers]
  occupied,  \* the blocks that block_is_occupied is true of
  list,      \* the blocks linked from get_first_available_block()
  avail,     \* get_allocator_available_size()
  fit,       \* get_fit_mode()
  held,      \* the blocks handed out and not given back
  crashed    \* a null pointer was written through

vars == <<power, occupied, list, avail, fit, held, crashed>>

Init ==
  /\ power = [a \in {0} |-> Power]
  /\ occupied = {} /\ list = <<0>>
  /\ avail = Size
  /\ fit \in FitModes
  /\ held = {} /\ crashed = FALSE

(* get_buddy: the offset with the bit of the block's size flipped.         *)
Buddy(a, p) == IF (a \div Words[p]) % 2 = 0 THEN a + Words[p] ELSE a - Words[p]

(* The block at a of power p, halved until it has power q: the halves that *)
(* are split off follow it in the list, the last and smallest one first.   *)
Halves(a, p, q) == [i \in 1 .. p - q |-> Buddy(a, q + i - 1)]

(* What takes the place of the block at i in the list.                     *)
(* A mutant: the block before it and the first pointer still lead to it.   *)
PutAfter(seq, i, new) == SubSeq(seq, 1, i) \o new \o SubSeq(seq, i + 1, Len(seq))

PutFor(seq, i, new) == SubSeq(seq, 1, i - 1) \o new \o SubSeq(seq, i + 1, Len(seq))

(* occupy_block, and the block's place in the list goes to the one after.  *)
(* With none after it, the null pointer is taken for a block and its       *)
(* previous pointer is written.                                            *)
Allocate(q) ==
  LET powers == [i \in DOMAIN list |-> power[list[i]]]
  IN  /\ ~crashed /\ Fitting(powers, q) # {}
      /\ LET i == Choice(powers, q, fit)
             a == list[i]
             halves == Halves(a, power[a], q)
             rest   == PutFor(list, i, halves)
         IN  IF Len(rest) < i
             THEN crashed' = TRUE /\ UNCHANGED <<power, occupied, list, avail, held>>
             ELSE /\ power' = [b \in DOMAIN power \cup {halves[j] : j \in DOMAIN halves} |->
                       IF b = a THEN q
                       ELSE IF \E j \in DOMAIN halves : halves[j] = b
                       THEN q - 1 + CHOOSE j \in DOMAIN halves : halves[j] = b
                       ELSE power[b]]
                  /\ occupied' = occupied \cup {a}
                  /\ list' = rest
                  /\ avail' = avail - Words[q]
                  /\ held' = held \cup {a}
                  /\ UNCHANGED crashed
      /\ UNCHANGED fit

(* curr_size is 0 where the size of the block is meant, so the loop that   *)
(* would merge is never entered: the mark is taken away if the buddy is    *)
(* occupied, and the block is linked nowhere.                              *)
Deallocate(a) ==
  /\ ~crashed
  /\ occupied' = IF Buddy(a, power[a]) \in occupied THEN occupied \ {a} ELSE occupied
  /\ avail' = avail + Words[power[a]]
  /\ held' = held \ {a}
  /\ UNCHANGED <<power, list, fit, crashed>>

SetFitMode ==
  /\ ~crashed /\ fit' \in FitModes
  /\ UNCHANGED <<power, occupied, list, avail, held, crashed>>

Next ==
  \/ \E q \in 0 .. Power : Allocate(q)
  \/ \E a \in held : Deallocate(a)
  \/ SetFitMode

Spec == Init /\ [][Next]_vars

-----------------------------------------------------------------------------
TypeOK ==
  /\ \A a \in DOMAIN power : a \in Addr /\ power[a] \in 0 .. Power
  /\ occupied \subseteq DOMAIN power /\ held \subseteq occupied
  /\ \A i \in DOMAIN list : list[i] \in Addr
  /\ avail \in 0 .. Size /\ fit \in FitModes /\ crashed \in BOOLEAN

(* The words of the block at a.                                            *)
Span(a) == a .. a + Words[power[a]] - 1

(* Halving tiles the arena, and a block that is linked as free is marked   *)
(* free, has no place twice, and is nobody's: whatever deallocate leaves   *)
(* behind, a block is handed out at most once.                             *)
Halved ==
  /\ \A a \in DOMAIN power : a % Words[power[a]] = 0 /\ Span(a) \subseteq Addr
  /\ \A w \in Addr : \E a \in DOMAIN power : w \in Span(a)
  /\ \A a, b \in DOMAIN power : a = b \/ Span(a) \cap Span(b) = {}
  /\ \A i, j \in DOMAIN list : list[i] = list[j] => i = j
  /\ \A i \in DOMAIN list : list[i] \in DOMAIN power \ occupied

(* The size that is reported is that of the words nobody has, though many  *)
(* of them may never be handed out again.                                  *)
AvailableExact ==
  avail = Cardinality({w \in Addr : \A a \in held : w \notin Span(a)})
=============================================================================
