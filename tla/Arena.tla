------------------------------- MODULE Arena -------------------------------
(***************************************************************************)
(* What an allocator promises those who call it, whichever way it keeps    *)
(* its memory: the places it has handed out lie in its arena and do not    *)
(* overlap, and a place is another's only after it was given back.         *)
(***************************************************************************)
EXTENDS Integers

VARIABLES
  size,     \* words of the arena
  granted   \* [first words of the places handed out -> their sizes]

Apart(a, n, b, m) == a + n <= b \/ b + m <= a

Grant(a, n) ==
  /\ a \in 0 .. size - n
  /\ \A b \in DOMAIN granted : Apart(a, n, b, granted[b])
  /\ granted' = [b \in DOMAIN granted \cup {a} |-> IF b = a THEN n ELSE granted[b]]
  /\ UNCHANGED size

GiveBack(a) ==
  /\ a \in DOMAIN granted
  /\ granted' = [b \in DOMAIN granted \ {a} |-> granted[b]]
  /\ UNCHANGED size

Init == size \in Nat /\ granted = [b \in {} |-> 0]

Next == \/ \E n \in 1 .. size, a \in 0 .. size : Grant(a, n)
        \/ \E a \in DOMAIN granted : GiveBack(a)

Spec == Init /\ [][Next]_<<size, granted>>
=============================================================================
