------------------------------ MODULE Balance ------------------------------
(***************************************************************************)
(* redistribute_path_keys run against storage servers that answer every    *)
(* call: each transfer_left / transfer_right moves one key to the          *)
(* neighbour or finds none to move.  It asks whether the arithmetic of the *)
(* loop is right, apart from the messages that carry it out (Manager).     *)
(***************************************************************************)
EXTENDS Redistribution

CONSTANTS MaxCount,    \* bound on the keys one server holds at the start
          MaxExcess    \* bound on what an uninitialised counter adds

ASSUME BoundsAssumption == MaxCount \in Nat /\ MaxExcess \in Nat

VARIABLES cnt,         \* how many keys each server holds now
          reported,    \* the counts GET_RECORDS_CNT brought
          moves        \* how many single-key transfers were made

vars == <<rd, cnt, reported, moves>>

(* _records_cnt is not copied when a collection is moved into the schema's *)
(* tree, so the count of a server may start from an arbitrary value.       *)
Init ==
  /\ cnt \in [Servers -> 0 .. MaxCount]
  /\ \E s \in Servers, excess \in 0 .. MaxExcess :
       reported = [cnt EXCEPT ![s] = @ + excess]
  /\ moves = 0
  /\ IF NeedRedistribution(reported)
     THEN rd = [at |-> "test", i |-> 0, j |-> 0, n |-> 0,
                differ |-> Differ(reported), prefix |-> DifferPrefix(reported)]
     ELSE rd = Idle

Loop == LoopStep /\ UNCHANGED <<cnt, reported, moves>>

(* A mutant: OBTAIN_MIN and OBTAIN_MAX are taken to find a key always.     *)
MoveOneUnchecked ==
  /\ WantsTransfer
  /\ cnt' = [cnt EXCEPT ![From] = @ - 1, ![To] = @ + 1]
  /\ moves' = moves + 1
  /\ Transferred
  /\ UNCHANGED reported

MoveOne ==
  /\ WantsTransfer
  /\ cnt[From] > 0
  /\ cnt' = [cnt EXCEPT ![From] = @ - 1, ![To] = @ + 1]
  /\ moves' = moves + 1
  /\ Transferred
  /\ UNCHANGED reported

(* OBTAIN_MIN or OBTAIN_MAX found no key: the call returns -1.             *)
MoveFails ==
  /\ WantsTransfer
  /\ cnt[From] = 0
  /\ Abort
  /\ UNCHANGED <<cnt, reported, moves>>

Return ==
  /\ Finished
  /\ Abort
  /\ UNCHANGED <<cnt, reported, moves>>

Next == Loop \/ MoveOne \/ MoveFails \/ Return

Spec == Init /\ [][Next]_vars /\ WF_vars(Next)

-----------------------------------------------------------------------------
TypeOK ==
  /\ RdType
  /\ cnt \in [Servers -> Nat]
  /\ reported \in [Servers -> Nat]
  /\ moves \in Nat

(* Keys only move between servers, so equal sums mean an exact report.     *)
Exact == Sum(cnt) = Sum(reported)

(* Two runs of servers that must be filled from the right, with a server   *)
(* in between that needs nothing.  Only differ_prefix[i] is reset when     *)
(* iteration i ends, so the second run repeats the hops of the first.      *)
SeparateDeficits ==
  LET p == DifferPrefix(reported)
  IN  \E a, b, c \in Servers : a < b /\ b < c /\ p[a] < 0 /\ p[b] >= 0 /\ p[c] < 0

Plain == Exact /\ ~SeparateDeficits

(* With exact counts the hops are ordered so that a server is never asked  *)
(* for a key it does not hold yet: keys that pass through a server arrive  *)
(* before they are passed on, in both directions.                          *)
NeverDrained == Plain /\ WantsTransfer => cnt[From] > 0

(* When the loop has run through on exact counts, every server holds its   *)
(* target_cnt (+1 for the first sum % sz servers).                         *)
EndsBalanced ==
  Plain /\ Finished => \A s \in Servers : cnt[s] = Target(reported, s)

(* No key is carried back and forth: the transfers made are as few as      *)
(* balancing over neighbours allows, the sum of the absolute prefixes.     *)
FewestMoves ==
  LET prefix == DifferPrefix(reported)
      abs    == [s \in Servers |-> IF prefix[s] < 0 THEN -prefix[s]
                                                    ELSE prefix[s]]
  IN  Plain /\ Finished => moves = Sum(abs)

(* The manager comes back from every redistribution, whatever the counts   *)
(* it was told; nothing else is served until it does.                      *)
AlwaysReturns == Running ~> ~Running
=============================================================================
