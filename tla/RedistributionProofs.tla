------------------------ MODULE RedistributionProofs ------------------------
(***************************************************************************)
(* Lemmas about the arithmetic of redistribute_path_keys for any number of *)
(* servers: its sums are integers, and moving a key between two servers    *)
(* changes no total.                                                       *)
(***************************************************************************)
EXTENDS Redistribution, WellFoundedInduction, TLAPS

(* Every set of natural numbers has a least member.                        *)
LEMMA LeastExists ==
  ASSUME NEW S \in SUBSET Nat, S # {}
  PROVE  \E k \in S : \A l \in S : k <= l
<1> DEFINE R == OpToRel(<, Nat)
<1>1. IsWellFoundedOn(R, Nat)
  BY NatLessThanWellFounded
<1>2. \A x, y \in Nat : <<y, x>> \in R <=> y < x
  BY DEF OpToRel
<1> HIDE DEF R
<1>3. PICK k \in S : \A l \in S : ~(<<l, k>> \in R)
  BY <1>1, WFMin
<1>4. ASSUME NEW l \in S  PROVE k <= l
  <2>1. k \in Nat /\ l \in Nat
    OBVIOUS
  <2>2. ~(l < k)
    BY <1>2, <1>3, <2>1
  <2> QED  BY <2>1, <2>2
<1> QED  BY <1>4

-----------------------------------------------------------------------------
(* The recursive definition of the running sums has a solution: there is   *)
(* one up to every server, by extending that of the server before it.      *)
LEMMA PrefixExists ==
  ASSUME NEW a \in [Servers -> Int]
  PROVE  \E f \in [Servers -> Int] :
           f = [s \in Servers |-> a[s] + (IF s = 0 THEN 0 ELSE f[s - 1])]
<1> DEFINE Sums(f, n) == \A s \in 0 .. n :
                           f[s] = a[s] + (IF s = 0 THEN 0 ELSE f[s - 1])
           Bad == {n \in Servers : ~ \E f \in [0 .. n -> Int] : Sums(f, n)}
<1>1. Bad \subseteq Nat
  BY NServersAssumption DEF Servers
<1>2. ASSUME Bad # {}  PROVE FALSE
  <2>1. PICK b \in Bad : \A n \in Bad : b <= n
    BY <1>1, <1>2, LeastExists
  <2>2. b \in Servers /\ b \in Nat
    BY <1>1
  <2>3. CASE b = 0
    <3> DEFINE f == [s \in 0 .. 0 |-> a[0]]
    <3>1. f \in [0 .. 0 -> Int] /\ Sums(f, 0)
      BY <2>2, <2>3
    <3> QED  BY <2>3, <3>1
  <2>4. CASE b # 0
    <3>1. b - 1 \in Servers /\ b - 1 \notin Bad
      <4>1. b - 1 \in Servers
        BY <2>2, <2>4, NServersAssumption DEF Servers
      <4>2. ~(b <= b - 1)
        BY <2>2
      <4> QED  BY <2>1, <4>1, <4>2
    <3>2. PICK g \in [0 .. b - 1 -> Int] : Sums(g, b - 1)
      BY <3>1
    <3> DEFINE f == [s \in 0 .. b |-> IF s = b THEN a[b] + g[b - 1] ELSE g[s]]
    <3>3. f \in [0 .. b -> Int]
      BY <2>2, <2>4
    <3>4. ASSUME NEW s \in 0 .. b
          PROVE  f[s] = a[s] + (IF s = 0 THEN 0 ELSE f[s - 1])
      BY <2>2, <2>4, <3>2
    <3> QED  BY <3>3, <3>4
  <2> QED  BY <2>3, <2>4
<1>3. NServers - 1 \in Servers /\ Servers = 0 .. NServers - 1
  BY NServersAssumption DEF Servers
<1>4. PICK f \in [Servers -> Int] : Sums(f, NServers - 1)
  BY <1>2, <1>3
<1> QED  BY <1>3, <1>4

(* The running sums are integers, each the one before it plus its entry.   *)
LEMMA PrefixProperties ==
  ASSUME NEW a \in [Servers -> Int]
  PROVE  /\ Prefix(a) \in [Servers -> Int]
         /\ \A s \in Servers :
              Prefix(a)[s] = a[s] + (IF s = 0 THEN 0 ELSE Prefix(a)[s - 1])
<1>1. Prefix(a) =
        [s \in Servers |-> a[s] + (IF s = 0 THEN 0 ELSE Prefix(a)[s - 1])]
  BY PrefixExists DEF Prefix
<1> DEFINE P == Prefix(a)
           Bad == {n \in Servers : P[n] \notin Int}
<1> HIDE DEF P
<1>2. P = [s \in Servers |-> a[s] + (IF s = 0 THEN 0 ELSE P[s - 1])]
  BY <1>1 DEF P
<1>3. ASSUME Bad # {}  PROVE FALSE
  <2>1. Bad \subseteq Nat
    BY NServersAssumption DEF Servers
  <2>2. PICK b \in Bad : \A n \in Bad : b <= n
    BY <1>3, <2>1, LeastExists
  <2>3. b # 0 => b - 1 \in Servers /\ P[b - 1] \in Int
    BY <2>1, <2>2, NServersAssumption DEF Servers
  <2>4. P[b] = a[b] + (IF b = 0 THEN 0 ELSE P[b - 1])
    BY <1>2
  <2> QED  BY <2>3, <2>4
<1>4. P \in [Servers -> Int]
  BY <1>2, <1>3
<1> QED  BY <1>2, <1>4 DEF P

(* Sum is an integer.                                                      *)
LEMMA SumType ==
  ASSUME NEW cnts \in [Servers -> Int]
  PROVE  Sum(cnts) \in Int
<1>1. NServers - 1 \in Servers
  BY NServersAssumption DEF Servers
<1> QED  BY <1>1, PrefixProperties DEF Sum

(* What satisfies the recurrence of the running sums is the running sums.  *)
LEMMA PrefixUnique ==
  ASSUME NEW a \in [Servers -> Int], NEW f \in [Servers -> Int],
         \A s \in Servers : f[s] = a[s] + (IF s = 0 THEN 0 ELSE f[s - 1])
  PROVE  \A s \in Servers : Prefix(a)[s] = f[s]
<1> DEFINE P == Prefix(a)
           Bad == {n \in Servers : P[n] # f[n]}
<1> HIDE DEF P
<1>1. \A s \in Servers : P[s] = a[s] + (IF s = 0 THEN 0 ELSE P[s - 1])
  BY PrefixProperties DEF P
<1>2. ASSUME Bad # {}  PROVE FALSE
  <2>1. Bad \subseteq Nat
    BY NServersAssumption DEF Servers
  <2>2. PICK b \in Bad : \A n \in Bad : b <= n
    BY <1>2, <2>1, LeastExists
  <2>3. b \in Servers /\ b \in Nat /\ P[b] # f[b]
    BY <2>1
  <2>4. b # 0 => b - 1 \in Servers /\ P[b - 1] = f[b - 1]
    <3>1. b # 0 => b - 1 \in Servers /\ ~(b <= b - 1)
      BY <2>3, NServersAssumption DEF Servers
    <3> QED  BY <2>2, <3>1
  <2>5. /\ P[b] = a[b] + (IF b = 0 THEN 0 ELSE P[b - 1])
        /\ f[b] = a[b] + (IF b = 0 THEN 0 ELSE f[b - 1])
    BY <1>1, <2>3
  <2> QED  BY <2>3, <2>4, <2>5
<1> QED  BY <1>2 DEF P

(* The last server.                                                        *)
LEMMA LastServer == NServers - 1 \in Servers /\ 0 \in Servers
BY NServersAssumption DEF Servers

(* A total grows by what one of its entries grows.                         *)
LEMMA SumBump ==
  ASSUME NEW a \in [Servers -> Int], NEW b \in [Servers -> Int],
         NEW t \in Servers, NEW v \in Int,
         \A s \in Servers : b[s] = a[s] + (IF s = t THEN v ELSE 0)
  PROVE  Sum(b) = Sum(a) + v
<1> DEFINE P == Prefix(a)
           f == [s \in Servers |-> P[s] + (IF s >= t THEN v ELSE 0)]
<1>1. /\ P \in [Servers -> Int]
      /\ \A s \in Servers : P[s] = a[s] + (IF s = 0 THEN 0 ELSE P[s - 1])
  BY PrefixProperties
<1> HIDE DEF P
<1>2. f \in [Servers -> Int]
  BY <1>1
<1>3. ASSUME NEW s \in Servers
      PROVE  f[s] = b[s] + (IF s = 0 THEN 0 ELSE f[s - 1])
  <2>1. s \in Int /\ t \in Int /\ 0 <= s /\ 0 <= t
    BY NServersAssumption DEF Servers
  <2>2. s # 0 => s - 1 \in Servers
    BY NServersAssumption DEF Servers
  <2>3. P[s] = a[s] + (IF s = 0 THEN 0 ELSE P[s - 1]) /\ P[s] \in Int /\ a[s] \in Int
    BY <1>1
  <2>4. s # 0 => P[s - 1] \in Int
    BY <1>1, <2>2
  <2> QED  BY <2>1, <2>2, <2>3, <2>4
<1> HIDE DEF f
<1>4. \A s \in Servers : Prefix(b)[s] = f[s]
  BY <1>2, <1>3, PrefixUnique
<1>5. NServers - 1 >= t
  BY NServersAssumption DEF Servers
<1> QED  BY <1>1, <1>4, <1>5, LastServer DEF Sum, P, f

(* The totals of equal entries are equal.                                  *)
LEMMA SumSame ==
  ASSUME NEW a \in [Servers -> Int], NEW b \in [Servers -> Int],
         \A s \in Servers : b[s] = a[s]
  PROVE  Sum(b) = Sum(a)
<1>1. b = a
  OBVIOUS
<1> QED  BY <1>1

(* The total of nothing is nothing.                                        *)
LEMMA SumZero == Sum([s \in Servers |-> 0]) = 0
<1> DEFINE f == [s \in Servers |-> 0]
<1>1. \A s \in Servers : f[s] = f[s] + (IF s = 0 THEN 0 ELSE f[s - 1])
  BY NServersAssumption DEF Servers
<1>2. \A s \in Servers : Prefix(f)[s] = f[s]
  BY <1>1, PrefixUnique
<1> QED  BY <1>2, LastServer DEF Sum

(* The arrays of the second loop are arrays of integers.                   *)
LEMMA DifferType ==
  ASSUME NEW cnts \in [Servers -> Int]
  PROVE  /\ Differ(cnts) \in [Servers -> Int]
         /\ DifferPrefix(cnts) \in [Servers -> Int]
<1>1. Sum(cnts) \in Int
  BY SumType
<1>2. \A s \in Servers : Target(cnts, s) \in Int
  BY <1>1, NServersAssumption DEF Target
<1>3. Differ(cnts) \in [Servers -> Int]
  BY <1>2 DEF Differ
<1> QED  BY <1>3, PrefixProperties DEF DifferPrefix

-----------------------------------------------------------------------------
(* RdType is not inductive alone: the loop counters stay in range because  *)
(* of where in the loop body they are used.                                *)
RdInv ==
  /\ RdType
  /\ rd.at \in {"left", "after_left", "right"} => rd.i < NServers
  /\ rd.at = "left" => 1 <= rd.j /\ rd.j <= rd.i
  /\ rd.at = "right" => rd.i + 1 < NServers

(* A transfer is between two neighbours, and both exist.                   *)
LEMMA TransferEnds ==
  ASSUME RdInv, rd.at \in {"left", "right"}
  PROVE  From \in Servers /\ To \in Servers /\ From # To
<1>1. rd.i \in Int /\ rd.j \in Int /\ 0 <= rd.i /\ rd.i < NServers
  BY NServersAssumption DEF RdInv, RdType
<1>2. \A s \in Int : 0 <= s /\ s < NServers => s \in Servers
  BY NServersAssumption DEF Servers
<1>3. CASE rd.at = "left"
  <2>1. 1 <= rd.j /\ rd.j <= rd.i
    BY <1>3 DEF RdInv
  <2>2. From = rd.j /\ To = rd.j - 1
    BY <1>3 DEF From, To
  <2> QED  BY <1>1, <1>2, <2>1, <2>2, NServersAssumption
<1>4. CASE rd.at = "right"
  <2>1. rd.i + 1 < NServers
    BY <1>4 DEF RdInv
  <2>2. From = rd.i /\ To = rd.i + 1
    BY <1>4 DEF From, To
  <2> QED  BY <1>1, <1>2, <2>1, <2>2, NServersAssumption
<1> QED  BY <1>3, <1>4

(* The redistribution starts within its loops' bounds.                     *)
LEMMA RdInvStart ==
  ASSUME NEW cnts \in [Servers -> Int], Start(cnts)
  PROVE  RdInv'
<1>1. Differ(cnts) \in [Servers -> Int] /\ DifferPrefix(cnts) \in [Servers -> Int]
  BY DifferType
<1>2. 0 \in 0 .. NServers /\ 0 \in Int /\ "test" \in Places
  BY NServersAssumption DEF Places
<1> QED  BY <1>1, <1>2 DEF Start, RdInv, RdType

(* A redistribution that does not run is within its bounds.                *)
LEMMA RdInvIdle ==
  ASSUME rd = Idle
  PROVE  RdInv
<1>1. 0 \in 0 .. NServers /\ 0 \in Int /\ "idle" \in Places
  BY NServersAssumption DEF Places
<1> QED  BY <1>1 DEF Idle, RdInv, RdType

(* A redistribution that is given up is within its bounds.                 *)
LEMMA RdInvAbort ==
  ASSUME Abort
  PROVE  RdInv'
<1>1. 0 \in 0 .. NServers /\ 0 \in Int /\ "idle" \in Places
  BY NServersAssumption DEF Places
<1> QED  BY <1>1 DEF Abort, Idle, RdInv, RdType

(* A transfer counted off leaves the loop where it was.                    *)
LEMMA RdInvTransferred ==
  ASSUME RdInv, Transferred
  PROVE  RdInv'
BY DEF Transferred, RdInv, RdType

(* Every step of the loop stays within the servers there are.              *)
LEMMA RdInvLoop ==
  ASSUME RdInv, LoopStep
  PROVE  RdInv'
<1>1. /\ rd.i \in Int /\ 0 <= rd.i /\ rd.i <= NServers
      /\ rd.j \in Int /\ 0 <= rd.j /\ rd.j <= NServers
      /\ NServers \in Nat \ {0}
  BY NServersAssumption DEF RdInv, RdType
<1>2. /\ \A s \in Int : 0 <= s /\ s < NServers => s \in Servers
      /\ \A s \in Int : 0 <= s /\ s <= NServers <=> s \in 0 .. NServers
  BY NServersAssumption DEF Servers
<1>3. \A s \in Servers : rd.differ[s] \in Int /\ rd.prefix[s] \in Int
  BY DEF RdInv, RdType
<1>4. CASE SkipDeficit
  <2>1. rd.i + 1 \in 0 .. NServers
    BY <1>1, <1>4 DEF SkipDeficit
  <2> QED  BY <1>4, <2>1 DEF SkipDeficit, RdInv, RdType
<1>5. CASE BeginLeft
  <2>1. rd.i - 1 \in Servers /\ -rd.prefix[rd.i - 1] \in Int
    BY <1>1, <1>2, <1>3, <1>5 DEF BeginLeft
  <2>2. 1 <= rd.i /\ rd.i \in 0 .. NServers
    BY <1>1, <1>5 DEF BeginLeft
  <2>3. RdType'
    BY <1>5, <2>1, <2>2 DEF BeginLeft, RdInv, RdType, Places
  <2>4. rd'.at = "left" /\ rd'.j = rd.i /\ rd'.i = rd.i /\ rd.i < NServers
    BY <1>5 DEF BeginLeft, RdInv, RdType
  <2> QED  BY <1>1, <2>2, <2>3, <2>4 DEF RdInv
<1>6. CASE NoLeft
  BY <1>6 DEF NoLeft, RdInv, RdType, Places
<1>7. CASE NextLeftHop
  <2>1. rd.j - 2 \in Servers /\ -rd.prefix[rd.j - 2] \in Int
    BY <1>1, <1>2, <1>3, <1>7 DEF NextLeftHop
  <2>2. 1 <= rd.j - 1 /\ rd.j - 1 \in 0 .. NServers
        /\ (rd.j <= rd.i => rd.j - 1 <= rd.i)
    BY <1>1, <1>7 DEF NextLeftHop
  <2> QED  BY <1>7, <2>1, <2>2 DEF NextLeftHop, RdInv, RdType
<1>8. CASE EndLeft
  <2>1. rd.i - 1 \in Servers /\ rd.i \in Servers
    BY <1>1, <1>2, <1>8 DEF EndLeft, RdInv
  <2>2. rd.differ[rd.i] + rd.prefix[rd.i - 1] \in Int
    BY <1>3, <2>1
  <2>3. 0 \in 0 .. NServers
    BY <1>1
  <2> QED  BY <1>8, <2>1, <2>2, <2>3 DEF EndLeft, RdInv, RdType, Places
<1>9. CASE BeginRight
  <2>1. rd.i \in Servers /\ rd.differ[rd.i] \in Int
    BY <1>1, <1>2, <1>3, <1>9 DEF BeginRight, RdInv
  <2> QED  BY <1>9, <2>1 DEF BeginRight, HasSurplus, RdInv, RdType, Places
<1>10. CASE NoRight
  <2>1. rd.i + 1 \in 0 .. NServers /\ 0 \in Int
    BY <1>1, <1>10 DEF NoRight, RdInv
  <2> QED  BY <1>10, <2>1 DEF NoRight, RdInv, RdType, Places
<1>11. CASE EndRight
  <2>1. rd.i + 1 \in 0 .. NServers /\ 0 \in Int
    BY <1>1, <1>11 DEF EndRight, RdInv
  <2>2. rd.i \in Servers /\ rd.i + 1 \in Servers
    BY <1>1, <1>2, <1>11 DEF EndRight, RdInv
  <2>3. rd.differ[rd.i + 1] + rd.differ[rd.i] \in Int
    BY <1>3, <2>2
  <2> QED  BY <1>11, <2>1, <2>2, <2>3 DEF EndRight, RdInv, RdType, Places
<1> QED
  BY <1>4, <1>5, <1>6, <1>7, <1>8, <1>9, <1>10, <1>11 DEF LoopStep
=============================================================================
