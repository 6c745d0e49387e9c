--------------------------- MODULE BalanceProofs ---------------------------
(***************************************************************************)
(* The arithmetic of redistribute_path_keys is right for any number of     *)
(* servers and any counts: with exact counts and no two separate runs of   *)
(* servers that lack keys, no server is asked for a key it does not hold,  *)
(* every server ends with its target, and no key moves in vain.            *)
(*                                                                         *)
(* The argument: what passes from server s to its right neighbour, less    *)
(* what comes back, ends up as the running sum of the surpluses up to s.   *)
(* Flow says how much of it has passed at each statement of the loop.      *)
(***************************************************************************)
EXTENDS Balance, RedistributionProofs

(* What server s has passed to s + 1 so far, where p is what it should.    *)
Flow(r, p, s) ==
  IF r.at = "left" /\ s = r.j - 1   THEN p[s] + r.n
  ELSE IF r.at = "right" /\ s = r.i THEN p[s] - r.n
  ELSE IF s >= r.i                  THEN 0
  ELSE IF p[s] >= 0                 THEN p[s]
  ELSE IF r.at = "left"             THEN IF s >= r.j THEN p[s] ELSE 0
  ELSE IF r.at = "test" /\ p[r.i - 1] < 0 THEN 0
  ELSE p[s]

(* The arrays of the loop: a surplus is handed on as soon as it is known,  *)
(* a deficit stays in prefix until its keys were fetched.                  *)
Control(r, d, p) ==
  /\ r.at \in {"test", "left", "after_left", "right"}
  /\ \A s \in Servers : /\ s > r.i => r.differ[s] = d[s]
                        /\ r.prefix[s] = IF s < r.i /\ p[s] >= 0 THEN 0 ELSE p[s]
  /\ r.at = "test" /\ r.i < NServers =>
       r.differ[r.i] = IF r.i > 0 /\ p[r.i - 1] < 0 THEN d[r.i] ELSE p[r.i]
  /\ r.at = "left" =>
       /\ p[r.i] >= 0 /\ p[r.i - 1] < 0 /\ r.differ[r.i] = d[r.i]
       /\ r.n >= 0 /\ (r.n > 0 => r.n + p[r.j - 1] <= 0)
  /\ r.at \in {"after_left", "right"} => p[r.i] >= 0 /\ r.differ[r.i] = p[r.i]
  /\ r.at = "right" => 0 <= r.n /\ r.n <= p[r.i]

Abs(n) == IF n < 0 THEN -n ELSE n

(* Where the keys are, and how many moves it took.                         *)
Accounts(r, p) ==
  /\ \A s \in Servers :
       cnt[s] = reported[s] + (IF s = 0 THEN 0 ELSE Flow(r, p, s - 1)) - Flow(r, p, s)
  /\ moves = Sum([s \in Servers |-> Abs(Flow(r, p, s))])

BalanceInv ==
  Plain /\ Running =>
    /\ Sum(reported) >= NServers
    /\ Control(rd, Differ(reported), DifferPrefix(reported))
    /\ Accounts(rd, DifferPrefix(reported))
-----------------------------------------------------------------------------
(* target_cnt and the remainder share out all there is: the surpluses and  *)
(* deficits cancel out.                                                    *)
LEMMA DifferEnds ==
  ASSUME NEW cnts \in [Servers -> Int]
  PROVE  DifferPrefix(cnts)[NServers - 1] = 0
<1> DEFINE S == Sum(cnts)
           q == S \div NServers
           r == S % NServers
           P == Prefix(cnts)
           f == [s \in Servers |-> P[s] - (q * (s + 1) + (IF s + 1 <= r THEN s + 1 ELSE r))]
<1>1. /\ P \in [Servers -> Int]
      /\ \A s \in Servers : P[s] = cnts[s] + (IF s = 0 THEN 0 ELSE P[s - 1])
      /\ S = P[NServers - 1]
  BY PrefixProperties DEF Sum
<1>2. S \in Int
  BY SumType
<1> HIDE DEF S, P
<1>3. /\ q \in Int /\ r \in Int /\ 0 <= r /\ r < NServers
      /\ S = NServers * q + r
  BY <1>2, NServersAssumption
<1> HIDE DEF q, r
<1>4. \A s \in Servers : q * (s + 1) \in Int
  BY <1>3, NServersAssumption DEF Servers
<1>5. f \in [Servers -> Int]
  BY <1>1, <1>3, <1>4, NServersAssumption DEF Servers
<1>6. ASSUME NEW s \in Servers
      PROVE  f[s] = Differ(cnts)[s] + (IF s = 0 THEN 0 ELSE f[s - 1])
  <2>1. s \in Int /\ 0 <= s
    BY NServersAssumption DEF Servers
  <2>2. s # 0 => s - 1 \in Servers /\ P[s - 1] \in Int
    BY <1>1, NServersAssumption DEF Servers
  <2>3. Differ(cnts)[s] = cnts[s] - (q + (IF s < r THEN 1 ELSE 0))
    BY DEF Differ, Target, S, q, r
  <2>4. P[s] = cnts[s] + (IF s = 0 THEN 0 ELSE P[s - 1]) /\ P[s] \in Int /\ cnts[s] \in Int
    BY <1>1
  <2>5. q * (s + 1) = q * s + q /\ q * s \in Int /\ q * 1 = q
    BY <1>3, <2>1
  <2>6. s # 0 => f[s - 1] = P[s - 1] - (q * s + (IF s <= r THEN s ELSE r))
    BY <1>3, <2>1, <2>2
  <2>7. f[s] = P[s] - (q * s + q + (IF s + 1 <= r THEN s + 1 ELSE r))
    BY <2>5
  <2>8. CASE s = 0
    <3>1. q * s = 0
      BY <1>3, <2>8
    <3> QED  BY <1>3, <2>3, <2>4, <2>7, <2>8, <3>1
  <2>9. CASE s # 0
    BY <1>3, <2>1, <2>2, <2>3, <2>4, <2>5, <2>6, <2>7, <2>9
  <2> QED  BY <2>8, <2>9
<1>7. Differ(cnts) \in [Servers -> Int]
  BY DifferType
<1>8. f[NServers - 1] = 0
  <2>1. f[NServers - 1] = P[NServers - 1] - (q * NServers + r)
    BY <1>3, LastServer, NServersAssumption
  <2>2. q * NServers = NServers * q /\ NServers * q \in Int
    BY <1>3, NServersAssumption
  <2> QED  BY <1>1, <1>2, <1>3, <2>1, <2>2
<1> HIDE DEF f
<1>9. \A s \in Servers : Prefix(Differ(cnts))[s] = f[s]
  BY <1>5, <1>6, <1>7, PrefixUnique
<1> QED  BY <1>8, <1>9, LastServer DEF DifferPrefix

-----------------------------------------------------------------------------
(* What the surpluses d and their running sums p are when the counts are   *)
(* exact and those that lack keys are neighbours.                          *)
Sound(d, p) ==
  /\ d \in [Servers -> Int] /\ p \in [Servers -> Int]
  /\ \A s \in Servers : p[s] = d[s] + (IF s = 0 THEN 0 ELSE p[s - 1])
  /\ p[NServers - 1] = 0
  /\ \A a, b, c \in Servers :
       ~(a < b /\ b < c /\ p[a] < 0 /\ p[b] >= 0 /\ p[c] < 0)

(* Numbers of servers and of the loop's counters.                          *)
LEMMA ServerNumbers ==
  /\ \A s \in Servers : s \in Int /\ 0 <= s /\ s < NServers
  /\ \A s \in Int : 0 <= s /\ s < NServers => s \in Servers
  /\ NServers \in Int /\ NServers >= 1
BY NServersAssumption DEF Servers

(* The loop's own variables have the types the cases below rely on.        *)
LEMMA RdFacts ==
  ASSUME RdInv
  PROVE  /\ rd.i \in Int /\ 0 <= rd.i /\ rd.i <= NServers
         /\ rd.j \in Int /\ rd.n \in Int
         /\ rd.differ \in [Servers -> Int] /\ rd.prefix \in [Servers -> Int]
         /\ rd.at \in {"left", "after_left", "right"} => rd.i < NServers
         /\ rd.at = "left" => 1 <= rd.j /\ rd.j <= rd.i
         /\ rd.at = "right" => rd.i + 1 < NServers
BY NServersAssumption DEF RdInv, RdType

(* The statements of the loop that move no key keep the account of what    *)
(* has passed.                                                             *)
LEMMA ControlLoop ==
  ASSUME NEW d, NEW p, Sound(d, p), RdInv, Control(rd, d, p), LoopStep
  PROVE  /\ Control(rd', d, p)
         /\ \A s \in Servers : Flow(rd', p, s) = Flow(rd, p, s)
<1> USE ServerNumbers, RdFacts
<1>1. /\ \A s \in Servers : d[s] \in Int /\ p[s] \in Int
      /\ \A s \in Servers : p[s] = d[s] + (IF s = 0 THEN 0 ELSE p[s - 1])
      /\ p[NServers - 1] = 0
  BY DEF Sound
<1>2. CASE SkipDeficit
  <2>1. /\ rd.at = "test" /\ rd.i < NServers /\ rd.prefix[rd.i] < 0
        /\ rd'.at = "test" /\ rd'.i = rd.i + 1
        /\ rd'.differ = rd.differ /\ rd'.prefix = rd.prefix
    BY <1>2 DEF SkipDeficit, RdInv, RdType
  <2>2. rd.i \in Servers /\ p[rd.i] < 0
    BY <2>1 DEF Control
  <2>3. Control(rd', d, p)
    BY <1>1, <2>1, <2>2 DEF Control
  <2>4. ASSUME NEW s \in Servers, s < rd.i, p[s] < 0, rd.i > 0
        PROVE  p[rd.i - 1] < 0
    <3>1. rd.i - 1 \in Servers
      BY <2>1, <2>4
    <3>2. s = rd.i - 1 \/ s < rd.i - 1
      BY <2>4
    <3> QED  BY <1>1, <2>2, <2>4, <3>1, <3>2 DEF Sound
  <2>5. \A s \in Servers : Flow(rd', p, s) = Flow(rd, p, s)
    BY <1>1, <2>1, <2>2, <2>4 DEF Flow
  <2> QED  BY <2>3, <2>5
<1>3. CASE BeginLeft
  <2>1. /\ rd.at = "test" /\ rd.i < NServers /\ rd.prefix[rd.i] >= 0
        /\ rd.i > 0 /\ rd.prefix[rd.i - 1] < 0
        /\ rd'.at = "left" /\ rd'.i = rd.i /\ rd'.j = rd.i
        /\ rd'.n = -rd.prefix[rd.i - 1]
        /\ rd'.differ = rd.differ /\ rd'.prefix = rd.prefix
    BY <1>3 DEF BeginLeft, RdInv, RdType
  <2>2. /\ rd.i \in Servers /\ rd.i - 1 \in Servers
        /\ p[rd.i] >= 0 /\ p[rd.i - 1] < 0 /\ rd.prefix[rd.i - 1] = p[rd.i - 1]
    BY <1>1, <2>1 DEF Control
  <2>3. Control(rd', d, p)
    BY <1>1, <2>1, <2>2 DEF Control
  <2>4. \A s \in Servers : Flow(rd', p, s) = Flow(rd, p, s)
    BY <1>1, <2>1, <2>2 DEF Flow
  <2> QED  BY <2>3, <2>4
<1>4. CASE NoLeft
  <2>1. /\ rd.at = "test" /\ rd.i < NServers /\ rd.prefix[rd.i] >= 0
        /\ ~(rd.i > 0 /\ rd.prefix[rd.i - 1] < 0)
        /\ rd'.at = "after_left" /\ rd'.i = rd.i
        /\ rd'.differ = rd.differ /\ rd'.prefix = rd.prefix
    BY <1>4 DEF NoLeft, RdInv, RdType
  <2>2. /\ rd.i \in Servers /\ p[rd.i] >= 0
        /\ rd.i > 0 => rd.i - 1 \in Servers /\ p[rd.i - 1] >= 0
    BY <1>1, <2>1 DEF Control
  <2>3. Control(rd', d, p)
    BY <1>1, <2>1, <2>2 DEF Control
  <2>4. \A s \in Servers : Flow(rd', p, s) = Flow(rd, p, s)
    BY <1>1, <2>1, <2>2 DEF Flow
  <2> QED  BY <2>3, <2>4
<1>5. CASE NextLeftHop
  <2>1. /\ rd.at = "left" /\ rd.n = 0 /\ rd.j > 1
        /\ rd'.at = "left" /\ rd'.i = rd.i /\ rd'.j = rd.j - 1
        /\ rd'.n = -rd.prefix[rd.j - 2]
        /\ rd'.differ = rd.differ /\ rd'.prefix = rd.prefix
    BY <1>5 DEF NextLeftHop, RdInv, RdType
  <2>2. /\ rd.j - 2 \in Servers /\ rd.j - 1 \in Servers /\ rd.j - 2 < rd.i
        /\ rd.prefix[rd.j - 2] = IF p[rd.j - 2] >= 0 THEN 0 ELSE p[rd.j - 2]
    BY <1>1, <2>1 DEF Control
  <2>3. Control(rd', d, p)
    BY <1>1, <2>1, <2>2 DEF Control
  <2>4. \A s \in Servers : Flow(rd', p, s) = Flow(rd, p, s)
    BY <1>1, <2>1, <2>2 DEF Flow
  <2> QED  BY <2>3, <2>4
<1>6. CASE EndLeft
  <2>1. /\ rd.at = "left" /\ rd.n = 0 /\ rd.j = 1
        /\ rd'.at = "after_left" /\ rd'.i = rd.i
        /\ rd'.differ = [rd.differ EXCEPT ![rd.i] = @ + rd.prefix[rd.i - 1]]
        /\ rd'.prefix = rd.prefix
    BY <1>6 DEF EndLeft, RdInv, RdType
  <2>2. /\ rd.i \in Servers /\ rd.i - 1 \in Servers
        /\ p[rd.i] >= 0 /\ p[rd.i - 1] < 0
        /\ rd.prefix[rd.i - 1] = p[rd.i - 1] /\ rd.differ[rd.i] = d[rd.i]
    BY <1>1, <2>1 DEF Control
  <2>3. rd'.differ[rd.i] = p[rd.i] /\ \A s \in Servers : s > rd.i => rd'.differ[s] = rd.differ[s]
    BY <1>1, <2>1, <2>2
  <2>4. Control(rd', d, p)
    BY <1>1, <2>1, <2>2, <2>3 DEF Control
  <2>5. \A s \in Servers : Flow(rd', p, s) = Flow(rd, p, s)
    BY <1>1, <2>1, <2>2 DEF Flow
  <2> QED  BY <2>4, <2>5
<1>7. CASE BeginRight
  <2>1. /\ rd.at = "after_left" /\ rd.i + 1 < NServers /\ rd.differ[rd.i] > 0
        /\ rd'.at = "right" /\ rd'.i = rd.i /\ rd'.n = rd.differ[rd.i]
        /\ rd'.differ = rd.differ /\ rd'.prefix = rd.prefix
    BY <1>7 DEF BeginRight, HasSurplus, RdInv, RdType
  <2>2. rd.i \in Servers /\ p[rd.i] >= 0 /\ rd.differ[rd.i] = p[rd.i]
    BY <1>1, <2>1 DEF Control
  <2>3. Control(rd', d, p)
    BY <1>1, <2>1, <2>2 DEF Control
  <2>4. \A s \in Servers : Flow(rd', p, s) = Flow(rd, p, s)
    BY <1>1, <2>1, <2>2 DEF Flow
  <2> QED  BY <2>3, <2>4
<1>8. CASE EndRight
  <2>1. /\ rd.at = "right" /\ rd.n = 0
        /\ rd'.at = "test" /\ rd'.i = rd.i + 1
        /\ rd'.differ = [rd.differ EXCEPT ![rd.i + 1] = @ + rd.differ[rd.i]]
        /\ rd'.prefix = [rd.prefix EXCEPT ![rd.i] = 0]
    BY <1>8 DEF EndRight, RdInv, RdType
  <2>2. /\ rd.i \in Servers /\ rd.i + 1 \in Servers
        /\ p[rd.i] >= 0 /\ rd.differ[rd.i] = p[rd.i] /\ rd.differ[rd.i + 1] = d[rd.i + 1]
    BY <1>1, <2>1 DEF Control
  <2>3. /\ rd'.differ[rd.i + 1] = p[rd.i + 1]
        /\ \A s \in Servers : s > rd.i + 1 => rd'.differ[s] = rd.differ[s]
        /\ \A s \in Servers : rd'.prefix[s] = IF s = rd.i THEN 0 ELSE rd.prefix[s]
    BY <1>1, <2>1, <2>2
  <2>4. Control(rd', d, p)
    BY <1>1, <2>1, <2>2, <2>3 DEF Control
  <2>5. \A s \in Servers : Flow(rd', p, s) = Flow(rd, p, s)
    BY <1>1, <2>1, <2>2 DEF Flow
  <2> QED  BY <2>4, <2>5
<1>9. CASE NoRight
  <2>1. /\ rd.at = "after_left" /\ ~(rd.i + 1 < NServers /\ rd.differ[rd.i] > 0)
        /\ rd'.at = "test" /\ rd'.i = rd.i + 1
        /\ rd'.differ = rd.differ
        /\ rd'.prefix = [rd.prefix EXCEPT ![rd.i] = 0]
    BY <1>9 DEF NoRight, HasSurplus, RdInv, RdType
  <2>2. rd.i \in Servers /\ rd.differ[rd.i] = p[rd.i] /\ p[rd.i] >= 0
    BY <1>1, <2>1 DEF Control
  <2>3. p[rd.i] = 0
    BY <1>1, <2>1, <2>2
  <2>4. /\ \A s \in Servers : rd'.prefix[s] = IF s = rd.i THEN 0 ELSE rd.prefix[s]
        /\ rd.i + 1 < NServers => rd.i + 1 \in Servers /\ rd.differ[rd.i + 1] = d[rd.i + 1]
                                  /\ p[rd.i + 1] = d[rd.i + 1]
    BY <1>1, <2>1, <2>2, <2>3 DEF Control
  <2>5. Control(rd', d, p)
    BY <1>1, <2>1, <2>2, <2>3, <2>4 DEF Control
  <2>6. \A s \in Servers : Flow(rd', p, s) = Flow(rd, p, s)
    BY <1>1, <2>1, <2>2, <2>3 DEF Flow
  <2> QED  BY <2>5, <2>6
<1> QED
  BY <1>2, <1>3, <1>4, <1>5, <1>6, <1>7, <1>8, <1>9 DEF LoopStep

(* The transfer of one key adds one to what has passed the place it        *)
(* passes, in its direction, and never turns back what has passed before.  *)
LEMMA ControlMove ==
  ASSUME NEW d, NEW p, Sound(d, p), RdInv, Control(rd, d, p),
         WantsTransfer, Transferred,
         NEW t, t = (IF rd.at = "left" THEN rd.j - 1 ELSE rd.i)
  PROVE  /\ Control(rd', d, p)
         /\ t \in Servers
         /\ \A s \in Servers :
              /\ Flow(rd', p, s) = Flow(rd, p, s) +
                   (IF s = t THEN (IF rd.at = "left" THEN -1 ELSE 1) ELSE 0)
              /\ Abs(Flow(rd', p, s)) = Abs(Flow(rd, p, s)) + (IF s = t THEN 1 ELSE 0)
<1> USE ServerNumbers, RdFacts
<1>1. \A s \in Servers : d[s] \in Int /\ p[s] \in Int
  BY DEF Sound
<1>2. /\ rd.at \in {"left", "right"} /\ rd.n > 0
      /\ rd'.at = rd.at /\ rd'.i = rd.i /\ rd'.j = rd.j /\ rd'.n = rd.n - 1
      /\ rd'.differ = rd.differ /\ rd'.prefix = rd.prefix
  BY DEF WantsTransfer, Transferred, RdInv, RdType
<1>3. t \in Servers
  BY <1>2
<1>4. Control(rd', d, p)
  BY <1>1, <1>2 DEF Control
<1>5. CASE rd.at = "left"
  <2>1. rd.n + p[t] <= 0 /\ p[t] \in Int
    BY <1>1, <1>2, <1>3, <1>5 DEF Control
  <2>2. \A s \in Servers : s # t => Flow(rd', p, s) = Flow(rd, p, s) /\ Flow(rd, p, s) \in Int
    BY <1>1, <1>2, <1>5 DEF Flow
  <2>3. Flow(rd, p, t) = p[t] + rd.n /\ Flow(rd', p, t) = p[t] + rd.n - 1
    BY <1>1, <1>2, <1>3, <1>5 DEF Flow
  <2> QED  BY <1>2, <1>3, <1>4, <1>5, <2>1, <2>2, <2>3 DEF Abs
<1>6. CASE rd.at = "right"
  <2>1. rd.n <= p[t] /\ p[t] \in Int
    BY <1>1, <1>2, <1>3, <1>6 DEF Control
  <2>2. \A s \in Servers : s # t => Flow(rd', p, s) = Flow(rd, p, s) /\ Flow(rd, p, s) \in Int
    BY <1>1, <1>2, <1>6 DEF Flow
  <2>3. Flow(rd, p, t) = p[t] - rd.n /\ Flow(rd', p, t) = p[t] - rd.n + 1
    BY <1>1, <1>2, <1>3, <1>6 DEF Flow
  <2> QED  BY <1>2, <1>3, <1>4, <1>6, <2>1, <2>2, <2>3 DEF Abs
<1> QED  BY <1>2, <1>5, <1>6

(* What has passed is a number.                                            *)
LEMMA FlowType ==
  ASSUME NEW d, NEW p, Sound(d, p), RdInv
  PROVE  \A s \in Servers : Flow(rd, p, s) \in Int
BY ServerNumbers, RdFacts DEF Flow, Sound

-----------------------------------------------------------------------------
TypeInv ==
  /\ RdInv
  /\ cnt \in [Servers -> Nat] /\ reported \in [Servers -> Nat]
  /\ moves \in Nat

Inv == TypeInv /\ BalanceInv

(* Whoever moves, nothing is lost.                                         *)
LEMMA MoveKeepsSum ==
  ASSUME TypeInv, MoveOne
  PROVE  cnt' \in [Servers -> Nat] /\ Sum(cnt') = Sum(cnt)
<1>1. From \in Servers /\ To \in Servers /\ From # To
  BY TransferEnds DEF TypeInv, MoveOne, WantsTransfer
<1>2. cnt[From] > 0 /\ cnt' = [cnt EXCEPT ![From] = @ - 1, ![To] = @ + 1]
  BY DEF MoveOne
<1>3. PICK f \in Servers, t \in Servers : f = From /\ t = To
  BY <1>1
<1>4. PICK one \in Int : one = 1
  OBVIOUS
<1>5. PICK less \in Int : less = -1
  OBVIOUS
<1> DEFINE mid == [s \in Servers |-> cnt[s] + (IF s = f THEN less ELSE 0)]
<1>6. cnt \in [Servers -> Int] /\ mid \in [Servers -> Int]
  BY DEF TypeInv
<1>7. cnt' \in [Servers -> Nat]
  BY <1>1, <1>2 DEF TypeInv
<1>8. \A s \in Servers : cnt'[s] = mid[s] + (IF s = t THEN one ELSE 0)
  BY <1>1, <1>2, <1>3, <1>4, <1>5 DEF TypeInv
<1>9. \A s \in Servers : mid[s] = cnt[s] + (IF s = f THEN less ELSE 0)
  OBVIOUS
<1> HIDE DEF mid
<1>10. Sum(mid) = Sum(cnt) + less
  BY <1>6, <1>9, SumBump
<1>11. cnt' \in [Servers -> Int]
  BY <1>7
<1>12. Sum(cnt') = Sum(mid) + one
  BY <1>6, <1>8, <1>11, SumBump
<1>13. Sum(cnt) \in Int
  BY <1>6, SumType
<1> QED  BY <1>4, <1>5, <1>7, <1>10, <1>12, <1>13

(* Exact counts without separate deficits are sound.                       *)
LEMMA PlainIsSound ==
  ASSUME TypeInv, Plain
  PROVE  Sound(Differ(reported), DifferPrefix(reported))
<1>1. reported \in [Servers -> Int]
  BY DEF TypeInv
<1>2. /\ Differ(reported) \in [Servers -> Int]
      /\ DifferPrefix(reported) \in [Servers -> Int]
  BY <1>1, DifferType
<1>3. \A s \in Servers : DifferPrefix(reported)[s] =
        Differ(reported)[s] + (IF s = 0 THEN 0 ELSE DifferPrefix(reported)[s - 1])
  BY <1>2, PrefixProperties DEF DifferPrefix
<1>4. DifferPrefix(reported)[NServers - 1] = 0
  BY <1>1, DifferEnds
<1>5. \A a, b, c \in Servers :
        ~(/\ a < b /\ b < c /\ DifferPrefix(reported)[a] < 0
          /\ DifferPrefix(reported)[b] >= 0 /\ DifferPrefix(reported)[c] < 0)
  BY DEF Plain, SeparateDeficits
<1> QED  BY <1>2, <1>3, <1>4, <1>5 DEF Sound

(* The arrays of the loop, and nothing passed yet.                         *)
LEMMA InvInit == Init => Inv
<1> SUFFICES ASSUME Init  PROVE Inv
  OBVIOUS
<1>1. PICK t \in Servers, excess \in 0 .. MaxExcess :
        reported = [cnt EXCEPT ![t] = @ + excess]
  BY DEF Init
<1>2. cnt \in [Servers -> Nat] /\ reported \in [Servers -> Nat] /\ excess \in Nat
  BY <1>1, BoundsAssumption DEF Init
<1>3. cnt \in [Servers -> Int] /\ reported \in [Servers -> Int]
  BY <1>2
<1>4. CASE NeedRedistribution(reported)
  <2>1. rd = [at |-> "test", i |-> 0, j |-> 0, n |-> 0,
              differ |-> Differ(reported), prefix |-> DifferPrefix(reported)]
    BY <1>4 DEF Init
  <2>2. RdInv
    <3>1. /\ Differ(reported) \in [Servers -> Int]
          /\ DifferPrefix(reported) \in [Servers -> Int]
      BY <1>3, DifferType
    <3>2. 0 \in 0 .. NServers /\ 0 \in Int /\ "test" \in Places
      BY NServersAssumption DEF Places
    <3> QED  BY <2>1, <3>1, <3>2 DEF RdInv, RdType
  <2>3. TypeInv
    BY <1>2, <2>2 DEF TypeInv, Init
  <2>4. ASSUME Plain
        PROVE  /\ Control(rd, Differ(reported), DifferPrefix(reported))
               /\ Accounts(rd, DifferPrefix(reported))
    <3> DEFINE d == Differ(reported)
               p == DifferPrefix(reported)
               zeros == [s \in Servers |-> Abs(Flow(rd, p, s))]
    <3>1. Sound(d, p)
      BY <2>3, <2>4, PlainIsSound
    <3>2. excess = 0
      <4>1. \A s \in Servers : reported[s] = cnt[s] + (IF s = t THEN excess ELSE 0)
        BY <1>1, <1>3
      <4>2. Sum(reported) = Sum(cnt) + excess
        BY <1>2, <1>3, <4>1, SumBump
      <4>3. Sum(reported) \in Int /\ Sum(cnt) \in Int
        BY <1>3, SumType
      <4> QED  BY <1>2, <2>4, <4>2, <4>3 DEF Plain, Exact
    <3>3. \A s \in Servers : reported[s] = cnt[s] /\ cnt[s] \in Int
      BY <1>1, <1>3, <3>2
    <3> HIDE DEF d, p
    <3>4. rd.at = "test" /\ rd.i = 0 /\ rd.differ = d /\ rd.prefix = p
      BY <2>1 DEF d, p
    <3>5. \A s \in Servers : d[s] \in Int /\ p[s] \in Int
      BY <3>1 DEF Sound
    <3>6. p[0] = d[0] /\ 0 \in Servers
      BY <3>1, <3>5, LastServer DEF Sound
    <3>7. Control(rd, d, p)
      BY <3>4, <3>5, <3>6, ServerNumbers DEF Control
    <3>8. \A s \in Servers : Flow(rd, p, s) = 0
      BY <3>4, ServerNumbers DEF Flow
    <3>9. \A s \in Servers : s # 0 => Flow(rd, p, s - 1) = 0
      BY <3>8, ServerNumbers
    <3>10. moves = Sum(zeros)
      <4>1. zeros \in [Servers -> Int] /\ \A s \in Servers : zeros[s] = 0
        BY <3>8 DEF Abs
      <4> HIDE DEF zeros
      <4> DEFINE f == [s \in Servers |-> 0]
      <4>2. f \in [Servers -> Int] /\ \A s \in Servers : f[s] = 0
        OBVIOUS
      <4> HIDE DEF f
      <4>3. \A s \in Servers : s # 0 => s - 1 \in Servers
        BY ServerNumbers
      <4>4. \A s \in Servers : f[s] = zeros[s] + (IF s = 0 THEN 0 ELSE f[s - 1])
        BY <4>1, <4>2, <4>3
      <4>5. \A s \in Servers : Prefix(zeros)[s] = f[s]
        BY <4>1, <4>2, <4>4, PrefixUnique
      <4> QED  BY <4>2, <4>5, LastServer DEF Sum, Init
    <3>11. Accounts(rd, p)
      BY <3>3, <3>8, <3>9, <3>10 DEF Accounts
    <3> QED  BY <3>7, <3>11 DEF d, p
  <2>5. Sum(reported) >= NServers
    BY <1>4 DEF NeedRedistribution
  <2> QED  BY <2>3, <2>4, <2>5 DEF Inv, BalanceInv
<1>5. CASE ~NeedRedistribution(reported)
  <2>1. rd = Idle
    BY <1>5 DEF Init
  <2>2. TypeInv
    BY <1>2, <2>1, RdInvIdle DEF TypeInv, Init
  <2>3. ~Running
    BY <2>1 DEF Running, Idle
  <2> QED  BY <2>2, <2>3 DEF Inv, BalanceInv
<1> QED  BY <1>4, <1>5

-----------------------------------------------------------------------------
(* The total an account of moves is kept by, as a function.                *)
LEMMA AccountsType ==
  ASSUME NEW d, NEW p, Sound(d, p), RdInv
  PROVE  [s \in Servers |-> Abs(Flow(rd, p, s))] \in [Servers -> Int]
BY FlowType DEF Abs

(* A statement of the loop that moves no key keeps the invariant.          *)
LEMMA InvLoop ==
  ASSUME Inv, Loop
  PROVE  Inv'
<1>1. cnt' = cnt /\ reported' = reported /\ moves' = moves /\ LoopStep
  BY DEF Loop
<1>2. TypeInv'
  <2>1. RdInv'
    BY <1>1, RdInvLoop DEF Inv, TypeInv
  <2> QED  BY <1>1, <2>1 DEF Inv, TypeInv
<1>3. ASSUME Plain'
      PROVE  /\ Sum(reported') >= NServers
             /\ Control(rd', Differ(reported'), DifferPrefix(reported'))
             /\ Accounts(rd, DifferPrefix(reported))'
  <2> DEFINE d == Differ(reported)
             p == DifferPrefix(reported)
  <2>1. Plain
    BY <1>1, <1>3 DEF Plain, Exact, SeparateDeficits
  <2>2. Running
    BY <1>1 DEF LoopStep, SkipDeficit, BeginLeft, NoLeft, NextLeftHop, EndLeft,
                BeginRight, NoRight, EndRight, Running
  <2>3. Sum(reported) >= NServers /\ Control(rd, d, p) /\ Accounts(rd, p)
    BY <2>1, <2>2 DEF Inv, BalanceInv
  <2>4. Sound(d, p)
    BY <2>1, PlainIsSound DEF Inv
  <2> HIDE DEF d, p
  <2>5. /\ Control(rd', d, p)
        /\ \A s \in Servers : Flow(rd', p, s) = Flow(rd, p, s)
    BY <1>1, <2>3, <2>4, ControlLoop DEF Inv, TypeInv
  <2>6. [s \in Servers |-> Abs(Flow(rd', p, s))] = [s \in Servers |-> Abs(Flow(rd, p, s))]
    BY <2>5
  <2>7. \A s \in Servers :
          cnt[s] = reported[s] + (IF s = 0 THEN 0 ELSE Flow(rd', p, s - 1)) - Flow(rd', p, s)
    BY <2>3, <2>5, ServerNumbers DEF Accounts
  <2>8. moves = Sum([s \in Servers |-> Abs(Flow(rd', p, s))])
    BY <2>3, <2>6 DEF Accounts
  <2> QED  BY <1>1, <2>3, <2>5, <2>7, <2>8 DEF Accounts, d, p
<1> QED  BY <1>2, <1>3 DEF Inv, BalanceInv

(* The transfer of a key keeps the invariant.                              *)
LEMMA InvMove ==
  ASSUME Inv, MoveOne
  PROVE  Inv'
<1>1. /\ reported' = reported /\ moves' = moves + 1 /\ WantsTransfer /\ Transferred
      /\ cnt' = [cnt EXCEPT ![From] = @ - 1, ![To] = @ + 1]
  BY DEF MoveOne
<1>2. cnt' \in [Servers -> Nat] /\ Sum(cnt') = Sum(cnt)
  BY MoveKeepsSum DEF Inv
<1>3. TypeInv'
  <2>1. RdInv'
    BY <1>1, RdInvTransferred DEF Inv, TypeInv
  <2> QED  BY <1>1, <1>2, <2>1 DEF Inv, TypeInv
<1>4. ASSUME Plain'
      PROVE  /\ Sum(reported') >= NServers
             /\ Control(rd', Differ(reported'), DifferPrefix(reported'))
             /\ Accounts(rd, DifferPrefix(reported))'
  <2> DEFINE d == Differ(reported)
             p == DifferPrefix(reported)
             was == [s \in Servers |-> Abs(Flow(rd, p, s))]
             is  == [s \in Servers |-> Abs(Flow(rd', p, s))]
  <2>1. Plain
    BY <1>1, <1>2, <1>4 DEF Plain, Exact, SeparateDeficits
  <2>2. Running
    BY <1>1 DEF WantsTransfer, Running
  <2>3. Sum(reported) >= NServers /\ Control(rd, d, p) /\ Accounts(rd, p)
    BY <2>1, <2>2 DEF Inv, BalanceInv
  <2>4. Sound(d, p)
    BY <2>1, PlainIsSound DEF Inv
  <2> HIDE DEF d, p
  <2>5. PICK t : t = (IF rd.at = "left" THEN rd.j - 1 ELSE rd.i)
    OBVIOUS
  <2>6. /\ Control(rd', d, p)
        /\ t \in Servers
        /\ \A s \in Servers :
             /\ Flow(rd', p, s) = Flow(rd, p, s) +
                  (IF s = t THEN (IF rd.at = "left" THEN -1 ELSE 1) ELSE 0)
             /\ Abs(Flow(rd', p, s)) = Abs(Flow(rd, p, s)) + (IF s = t THEN 1 ELSE 0)
    BY <1>1, <2>3, <2>4, <2>5, ControlMove DEF Inv, TypeInv
  <2>7. \A s \in Servers : Flow(rd, p, s) \in Int
    BY <2>4, FlowType DEF Inv, TypeInv
  <2>8. moves' = Sum(is)
    <3>1. PICK one \in Int : one = 1
      OBVIOUS
    <3>2. was \in [Servers -> Int]
      BY <2>7 DEF Abs
    <3>3. \A s \in Servers : Flow(rd', p, s) \in Int
      BY <2>6, <2>7
    <3>4. is \in [Servers -> Int]
      BY <3>3 DEF Abs
    <3>5. \A s \in Servers : is[s] = was[s] + (IF s = t THEN one ELSE 0)
      BY <2>6, <3>1
    <3>6. moves = Sum(was)
      BY <2>3 DEF Accounts
    <3> HIDE DEF is, was
    <3>7. Sum(is) = Sum(was) + one
      BY <2>6, <3>2, <3>4, <3>5, SumBump
    <3> QED  BY <1>1, <3>1, <3>6, <3>7
  <2>9. ASSUME NEW s \in Servers
        PROVE  cnt'[s] = reported[s] + (IF s = 0 THEN 0 ELSE Flow(rd', p, s - 1))
                           - Flow(rd', p, s)
    <3>1. /\ From \in Servers /\ To \in Servers
          /\ rd.at = "left"  => From = t + 1 /\ To = t
          /\ rd.at # "left" => From = t /\ To = t + 1
      <4>1. From \in Servers /\ To \in Servers
        BY <1>1, TransferEnds DEF Inv, TypeInv, WantsTransfer
      <4>2. rd.i \in Int /\ rd.j \in Int /\ rd.at \in {"left", "right"}
        BY <1>1, RdFacts DEF Inv, TypeInv, WantsTransfer
      <4> QED  BY <2>5, <4>1, <4>2 DEF From, To
    <3>2. cnt[s] = reported[s] + (IF s = 0 THEN 0 ELSE Flow(rd, p, s - 1)) - Flow(rd, p, s)
      BY <2>3 DEF Accounts
    <3>3. s # 0 => s - 1 \in Servers
      BY ServerNumbers
    <3>4. /\ cnt[s] \in Int /\ reported[s] \in Int /\ Flow(rd, p, s) \in Int
          /\ s # 0 => Flow(rd, p, s - 1) \in Int
      BY <2>7, <3>3 DEF Inv, TypeInv
    <3>5. cnt'[s] = cnt[s] + (IF s = From THEN -1 ELSE IF s = To THEN 1 ELSE 0)
      BY <1>1, <2>6, <3>1, <3>4, ServerNumbers DEF Inv, TypeInv
    <3>6. /\ Flow(rd', p, s) = Flow(rd, p, s) +
               (IF s = t THEN (IF rd.at = "left" THEN -1 ELSE 1) ELSE 0)
          /\ s # 0 => Flow(rd', p, s - 1) = Flow(rd, p, s - 1) +
               (IF s - 1 = t THEN (IF rd.at = "left" THEN -1 ELSE 1) ELSE 0)
      BY <2>6, <3>3
    <3>7. t \in Int /\ 0 <= t /\ s \in Int /\ 0 <= s
      BY <2>6, ServerNumbers
    <3> QED  BY <3>1, <3>2, <3>4, <3>5, <3>6, <3>7
  <2> QED  BY <1>1, <2>3, <2>6, <2>8, <2>9 DEF Accounts, d, p
<1> QED  BY <1>3, <1>4 DEF Inv, BalanceInv

(* The invariant is inductive.                                             *)
LEMMA InvStep == Inv /\ [Next]_vars => Inv'
<1> SUFFICES ASSUME Inv, [Next]_vars  PROVE Inv'
  OBVIOUS
<1>1. CASE Loop
  BY <1>1, InvLoop
<1>2. CASE MoveOne
  BY <1>2, InvMove
<1>3. ASSUME Abort, UNCHANGED <<cnt, reported, moves>>  PROVE Inv'
  <2>1. TypeInv'
    BY <1>3, RdInvAbort DEF Inv, TypeInv
  <2>2. ~Running'
    BY <1>3 DEF Abort, Running, Idle
  <2> QED  BY <2>1, <2>2 DEF Inv, BalanceInv
<1>4. CASE UNCHANGED vars
  <2>1. rd' = rd /\ cnt' = cnt /\ reported' = reported /\ moves' = moves
    BY <1>4 DEF vars
  <2>2. TypeInv'
    BY <2>1 DEF Inv, TypeInv, RdInv, RdType
  <2>3. BalanceInv'
    BY <2>1 DEF Inv, BalanceInv, Plain, Exact, SeparateDeficits, Running, Accounts
  <2> QED  BY <2>2, <2>3 DEF Inv
<1> QED
  BY <1>1, <1>2, <1>3, <1>4 DEF Next, MoveFails, Return

(* The invariant holds throughout.                                         *)
LEMMA InvAlways == Spec => []Inv
BY InvInit, InvStep, PTL DEF Spec

-----------------------------------------------------------------------------
(* The loop of redistribute_path_keys stays within its arrays and no count *)
(* falls below zero, for any number of servers and any report.             *)
THEOREM BalanceTypeCorrect == Spec => []TypeOK
<1>1. Inv => TypeOK
  BY DEF Inv, TypeInv, RdInv, TypeOK
<1> QED  BY <1>1, InvAlways, PTL

(* No server is asked for a key it does not hold yet, whatever the number  *)
(* of servers and the keys they start with.                                *)
THEOREM BalanceNeverDrains == Spec => []NeverDrained
<1>1. ASSUME Inv, Plain, WantsTransfer  PROVE cnt[From] > 0
  <2> DEFINE d == Differ(reported)
             p == DifferPrefix(reported)
  <2>1. /\ Sum(reported) >= NServers /\ Control(rd, d, p) /\ Accounts(rd, p)
        /\ Sound(d, p)
    BY <1>1, PlainIsSound DEF Inv, BalanceInv, WantsTransfer, Running
  <2>2. /\ From \in Servers
        /\ rd.at \in {"left", "right"} /\ rd.n > 0
        /\ From = IF rd.at = "left" THEN rd.j ELSE rd.i
    BY <1>1, TransferEnds DEF Inv, TypeInv, WantsTransfer, From
  <2>3. reported[From] - d[From] = Target(reported, From) /\ Target(reported, From) \in Int
    <3>1. Sum(reported) \in Int /\ reported[From] \in Int
      BY <1>1, <2>2, SumType DEF Inv, TypeInv
    <3>2. Target(reported, From) \in Int
      BY <3>1, NServersAssumption DEF Target
    <3> QED  BY <2>2, <3>1, <3>2 DEF Differ
  <2>4. Target(reported, From) >= 1
    <3>1. Sum(reported) \in Int
      BY <1>1, SumType DEF Inv, TypeInv
    <3>2. Sum(reported) \div NServers >= 1
      BY <2>1, <3>1, NServersAssumption
    <3> QED  BY <3>1, <3>2, NServersAssumption DEF Target
  <2> HIDE DEF d, p
  <2>5. /\ d[From] \in Int /\ p[From] \in Int
        /\ p[From] = d[From] + (IF From = 0 THEN 0 ELSE p[From - 1])
        /\ From # 0 => From - 1 \in Servers /\ p[From - 1] \in Int
    BY <2>1, <2>2, ServerNumbers DEF Sound
  <2>6. cnt[From] = reported[From] + (IF From = 0 THEN 0 ELSE Flow(rd, p, From - 1))
                      - Flow(rd, p, From)
    BY <2>1, <2>2 DEF Accounts
  <2>7. reported[From] \in Int
    BY <1>1, <2>2 DEF Inv, TypeInv
  <2>8. CASE rd.at = "left"
    <3>1. From = rd.j /\ From >= 1 /\ rd.j <= rd.i /\ rd.i \in Servers /\ rd.n \in Int
      BY <1>1, <2>2, <2>8, RdFacts, ServerNumbers DEF Inv, TypeInv
    <3>2. Flow(rd, p, From - 1) = p[From - 1] + rd.n
      BY <2>8, <3>1 DEF Flow
    <3>3. Flow(rd, p, From) <= p[From] /\ Flow(rd, p, From) \in Int
      <4>1. p[rd.i] >= 0
        BY <2>1, <2>8 DEF Control
      <4>2. From # rd.j - 1
        BY <2>2, <3>1, ServerNumbers
      <4>3. rd.i \in Int /\ rd.j \in Int
        BY <1>1, RdFacts DEF Inv, TypeInv
      <4>4. CASE rd.j = rd.i
        <5>1. Flow(rd, p, From) = 0
          BY <2>8, <3>1, <4>2, <4>3, <4>4 DEF Flow
        <5> QED  BY <2>5, <3>1, <4>1, <4>4, <5>1
      <4>5. CASE rd.j < rd.i
        <5>1. Flow(rd, p, From) = p[From]
          BY <2>5, <2>8, <3>1, <4>2, <4>3, <4>5 DEF Flow
        <5> QED  BY <2>5, <5>1
      <4> QED  BY <3>1, <4>3, <4>4, <4>5
    <3> QED  BY <2>2, <2>3, <2>4, <2>5, <2>6, <2>7, <3>1, <3>2, <3>3
  <2>9. CASE rd.at = "right"
    <3>1. From = rd.i /\ rd.n \in Int
      BY <1>1, <2>2, <2>9, RdFacts DEF Inv, TypeInv
    <3>2. Flow(rd, p, From) = p[From] - rd.n
      BY <2>9, <3>1 DEF Flow
    <3>3. From # 0 => Flow(rd, p, From - 1) = p[From - 1]
      BY <2>2, <2>5, <2>9, <3>1, ServerNumbers DEF Flow
    <3> QED  BY <2>2, <2>3, <2>4, <2>5, <2>6, <2>7, <3>1, <3>2, <3>3
  <2> QED  BY <2>2, <2>8, <2>9
<1>2. Inv => NeverDrained
  BY <1>1 DEF NeverDrained
<1> QED  BY <1>2, InvAlways, PTL

(* When the loop has run through, what should have passed has.             *)
LEMMA FinishedFlow ==
  ASSUME Inv, Plain, Finished
  PROVE  /\ Accounts(rd, DifferPrefix(reported))
         /\ Sound(Differ(reported), DifferPrefix(reported))
         /\ \A s \in Servers : Flow(rd, DifferPrefix(reported), s) = DifferPrefix(reported)[s]
<1> DEFINE d == Differ(reported)
           p == DifferPrefix(reported)
<1>1. Accounts(rd, p) /\ Sound(d, p)
  BY PlainIsSound DEF Inv, BalanceInv, Finished, Running
<1> HIDE DEF d, p
<1>2. rd.at = "test" /\ rd.i = NServers /\ p[NServers - 1] = 0
  BY <1>1 DEF Finished, Sound
<1>3. \A s \in Servers : Flow(rd, p, s) = p[s]
  BY <1>1, <1>2, ServerNumbers DEF Flow
<1> QED  BY <1>1, <1>3 DEF d, p

(* Every server ends with its target_cnt, whatever the number of servers   *)
(* and the keys they start with.                                           *)
THEOREM BalanceEnds == Spec => []EndsBalanced
<1>1. ASSUME Inv, Plain, Finished, NEW s \in Servers
      PROVE  cnt[s] = Target(reported, s)
  <2> DEFINE d == Differ(reported)
             p == DifferPrefix(reported)
  <2>1. /\ Accounts(rd, p) /\ Sound(d, p)
        /\ \A x \in Servers : Flow(rd, p, x) = p[x]
    BY <1>1, FinishedFlow
  <2>2. d[s] = reported[s] - Target(reported, s) /\ Target(reported, s) \in Int
        /\ reported[s] \in Int
    <3>1. Sum(reported) \in Int /\ reported[s] \in Int
      BY <1>1, SumType DEF Inv, TypeInv
    <3>2. Target(reported, s) \in Int
      BY <3>1, NServersAssumption DEF Target
    <3> QED  BY <3>1, <3>2 DEF Differ
  <2> HIDE DEF d, p
  <2>3. /\ cnt[s] = reported[s] + (IF s = 0 THEN 0 ELSE Flow(rd, p, s - 1)) - Flow(rd, p, s)
        /\ p[s] = d[s] + (IF s = 0 THEN 0 ELSE p[s - 1])
        /\ s # 0 => s - 1 \in Servers /\ p[s - 1] \in Int
        /\ p[s] \in Int /\ d[s] \in Int
    BY <2>1, ServerNumbers DEF Accounts, Sound
  <2> QED  BY <2>1, <2>2, <2>3
<1>2. Inv => EndsBalanced
  BY <1>1 DEF EndsBalanced
<1> QED  BY <1>2, InvAlways, PTL

(* No key is carried back and forth, whatever the number of servers and    *)
(* the keys they start with.                                               *)
THEOREM BalanceFewestMoves == Spec => []FewestMoves
<1>1. ASSUME Inv, Plain, Finished
      PROVE  moves = Sum([s \in Servers |->
                       IF DifferPrefix(reported)[s] < 0 THEN -DifferPrefix(reported)[s]
                                                        ELSE DifferPrefix(reported)[s]])
  BY <1>1, FinishedFlow DEF Accounts, Abs
<1>2. Inv => FewestMoves
  BY <1>1 DEF FewestMoves
<1> QED  BY <1>2, InvAlways, PTL
=============================================================================
