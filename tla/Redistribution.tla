--------------------------- MODULE Redistribution ---------------------------
(***************************************************************************)
(* The control of redistribute_path_keys and of the loops transfer_left_n  *)
(* and transfer_right_n (manager_server.cpp): given the record counts the  *)
(* storage servers reported, which server hands how many keys to which     *)
(* neighbour, and in which order.  How one key is moved is left to the     *)
(* modules that extend this one.                                           *)
(***************************************************************************)
EXTENDS Integers

CONSTANT NServers      \* strg_servers.size()

ASSUME NServersAssumption == NServers \in Nat \ {0}

Servers == 0 .. NServers - 1

(* The running sums of an array of the servers, as the loops build them.   *)
Prefix(a) ==
  LET p[s \in Servers] == a[s] + (IF s = 0 THEN 0 ELSE p[s - 1])
  IN  p

Sum(cnts) == Prefix(cnts)[NServers - 1]

(* target_cnt, plus one for the first sum % sz servers.                    *)
Target(cnts, s) ==
  Sum(cnts) \div NServers + (IF s < Sum(cnts) % NServers THEN 1 ELSE 0)

(* The early return on sum < sz, and the need_redistribution loop.         *)
NeedRedistribution(cnts) ==
  /\ Sum(cnts) >= NServers
  /\ \E s \in Servers :
       \/ cnts[s] = 0
       \/ /\ cnts[s] > 0
          /\ \/ Target(cnts, s) \div cnts[s] > 2
             \/ cnts[s] \div Target(cnts, s) > 2

Differ(cnts) == [s \in Servers |-> cnts[s] - Target(cnts, s)]

DifferPrefix(cnts) == Prefix(Differ(cnts))

-----------------------------------------------------------------------------
(***************************************************************************)
(* rd is the state of the second loop: at which statement it is, the loop  *)
(* counters i and j, the two arrays it reads and writes, and how many      *)
(* single-key transfers the current transfer_*_n call still has to make.   *)
(***************************************************************************)
VARIABLE rd

Places == {"idle", "test", "left", "after_left", "right"}

Idle == [at |-> "idle", i |-> 0, j |-> 0, n |-> 0,
         differ |-> [s \in Servers |-> 0], prefix |-> [s \in Servers |-> 0]]

RdType ==
  rd \in [at : Places, i : 0 .. NServers, j : 0 .. NServers, n : Int,
          differ : [Servers -> Int], prefix : [Servers -> Int]]

Running == rd.at # "idle"

Start(cnts) ==
  rd' = [at |-> "test", i |-> 0, j |-> 0, n |-> 0,
         differ |-> Differ(cnts), prefix |-> DifferPrefix(cnts)]

(* A non-zero result of a transfer is returned at once.                    *)
Abort == rd' = Idle

(* The loop ran out of servers.                                            *)
Finished == rd.at = "test" /\ rd.i = NServers

(* Mutants of the loop, used to check that the properties can fail: the    *)
(* counter is not advanced past a deficit, the pass to the left is left    *)
(* out, what was passed to the left still counts as surplus, what was      *)
(* passed to the right is not counted where it arrived.                    *)
SkipDeficitForever ==
  /\ rd.at = "test" /\ rd.i < NServers
  /\ rd.prefix[rd.i] < 0
  /\ rd' = rd

NoLeftAtAll ==
  /\ rd.at = "test" /\ rd.i < NServers
  /\ rd.prefix[rd.i] >= 0
  /\ rd' = [rd EXCEPT !.at = "after_left"]

EndLeftKeepsSurplus ==
  /\ rd.at = "left" /\ rd.n = 0 /\ rd.j = 1
  /\ rd' = [rd EXCEPT !.at = "after_left", !.j = 0]

EndRightUncounted ==
  /\ rd.at = "right" /\ rd.n = 0
  /\ rd' = [rd EXCEPT !.at = "test", !.i = @ + 1, !.prefix[rd.i] = 0]

(* differ_prefix[i] < 0: server i waits for keys from its right.           *)
SkipDeficit ==
  /\ rd.at = "test" /\ rd.i < NServers
  /\ rd.prefix[rd.i] < 0
  /\ rd' = [rd EXCEPT !.i = @ + 1]

(* The servers left of i lack keys: pass them leftwards, farthest hop last.*)
BeginLeft ==
  /\ rd.at = "test" /\ rd.i < NServers
  /\ rd.prefix[rd.i] >= 0
  /\ rd.i > 0 /\ rd.prefix[rd.i - 1] < 0
  /\ rd' = [rd EXCEPT !.at = "left", !.j = rd.i, !.n = -rd.prefix[rd.i - 1]]

NoLeft ==
  /\ rd.at = "test" /\ rd.i < NServers
  /\ rd.prefix[rd.i] >= 0
  /\ ~(rd.i > 0 /\ rd.prefix[rd.i - 1] < 0)
  /\ rd' = [rd EXCEPT !.at = "after_left"]

NextLeftHop ==
  /\ rd.at = "left" /\ rd.n = 0 /\ rd.j > 1
  /\ rd' = [rd EXCEPT !.j = @ - 1, !.n = -rd.prefix[rd.j - 2]]

EndLeft ==
  /\ rd.at = "left" /\ rd.n = 0 /\ rd.j = 1
  /\ rd' = [rd EXCEPT !.at = "after_left", !.j = 0,
                      !.differ[rd.i] = @ + rd.prefix[rd.i - 1]]

HasSurplus == rd.i + 1 < NServers /\ rd.differ[rd.i] > 0

BeginRight ==
  /\ rd.at = "after_left" /\ HasSurplus
  /\ rd' = [rd EXCEPT !.at = "right", !.n = rd.differ[rd.i]]

EndRight ==
  /\ rd.at = "right" /\ rd.n = 0
  /\ rd' = [rd EXCEPT !.at = "test", !.i = @ + 1, !.prefix[rd.i] = 0,
                      !.differ[rd.i + 1] = @ + rd.differ[rd.i]]

NoRight ==
  /\ rd.at = "after_left" /\ ~HasSurplus
  /\ rd' = [rd EXCEPT !.at = "test", !.i = @ + 1, !.prefix[rd.i] = 0]

(* The statements of the loop that move no key.                            *)
LoopStep ==
  \/ SkipDeficit
  \/ BeginLeft \/ NoLeft \/ NextLeftHop \/ EndLeft
  \/ BeginRight \/ NoRight \/ EndRight

(* The transfer the loop is about to make, and what remains after it.      *)
WantsTransfer == rd.at \in {"left", "right"} /\ rd.n > 0
From == IF rd.at = "left" THEN rd.j ELSE rd.i
To   == IF rd.at = "left" THEN rd.j - 1 ELSE rd.i + 1
Transferred == rd' = [rd EXCEPT !.n = @ - 1]
=============================================================================
