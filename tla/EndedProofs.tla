---------------------------- MODULE EndedProofs ----------------------------
(***************************************************************************)
(* Theorems about the servers of Cluster that rest on where their messages *)
(* are.                                                                    *)
(*                                                                         *)
(* A server that is told to end goes without a key: until its first count  *)
(* all it has is still to be seen to, and from then on nobody but the      *)
(* transfers tells it anything, what was seen to is empty, and as many keys *)
(* are still to be moved as it still has, or more (LeftInv).  For          *)
(* that to be so, the one message of a transfer must name a key that is    *)
(* there to be moved (MoveInv), and a server that is told to end must be   *)
(* told nothing after it (GoneInv).  A count may be too high or too low:   *)
(* too high, the transfer of a key that is not there breaks the hand-over  *)
(* off, and nobody is told to end; too low is the event "short_count".     *)
(*                                                                         *)
(* And what the servers have agrees with what is known of it (ThereInv,    *)
(* HomeInv, FullInv, SepsInv), which the theorem about ranges rests on.    *)
(*                                                                         *)
(* TLC checked each of them as an invariant first.                         *)
(***************************************************************************)
EXTENDS StructureProofs

(* Nothing was late, no key began to move with a message under way, and no *)
(* server that ends was counted with fewer keys than it has.               *)
Still == faults = 0 /\ "crossed" \notin past /\ "short_count" \notin past

(* The server that ends and the one that gets its keys.                    *)
Ending == mgr.job = "terminate"
Ender  == servers[2]
Heir   == servers[1]

(* Keys move only in these places, and to the left when a server ends.     *)
EndPlaces ==
  /\ mgr.job # "none" => mgr.wait \in Moving
  /\ Ending /\ mgr.wait = "count" => mgr.i = 2
  /\ Ending /\ mgr.wait \in {"move"} \cup TransferWaits => mgr.dir = "left"

(* Nothing but SHUTDOWN comes after the count in a list.                   *)
Awake == Commands \ {"SHUTDOWN"}

Told == Awake \ {"GET_RECORDS_CNT"}

CountLast(s) ==
  \A k \in DOMAIN s : s[k].cmd \in Told =>
    \E l \in DOMAIN s : k < l /\ s[l].cmd = "GET_RECORDS_CNT"

(* How many keys of its path are still to be moved from the one that ends. *)
Remaining ==
  IF mgr.wait = "dispose" /\ box["answer"] # <<>> THEN mgr.n - 1 ELSE mgr.n

(* Before its first count is answered all it has is still to be seen to;   *)
(* afterwards nobody else tells it anything, and what was seen to is empty.*)
Untouched ==
  /\ mgr.wait \in {"path", "count"} /\ box["count"] = <<>>
  /\ DOMAIN store[Ender] \subseteq ToSet(mgr.todo)
  /\ mgr.wait = "count" => CountLast(inbox[Ender])

Emptied ==
  /\ \A c \in DOMAIN store[Ender] : c \in ToSet(mgr.todo) \/ store[Ender][c] = {}
  /\ mgr.wait \notin TransferWaits => None(inbox[Ender], Told)
  /\ mgr.wait = "count" /\ box["count"] # <<>> =>
       /\ Head(mgr.todo) \in DOMAIN store[Ender]
       /\ Cardinality(store[Ender][Head(mgr.todo)]) <= Head(box["count"]).cnt
  /\ mgr.wait \in {"move"} \cup TransferWaits =>
       /\ Head(mgr.todo) \in DOMAIN store[Ender]
       /\ Cardinality(store[Ender][Head(mgr.todo)]) <= Remaining

LeftInv == Still /\ Ending /\ proc[Ender] = "up" => Untouched \/ Emptied

(* One message is about in a transfer, and names a key that can be moved.  *)
Mover == IF mgr.wait = "add" THEN Heir ELSE Ender

MoveCommand ==
  CASE mgr.wait = "obtain" -> "OBTAIN_MIN" [] mgr.wait = "next" -> "OBTAIN_NEXT"
    [] mgr.wait = "add"    -> "ADD"        [] OTHER             -> "DISPOSE"

Movable(m) == m.coll = Head(mgr.todo) /\ m.key \in store[Ender][Head(mgr.todo)]

MoveLost == box["answer"] = <<>> /\ proc[Mover] # "up" /\ None(inbox[Mover], Awake)

MoveAsked ==
  /\ box["answer"] = <<>>
  /\ \E m \in Asking :
       /\ One(inbox[Mover], Awake, m) /\ m.cmd = MoveCommand
       /\ m.coll = Head(mgr.todo) /\ (mgr.wait # "obtain" => Movable(m))

MoveAnswered ==
  /\ None(inbox[Mover], Awake) /\ Len(box["answer"]) = 1
  /\ LET a == Head(box["answer"])
     IN  mgr.wait # "dispose" /\ a.status = "OK" => Movable(a)

MoveInv ==
  Still /\ Ending /\ proc[Ender] = "up" /\ mgr.wait \in TransferWaits =>
    /\ \A p \in Pids : p # Mover => None(inbox[p], Awake)
    /\ MoveLost \/ MoveAsked \/ MoveAnswered

(* A server that is told to end is not one any more, and has nothing.      *)
Bequeathed(p) ==
  /\ \A j \in DOMAIN servers : servers[j] # p
  /\ None(inbox[p], AddStruct)
  /\ DOMAIN store[p] = {} \/ None(inbox[p], {"ADD"})
  /\ \A c \in DOMAIN store[p] : store[p][c] = {}

GoneInv ==
  Still => \A p \in Pids :
    proc[p] = "up" /\ ~None(inbox[p], {"TERMINATE"}) => Bequeathed(p)

(* What comes back from a broadcast, and what goes back.                   *)
BackInv ==
  /\ \A b \in {"added", "disposed"} : \A k \in DOMAIN box[b] : box[b][k].cmd \in Structural
  /\ mgr.wait \in Elsewise => mgr.msg.cmd \in Structural /\ mgr.i \in DOMAIN servers

(* What is kept by every step.                                             *)
EndInv == EndPlaces /\ LeftInv /\ MoveInv /\ GoneInv /\ BackInv

-----------------------------------------------------------------------------
(* A step that leaves alone what the invariant is about keeps it.          *)
LEMMA EndSame ==
  ASSUME EndInv, UNCHANGED <<proc, inbox, box, store, servers, mgr, faults, past>>
  PROVE  EndInv'
<1>1. Still' <=> Still
  BY DEF Still
<1>2. EndPlaces'
  BY DEF EndInv, EndPlaces, Ending
<1>3. LeftInv'
  BY <1>1 DEF EndInv, LeftInv, Ending, Ender, Untouched, Emptied, Remaining, None, CountLast
<1>4. MoveInv'
  BY <1>1 DEF EndInv, MoveInv, Ending, Ender, Heir, Mover, MoveLost, MoveAsked, MoveAnswered,
              MoveCommand, Movable, None, One
<1>5. GoneInv'
  BY <1>1 DEF EndInv, GoneInv, Bequeathed, None
<1>6. BackInv'
  BY DEF EndInv, BackInv
<1> QED  BY <1>2, <1>3, <1>4, <1>5, <1>6 DEF EndInv

(* A server ends only next to another one.                                 *)
LEMMA BothThere ==
  ASSUME TypeInv, Ending
  PROVE  /\ Len(servers) = 2 /\ 1 \in DOMAIN servers /\ 2 \in DOMAIN servers
         /\ Ender \in Pids /\ Heir \in Pids
<1>1. Len(servers) = 2 /\ servers \in Seq(Pids)
  BY DEF TypeInv, MgrType, KnownType, Ending, MaxServers
<1>2. 1 \in DOMAIN servers /\ 2 \in DOMAIN servers /\ servers[1] \in Pids /\ servers[2] \in Pids
  BY <1>1
<1> QED  BY <1>1, <1>2 DEF Ender, Heir

(* While keys move nothing is broadcast.                                   *)
LEMMA MovingAlone ==
  ASSUME TypeInv, BroadcastInv, CountInv, EndPlaces, Still, Ending
  PROVE  /\ Sound /\ ~Broadcasting /\ mgr.wait \in Moving
         /\ \A p \in Pids : None(inbox[p], Structural)
         /\ \A p \in Pids : ~Counting(p) => None(inbox[p], {"GET_RECORDS_CNT"})
         /\ mgr.wait # "count" => box["count"] = <<>>
         /\ Len(servers) = 2 /\ 1 \in DOMAIN servers /\ 2 \in DOMAIN servers
         /\ Ender \in Pids /\ Heir \in Pids
<1>1. mgr.wait \in Moving /\ Sound /\ ~Broadcasting
  BY DEF EndPlaces, Ending, Still, Sound, Moving, TransferWaits, Broadcasting
<1>2. \A p \in Pids : None(inbox[p], Structural)
  BY <1>1 DEF BroadcastInv, Awaited
<1> QED  BY <1>1, <1>2, CountInv, BothThere DEF CountInv

-----------------------------------------------------------------------------
(* What a step of server q does to the others, to itself and the counts.   *)
Goes(q) == proc'[q] = "gone" /\ inbox'[q] = <<>> /\ UNCHANGED box

Stays(q) ==
  /\ UNCHANGED proc /\ inbox[q] # <<>> /\ inbox'[q] = Tail(inbox[q])
  /\ Head(inbox[q]).cmd \notin {"TERMINATE", "SHUTDOWN"}
  /\ Head(inbox[q]).cmd \in Structural \cup {"GET_RECORDS_CNT"} \/ DOMAIN store'[q] = DOMAIN store[q]
  /\ box'["count"] = box["count"] \/ ServeCount(q)

ServerStep(q) ==
  /\ UNCHANGED <<servers, mgr>> /\ past \subseteq past' /\ (faults' = 0 => faults = 0)
  /\ proc[q] = "up"
  /\ \A p \in Pids : p # q => /\ proc'[p] = proc[p] /\ inbox'[p] = inbox[p]
                              /\ store'[p] = store[p]
  /\ Goes(q) \/ Stays(q)

(* What a step of a server leaves alone.                                   *)
LEMMA ServerSteps ==
  ASSUME TypeInv, NEW q \in Pids, Server(q)
  PROVE  ServerStep(q)
<1>1. /\ proc \in [Pids -> {"unborn", "up", "gone"}] /\ inbox \in [Pids -> Seq(Asking)]
      /\ store = [p \in Pids |-> store[p]] /\ box \in [Boxes -> Seq(Asking)]
      /\ faults \in Nat /\ \A p \in Pids : store[p] \in [DOMAIN store[p] -> SUBSET Keys]
  BY ClusterAssumption DEF TypeInv, ServersType, MailType, HistoryType, IsMap
<1>2. /\ UNCHANGED <<servers, mgr>> /\ past \subseteq past' /\ proc[q] = "up"
      /\ (faults' = faults \/ faults' = faults + 1)
  <2>1. CASE ServeCount(q)
    BY <2>1 DEF ServeCount, Elsewhere, Serves
  <2>2. CASE ~ServeCount(q)
    BY <2>2 DEF Server, ServeSetup, ServeAddStruct, ServeDisposeStruct, ServeData, NoMemory, ServeRange,
       ServeEnd, LoseQueue, Elsewhere, Serves
  <2> QED  BY <2>1, <2>2
<1>3. faults' = 0 => faults = 0
  BY <1>1, <1>2
<1>4. CASE Dies(q)
  <2>1. /\ \A p \in Pids : p # q => /\ proc'[p] = proc[p] /\ inbox'[p] = inbox[p]
                                    /\ store'[p] = store[p]
        /\ Goes(q)
    BY <1>1, <1>4 DEF Dies, Goes
  <2> QED  BY <1>2, <1>3, <2>1 DEF ServerStep
<1>5. CASE ~Dies(q)
  <2>1. /\ UNCHANGED proc /\ inbox[q] # <<>> /\ inbox' = Taken(q)
        /\ Head(inbox[q]).cmd \notin {"TERMINATE", "SHUTDOWN"}
    BY <1>5 DEF Server, ServeSetup, ServeAddStruct, ServeDisposeStruct, ServeCount, ServeData, NoMemory,
         ServeRange, ServeEnd, LoseQueue, Elsewhere, Serves, Answer, AddStruct, DropStruct, DataChanges
  <2>2. /\ inbox'[q] = Tail(inbox[q])
        /\ \A p \in Pids : p # q => inbox'[p] = inbox[p]
    BY <1>1, <2>1 DEF Taken
  <2>3. \/ /\ ServeAddStruct(q) \/ ServeDisposeStruct(q)
           /\ \E b \in {"added", "disposed"} : \E l : box' = [box EXCEPT ![b] = l]
           /\ Head(inbox[q]).cmd \in Structural
           /\ UNCHANGED store \/ \E s : store' = [store EXCEPT ![q] = s]
        \/ ServeCount(q) /\ UNCHANGED store /\ Head(inbox[q]).cmd = "GET_RECORDS_CNT"
        \/ /\ UNCHANGED store
           /\ \E b \in {"setup", "answer"} : \E l : box' = [box EXCEPT ![b] = l]
        \/ ServeData(q)
    BY <1>5 DEF Server, ServeSetup, ServeAddStruct, ServeDisposeStruct, ServeCount, NoMemory,
         ServeRange, ServeEnd, LoseQueue, Serves, Answer, data, Structural
  <2>4. /\ box'["count"] = box["count"] \/ ServeCount(q)
        /\ \A p \in Pids : p # q => store'[p] = store[p]
        /\ Head(inbox[q]).cmd \in Structural \cup {"GET_RECORDS_CNT"} \/ DOMAIN store'[q] = DOMAIN store[q]
    <3>1. CASE ServeData(q)
      <4>1. \E l : box' = [box EXCEPT !["answer"] = l]
        BY <3>1 DEF ServeData, Answer
      <4>2. UNCHANGED store \/ \E S, c : store' = [store EXCEPT ![q][c] = S] /\ c \in DOMAIN store[q]
        BY <3>1 DEF ServeData
      <4>3. box'["count"] = box["count"]
        BY <1>1, <4>1 DEF Boxes
      <4> QED  BY <1>1, <4>2, <4>3
    <3>2. CASE /\ \E b \in {"added", "disposed"} : \E l : box' = [box EXCEPT ![b] = l]
               /\ Head(inbox[q]).cmd \in Structural
               /\ UNCHANGED store \/ \E s : store' = [store EXCEPT ![q] = s]
      BY <1>1, <3>2 DEF Boxes
    <3>3. CASE ServeCount(q) /\ UNCHANGED store /\ Head(inbox[q]).cmd = "GET_RECORDS_CNT"
      BY <3>3
    <3>4. CASE /\ UNCHANGED store
               /\ \E b \in {"setup", "answer"} : \E l : box' = [box EXCEPT ![b] = l]
      BY <1>1, <3>4 DEF Boxes
    <3> QED  BY <2>3, <3>1, <3>2, <3>3, <3>4
  <2>5. Stays(q)
    BY <2>1, <2>2, <2>4 DEF Stays
  <2> QED  BY <1>2, <1>3, <2>1, <2>2, <2>4, <2>5 DEF ServerStep
<1> QED  BY <1>4, <1>5

(* Commands other than to add take nothing that is not there.              *)
Shrinks(q) ==
  \A c \in DOMAIN store'[q] : c \in DOMAIN store[q] /\ store'[q][c] \subseteq store[q][c]

(* A server that stays, and is not told to add, only loses keys.           *)
LEMMA ServerShrinks ==
  ASSUME TypeInv, NEW q \in Pids, Server(q), Stays(q), Head(inbox[q]).cmd \notin AddStruct,
         Head(inbox[q]).cmd = "ADD" => DOMAIN store[q] = {}
  PROVE  Shrinks(q)
<1>1. /\ store = [p \in Pids |-> store[p]] /\ store[q] \in [DOMAIN store[q] -> SUBSET Keys]
  BY DEF TypeInv, ServersType, IsMap
<1>2. CASE UNCHANGED store
  BY <1>2 DEF Shrinks
<1>3. CASE ServeData(q) /\ ~UNCHANGED store
  <2> DEFINE m == Head(inbox[q])
             S == store[q][m.coll]
  <2>1. m.coll \in DOMAIN store[q] /\ store' = [store EXCEPT ![q][m.coll] = Effect(m, S)]
    BY <1>3 DEF ServeData
  <2>2. Effect(m, S) \subseteq S
    BY <2>1 DEF Effect
  <2> HIDE DEF m, S
  <2>3. /\ DOMAIN store'[q] = DOMAIN store[q] /\ store'[q][m.coll] = Effect(m, S)
        /\ \A c \in DOMAIN store[q] : c # m.coll => store'[q][c] = store[q][c]
    BY <1>1, <2>1
  <2> QED  BY <2>2, <2>3 DEF Shrinks, S
<1>4. CASE ServeDisposeStruct(q) /\ ~UNCHANGED store
  <2>1. PICK T \in SUBSET DOMAIN store[q] : store' = [store EXCEPT ![q] = [c \in T |-> store[q][c]]]
    <3>1. EmptyMap = [c \in {} |-> store[q][c]]
      BY DEF EmptyMap
    <3>2. \/ store' = [store EXCEPT ![q] = [c \in DOMAIN store[q] \ {Head(inbox[q]).coll} |-> store[q][c]]]
          \/ store' = [store EXCEPT ![q] = EmptyMap]
      BY <1>4 DEF ServeDisposeStruct, data
    <3> QED  BY <3>1, <3>2
  <2> QED  BY <1>1, <2>1 DEF Shrinks
<1>5. ~ServeAddStruct(q) /\ ~ServeEnd(q)
  BY DEF ServeAddStruct, ServeEnd, Serves, Stays
<1>6. ServeSetup(q) \/ ServeCount(q) \/ NoMemory(q) \/ ServeRange(q) \/ LoseQueue(q)
        => UNCHANGED store
  <2>1. ~Dies(q)
    <3>1. proc[q] = "up" /\ proc' = proc /\ proc \in [Pids -> {"unborn", "up", "gone"}]
      BY ServerSteps DEF ServerStep, Stays, TypeInv, ServersType
    <3> QED  BY <3>1 DEF Dies
  <2> QED  BY <2>1 DEF ServeSetup, ServeCount, NoMemory, ServeRange, LoseQueue, data
<1> QED  BY <1>2, <1>3, <1>4, <1>5, <1>6 DEF Server

(* A server that is told to end keeps nothing of what comes.               *)
LEMMA GoneServed ==
  ASSUME TypeInv, GoneInv, NEW q \in Pids, Server(q)
  PROVE  GoneInv'
<1>1. SUFFICES ASSUME Still', NEW p \in Pids, proc'[p] = "up", ~None(inbox'[p], {"TERMINATE"})
               PROVE  Bequeathed(p)'
  BY DEF GoneInv
<1>2. ServerStep(q)
  BY ServerSteps
<1>3. Still /\ UNCHANGED <<servers, mgr>>
  BY <1>1, <1>2 DEF Still, ServerStep
<1>4. CASE p # q
  BY <1>1, <1>2, <1>3, <1>4 DEF ServerStep, GoneInv, Bequeathed
<1>5. CASE p = q
  <2>1. Stays(q) /\ proc[q] = "up"
    BY <1>1, <1>2, <1>5 DEF ServerStep, Goes
  <2>2. inbox[q] \in Seq(Asking) /\ inbox[q] # <<>> /\ inbox'[q] = Tail(inbox[q])
    BY <2>1 DEF Stays, TypeInv, MailType
  <2>3. \A C : None(inbox[q], C) => None(inbox'[q], C) /\ Head(inbox[q]).cmd \notin C
    BY <2>2, TailAt DEF None
  <2>4. Bequeathed(q)
    BY <1>1, <1>3, <1>5, <2>1, <2>3 DEF GoneInv
  <2>5. Shrinks(q)
    <3>1. None(inbox[q], AddStruct) /\ (DOMAIN store[q] = {} \/ None(inbox[q], {"ADD"}))
      BY <2>4 DEF Bequeathed
    <3>2. Head(inbox[q]).cmd \notin AddStruct /\ (Head(inbox[q]).cmd = "ADD" => DOMAIN store[q] = {})
      BY <2>3, <3>1
    <3> QED  BY <2>1, <3>2, ServerShrinks
  <2>6. DOMAIN store[q] = {} => DOMAIN store'[q] = {}
    BY <2>5 DEF Shrinks
  <2>7. \A c \in DOMAIN store'[q] : store'[q][c] = {}
    BY <2>4, <2>5 DEF Shrinks, Bequeathed
  <2>8. /\ None(inbox'[q], AddStruct)
        /\ DOMAIN store'[q] = {} \/ None(inbox'[q], {"ADD"})
    BY <2>3, <2>4, <2>6 DEF Bequeathed
  <2> QED  BY <1>3, <1>5, <2>4, <2>7, <2>8 DEF Bequeathed
<1> QED  BY <1>4, <1>5

-----------------------------------------------------------------------------
(* A server with nothing but SHUTDOWN in its inbox can only end.           *)
LEMMA AsleepGoes ==
  ASSUME TypeInv, NEW q \in Pids, Stays(q)
  PROVE  /\ Head(inbox[q]) \in Asking /\ Head(inbox[q]).cmd \in Awake
         /\ \A C : None(inbox[q], C) => Head(inbox[q]).cmd \notin C
         /\ inbox[q] \in Seq(Asking) /\ inbox[q] # <<>> /\ inbox'[q] = Tail(inbox[q])
         /\ \A C : None(inbox[q], C) => None(inbox'[q], C)
<1>1. inbox[q] \in Seq(Asking) /\ inbox[q] # <<>> /\ inbox'[q] = Tail(inbox[q])
  BY DEF Stays, TypeInv, MailType
<1>2. Head(inbox[q]) \in Asking
  BY <1>1
<1>3. Head(inbox[q]).cmd \in Awake
  BY <1>2 DEF Stays, Awake, Asking, Message
<1>4. \A C : None(inbox[q], C) => Head(inbox[q]).cmd \notin C /\ None(inbox'[q], C)
  BY <1>1, TailAt DEF None
<1> QED  BY <1>1, <1>2, <1>3, <1>4

(* How a command on one key is answered, and what becomes of the keys.     *)
LEMMA DataServed ==
  ASSUME TypeInv, NEW q \in Pids, ServeData(q), NEW m, m = Head(inbox[q]),
         m.cmd \in {"OBTAIN_MIN", "OBTAIN_NEXT", "ADD", "DISPOSE"},
         m.cmd # "ADD" => m.coll \in DOMAIN store[q]
  PROVE  /\ \E a : /\ box' = [box EXCEPT !["answer"] = Append(@, a)] /\ a.coll = m.coll
                   /\ a.status = "OK" =>
                        IF m.cmd \in {"OBTAIN_MIN", "OBTAIN_NEXT"} THEN a.key \in store[q][m.coll]
                                                                  ELSE a.key = m.key
         /\ DOMAIN store'[q] = DOMAIN store[q]
         /\ m.cmd \in {"OBTAIN_MIN", "OBTAIN_NEXT"} => store'[q] = store[q]
         /\ m.cmd = "DISPOSE" =>
              /\ m.key \in store[q][m.coll] =>
                   store'[q][m.coll] = store[q][m.coll] \ {m.key}
              /\ \A c \in DOMAIN store[q] : c # m.coll => store'[q][c] = store[q][c]
<1>1. /\ store = [p \in Pids |-> store[p]] /\ store[q] \in [DOMAIN store[q] -> SUBSET Keys]
      /\ m \in Asking
  <2>1. Serves(q, Commands)
    BY DEF ServeData, Serves, Commands, DataChanges
  <2> QED  BY <2>1, ServesType DEF TypeInv, ServersType, IsMap
<1>2. \A status \in Statuses :
        /\ [m EXCEPT !.status = status].coll = m.coll
        /\ [m EXCEPT !.status = status].status = status
  BY <1>1, StatusType
<1>3. {"INVALID_PATH", "KEY", "OK"} \subseteq Statuses
  BY DEF Statuses
<1>4. CASE m.coll \notin DOMAIN store[q]
  <2>1. /\ box' = [box EXCEPT !["answer"] = Append(@, [m EXCEPT !.status = "INVALID_PATH"])]
        /\ store' = store /\ m.cmd = "ADD"
    BY <1>4 DEF ServeData, Answer
  <2> QED  BY <1>2, <1>3, <2>1
<1>5. CASE m.coll \in DOMAIN store[q] /\ ~Succeeds(m, store[q][m.coll])
  <2>1. /\ box' = [box EXCEPT !["answer"] = Append(@, [m EXCEPT !.status = "KEY"])]
        /\ store' = store
    BY <1>5 DEF ServeData, Answer
  <2>2. m.cmd = "DISPOSE" => m.key \notin store[q][m.coll]
    BY <1>5 DEF Succeeds
  <2> QED  BY <1>2, <1>3, <2>1, <2>2
<1>6. CASE m.coll \in DOMAIN store[q] /\ Succeeds(m, store[q][m.coll])
  <2> DEFINE S == store[q][m.coll]
             a == [m EXCEPT !.status = "OK", !.key = Named(m, S)]
  <2>1. /\ box' = [box EXCEPT !["answer"] = Append(@, a)]
        /\ store' = [store EXCEPT ![q][m.coll] = Effect(m, S)]
    BY <1>6 DEF ServeData, Answer
  <2>2. a.coll = m.coll /\ a.key = Named(m, S)
    BY <1>1 DEF Asking, Message
  <2>3. S \in SUBSET Keys /\ Keys \subseteq Nat
    BY <1>1, <1>6, FiniteData
  <2>4. /\ m.cmd = "OBTAIN_MIN" => Named(m, S) \in S
        /\ m.cmd = "OBTAIN_NEXT" => Named(m, S) \in S
        /\ m.cmd \in {"ADD", "DISPOSE"} => Named(m, S) = m.key
    <3>1. CASE m.cmd = "OBTAIN_MIN"
      BY <1>6, <2>3, <3>1, LeastMember DEF Succeeds, Named
    <3>2. CASE m.cmd = "OBTAIN_NEXT"
      <4> DEFINE above == {k \in S : k > m.key}
      <4>1. above \in SUBSET Nat /\ above \subseteq S /\ (above # {} => Least(above) \in above)
        BY <2>3, LeastMember
      <4>2. m.key \in S
        BY <1>6, <3>2 DEF Succeeds
      <4>3. Named(m, S) = IF above # {} THEN Least(above) ELSE m.key
        BY <3>2 DEF Named
      <4> HIDE DEF above, S
      <4> QED  BY <3>2, <4>1, <4>2, <4>3
    <3>3. CASE m.cmd \in {"ADD", "DISPOSE"}
      BY <3>3 DEF Named
    <3> QED  BY <3>1, <3>2, <3>3
  <2>5. /\ m.cmd \in {"OBTAIN_MIN", "OBTAIN_NEXT"} => Effect(m, S) = S
        /\ m.cmd = "DISPOSE" => Effect(m, S) = S \ {m.key}
    BY DEF Effect
  <2> DEFINE E == Effect(m, S)
  <2>6. /\ DOMAIN store'[q] = DOMAIN store[q] /\ store'[q][m.coll] = E
        /\ \A c \in DOMAIN store[q] : c # m.coll => store'[q][c] = store[q][c]
        /\ E = S => store'[q] = store[q]
    <3> HIDE DEF E
    <3>1. store'[q] = [store[q] EXCEPT ![m.coll] = E]
      BY <1>1, <2>1 DEF E
    <3> DEFINE f == store[q]
               g == store'[q]
               c0 == m.coll
    <3>2. g = [f EXCEPT ![c0] = E] /\ f \in [DOMAIN f -> SUBSET Keys] /\ c0 \in DOMAIN f /\ S = f[c0]
      BY <1>1, <1>6, <3>1 DEF S
    <3> HIDE DEF f, g, c0, S
    <3>3. /\ DOMAIN g = DOMAIN f /\ g[c0] = E /\ \A c \in DOMAIN f : c # c0 => g[c] = f[c]
          /\ E = S => g = f
      BY <3>2
    <3> QED  BY <3>3 DEF f, g, c0
  <2>7. a.status = "OK" =>
          IF m.cmd \in {"OBTAIN_MIN", "OBTAIN_NEXT"} THEN a.key \in S ELSE a.key = m.key
    <3> HIDE DEF a, S
    <3> QED  BY <2>2, <2>4
  <2>8. /\ m.cmd \in {"OBTAIN_MIN", "OBTAIN_NEXT"} => store'[q] = store[q]
        /\ m.cmd = "DISPOSE" => store'[q][m.coll] = S \ {m.key}
    <3> HIDE DEF S
    <3> QED  BY <2>5, <2>6 DEF E
  <2>9. \E b : /\ box' = [box EXCEPT !["answer"] = Append(@, b)] /\ b.coll = m.coll
               /\ b.status = "OK" =>
                    IF m.cmd \in {"OBTAIN_MIN", "OBTAIN_NEXT"} THEN b.key \in S ELSE b.key = m.key
    <3> HIDE DEF a, S
    <3> QED  BY <2>1, <2>2, <2>7
  <2> HIDE DEF E
  <2> QED  BY <2>6, <2>8, <2>9
<1> QED  BY <1>4, <1>5, <1>6

-----------------------------------------------------------------------------
(* The count that comes last, when a message is taken and when one is put. *)
LEMMA CountLastLists ==
  ASSUME NEW s \in Seq(Asking)
  PROVE  /\ \A m : m.cmd = "GET_RECORDS_CNT" => CountLast(Append(s, m))
         /\ \A m : m.cmd \notin Told /\ CountLast(s) => CountLast(Append(s, m))
         /\ s # <<>> /\ CountLast(s) => CountLast(Tail(s))
         /\ s # <<>> /\ CountLast(s) /\ Head(s).cmd = "GET_RECORDS_CNT"
              /\ None(Tail(s), {"GET_RECORDS_CNT"}) => None(Tail(s), Told)
<1>0. "GET_RECORDS_CNT" \notin Told /\ Len(s) \in Nat /\ DOMAIN s = 1 .. Len(s)
  BY DEF Told
<1>1. ASSUME NEW m, m.cmd = "GET_RECORDS_CNT"  PROVE CountLast(Append(s, m))
  <2>1. ASSUME NEW k \in DOMAIN Append(s, m), Append(s, m)[k].cmd \in Told
        PROVE  k < Len(s) + 1
    <3>1. k \in DOMAIN s
      BY <1>0, <1>1, <2>1, AppendAt
    <3> QED  BY <1>0, <3>1
  <2> QED  BY <1>1, <2>1, AppendAt DEF CountLast
<1>2. ASSUME NEW m, m.cmd \notin Told, CountLast(s)  PROVE CountLast(Append(s, m))
  <2>1. ASSUME NEW k \in DOMAIN Append(s, m), Append(s, m)[k].cmd \in Told
        PROVE  \E l \in DOMAIN Append(s, m) : k < l /\ Append(s, m)[l].cmd = "GET_RECORDS_CNT"
    <3>1. k \in DOMAIN s /\ s[k].cmd \in Told
      BY <1>2, <2>1, AppendAt
    <3>2. PICK l \in DOMAIN s : k < l /\ s[l].cmd = "GET_RECORDS_CNT"
      BY <1>2, <3>1 DEF CountLast
    <3>3. l \in DOMAIN Append(s, m) /\ Append(s, m)[l] = s[l]
      BY AppendAt
    <3> QED  BY <3>2, <3>3
  <2> QED  BY <2>1 DEF CountLast
<1>3. ASSUME s # <<>>, CountLast(s), NEW k \in DOMAIN Tail(s), Tail(s)[k].cmd \in Told
      PROVE  \E l \in DOMAIN Tail(s) : k < l /\ Tail(s)[l].cmd = "GET_RECORDS_CNT"
  <2>1. k + 1 \in DOMAIN s /\ s[k + 1] = Tail(s)[k] /\ k \in Nat \ {0}
    BY <1>3, TailAt
  <2>2. PICK l \in DOMAIN s : k + 1 < l /\ s[l].cmd = "GET_RECORDS_CNT"
    BY <1>3, <2>1 DEF CountLast
  <2>3. l \in Nat /\ l # 1 /\ k < l - 1
    BY <1>0, <2>1, <2>2
  <2>4. l - 1 \in DOMAIN Tail(s) /\ Tail(s)[l - 1] = s[l]
    BY <1>3, <2>3, TailAt
  <2> QED  BY <2>2, <2>3, <2>4
<1>4. s # <<>> /\ CountLast(s) => CountLast(Tail(s))
  BY <1>3 DEF CountLast
<1>5. s # <<>> /\ CountLast(s) /\ Head(s).cmd = "GET_RECORDS_CNT"
        /\ None(Tail(s), {"GET_RECORDS_CNT"}) => None(Tail(s), Told)
  BY <1>3 DEF None
<1> QED  BY <1>1, <1>2, <1>4, <1>5

(* The commands that move keys are served by ServeData, if there is memory. *)
LEMMA MovesAreData ==
  ASSUME TypeInv, NEW q \in Pids, Server(q), proc' = proc, faults' = 0,
         proc \in [Pids -> {"unborn", "up", "gone"}],
         Head(inbox[q]).cmd \in {"OBTAIN_MIN", "OBTAIN_NEXT", "ADD", "DISPOSE"}
  PROVE  ServeData(q)
<1>1. ~Dies(q)
  <2>1. proc[q] = "up"
    BY DEF Server, ServeSetup, ServeAddStruct, ServeDisposeStruct, ServeCount, ServeData, NoMemory, ServeRange,
           ServeEnd, LoseQueue, Serves
  <2> QED  BY <2>1 DEF Dies
<1>2. ~NoMemory(q)
  BY NoMemoryUnsound
<1> QED  BY <1>1, <1>2 DEF Server, ServeSetup, ServeAddStruct, ServeDisposeStruct, ServeCount, ServeRange,
                     ServeEnd, LoseQueue, Serves, AddStruct, DropStruct

(* The one message about of a transfer is served.                          *)
LEMMA MoveServed ==
  ASSUME TypeInv, PidInv, BroadcastInv, CountInv, EndPlaces, LeftInv, MoveInv,
         NEW q \in Pids, Server(q)
  PROVE  MoveInv'
<1>1. SUFFICES ASSUME Still', Ending', proc'[Ender'] = "up", mgr'.wait \in TransferWaits
               PROVE  /\ \A p \in Pids : p # Mover' => None(inbox'[p], Awake)
                      /\ MoveLost' \/ MoveAsked' \/ MoveAnswered'
  BY DEF MoveInv
<1>2. ServerStep(q)
  BY ServerSteps
<1>3. /\ Still /\ mgr' = mgr /\ servers' = servers /\ Ending /\ Ender' = Ender /\ Heir' = Heir
      /\ Mover' = Mover /\ MoveCommand' = MoveCommand /\ mgr.wait \in TransferWaits
  BY <1>1, <1>2 DEF ServerStep, Still, Ending, Ender, Heir, Mover, MoveCommand
<1>4. /\ Ender \in Pids /\ Heir \in Pids /\ Mover \in Pids /\ Ender # Heir
  <2>1. Ender \in Pids /\ Heir \in Pids /\ 1 \in DOMAIN servers /\ 2 \in DOMAIN servers
    BY <1>3, MovingAlone
  <2>2. servers[1] # servers[2]
    BY <2>1 DEF PidInv
  <2> QED  BY <2>1, <2>2 DEF Mover, Ender, Heir
<1>5. proc[Ender] = "up"
  BY <1>1, <1>2, <1>3, <1>4 DEF ServerStep, Goes, Stays
<1>6. /\ \A p \in Pids : p # Mover => None(inbox[p], Awake)
      /\ MoveLost \/ MoveAsked \/ MoveAnswered
  BY <1>3, <1>5 DEF MoveInv
<1>7. ASSUME NEW p \in Pids, p # Mover  PROVE None(inbox'[p], Awake)
  <2>1. CASE p # q
    BY <1>2, <1>6, <1>7, <2>1 DEF ServerStep
  <2>2. CASE p = q
    BY <1>2, <1>6, <1>7, <2>2, AsleepGoes, NothingThere DEF ServerStep, Goes
  <2> QED  BY <2>1, <2>2
<1>8. CASE q # Mover
  <2>1. Goes(q)
    BY <1>2, <1>6, <1>8, AsleepGoes DEF ServerStep
  <2>2. q # Ender
    BY <1>1, <1>3, <2>1 DEF Goes
  <2>3. /\ box' = box /\ inbox'[Mover] = inbox[Mover] /\ proc'[Mover] = proc[Mover]
        /\ store'[Ender] = store[Ender]
    BY <1>2, <1>4, <1>8, <2>1, <2>2 DEF ServerStep, Goes
  <2>4. /\ MoveLost => MoveLost'
        /\ MoveAsked => MoveAsked'
        /\ MoveAnswered => MoveAnswered'
    BY <1>3, <2>3 DEF MoveLost, MoveAsked, MoveAnswered, Movable
  <2> QED  BY <1>3, <1>6, <1>7, <2>4
<1>9. CASE q = Mover /\ Goes(q)
  <2>1. q # Ender
    BY <1>1, <1>3, <1>9 DEF Goes
  <2>2. /\ box' = box /\ proc'[Mover] # "up" /\ None(inbox'[Mover], Awake)
        /\ store'[Ender] = store[Ender]
    BY <1>2, <1>4, <1>9, <2>1, NothingThere DEF ServerStep, Goes
  <2>3. MoveLost \/ MoveAsked => MoveLost'
    BY <1>3, <2>2 DEF MoveLost, MoveAsked
  <2>4. MoveAnswered => MoveAnswered'
    BY <1>3, <2>2 DEF MoveAnswered, Movable
  <2> QED  BY <1>3, <1>6, <1>7, <2>3, <2>4
<1>10. CASE q = Mover /\ Stays(q)
  <2>1. /\ Head(inbox[q]).cmd \in Awake /\ inbox[q] \in Seq(Asking) /\ inbox[q] # <<>>
        /\ ~None(inbox[q], Awake) /\ inbox'[q] = Tail(inbox[q]) /\ Head(inbox[q]) \in Asking
    BY <1>10, AsleepGoes
  <2>2. MoveAsked
    BY <1>6, <1>10, <2>1 DEF MoveLost, MoveAnswered
  <2>3. PICK m \in Asking : /\ One(inbox[q], Awake, m) /\ m.cmd = MoveCommand
                            /\ m.coll = Head(mgr.todo) /\ (mgr.wait # "obtain" => Movable(m))
    BY <1>10, <2>2 DEF MoveAsked
  <2>4. Head(inbox[q]) = m /\ None(inbox'[q], Awake)
    BY <2>1, <2>3, TailTakes
  <2>5. /\ m.cmd \in {"OBTAIN_MIN", "OBTAIN_NEXT", "ADD", "DISPOSE"}
        /\ m.cmd = "ADD" <=> mgr.wait = "add"
        /\ m.cmd = "DISPOSE" <=> mgr.wait = "dispose"
        /\ mgr.wait \in {"obtain", "next"} => m.cmd \in {"OBTAIN_MIN", "OBTAIN_NEXT"}
    BY <1>3, <2>3 DEF MoveCommand, TransferWaits
  <2>6. ServeData(q)
    <3>1. proc' = proc /\ proc \in [Pids -> {"unborn", "up", "gone"}]
      BY <1>10 DEF Stays, TypeInv, ServersType
    <3> QED  BY <1>1, <2>4, <2>5, <3>1, MovesAreData DEF Still
  <2>7. mgr.wait # "add" => q = Ender /\ m.coll \in DOMAIN store[q]
    <3>1. Untouched \/ Emptied
      BY <1>3, <1>5 DEF LeftInv
    <3>2. Head(mgr.todo) \in DOMAIN store[Ender]
      BY <1>3, <3>1 DEF Untouched, Emptied, TransferWaits
    <3> QED  BY <1>10, <2>3, <3>2 DEF Mover
  <2>8. PICK a : /\ box' = [box EXCEPT !["answer"] = Append(@, a)] /\ a.coll = m.coll
                 /\ a.status = "OK" =>
                      IF m.cmd \in {"OBTAIN_MIN", "OBTAIN_NEXT"} THEN a.key \in store[q][m.coll]
                                                                ELSE a.key = m.key
    BY <2>4, <2>5, <2>6, <2>7, DataServed
  <2>9. Len(box'["answer"]) = 1 /\ Head(box'["answer"]) = a
    <3>1. box \in [Boxes -> Seq(Asking)] /\ "answer" \in Boxes /\ box["answer"] = <<>>
      BY <2>2 DEF TypeInv, MailType, Boxes, MoveAsked
    <3>2. box'["answer"] = Append(<<>>, a)
      BY <2>8, <3>1
    <3> QED  BY <3>2
  <2>10. ASSUME mgr.wait # "dispose", a.status = "OK"  PROVE Movable(a)'
    <3>1. CASE mgr.wait = "add"
      <4>1. q = Heir /\ store'[Ender] = store[Ender]
        BY <1>2, <1>4, <1>10, <3>1 DEF ServerStep, Mover
      <4>2. a.key = m.key /\ Movable(m)
        BY <2>3, <2>5, <2>8, <2>10, <3>1
      <4> QED  BY <1>3, <2>8, <4>1, <4>2 DEF Movable
    <3>2. CASE mgr.wait \in {"obtain", "next"}
      <4>1. q = Ender /\ m.cmd \in {"OBTAIN_MIN", "OBTAIN_NEXT"}
        BY <2>5, <2>7, <3>2
      <4>2. store'[q] = store[q]
        BY <2>4, <2>5, <2>6, <2>7, <4>1, DataServed
      <4> QED  BY <1>3, <2>3, <2>8, <2>10, <4>1, <4>2 DEF Movable
    <3> QED  BY <1>3, <2>10, <3>1, <3>2 DEF TransferWaits
  <2>11. MoveAnswered'
    BY <1>3, <1>10, <2>4, <2>9, <2>10 DEF MoveAnswered
  <2> QED  BY <1>3, <1>7, <2>11
<1> QED  BY <1>2, <1>8, <1>9, <1>10 DEF ServerStep

-----------------------------------------------------------------------------
(* The keys of a path are a finite set.                                    *)
LEMMA PathFinite ==
  ASSUME TypeInv, NEW p \in Pids, NEW c \in DOMAIN store[p]
  PROVE  IsFiniteSet(store[p][c]) /\ Cardinality(store[p][c]) \in Nat
<1>1. store[p][c] \subseteq Keys
  BY DEF TypeInv, ServersType, IsMap
<1> QED  BY <1>1, FiniteData, FS_Subset, FS_CardinalityType

(* What the server that ends has is counted, and then nobody but the       *)
(* manager tells it anything.                                              *)
LEMMA EnderCounts ==
  ASSUME TypeInv, CountInv, EndPlaces, Still, Still', Ending, Sound, NEW q \in Pids, ServeCount(q),
         Stays(q)
  PROVE  /\ q = Ender /\ mgr.wait = "count" /\ box["count"] = <<>> /\ store' = store
         /\ None(inbox'[q], {"GET_RECORDS_CNT"}) /\ Head(inbox[q]).cmd = "GET_RECORDS_CNT"
         /\ Head(mgr.todo) \in DOMAIN store[q]
         /\ box'["count"] # <<>>
         /\ Cardinality(store[q][Head(mgr.todo)]) <= Head(box'["count"]).cnt
<1>1. Serves(q, {"GET_RECORDS_CNT"})
  BY DEF ServeCount
<1>2. /\ Counting(q) /\ Head(inbox[q]) = OwnMsg("GET_RECORDS_CNT", Head(mgr.todo))
      /\ None(Tail(inbox[q]), {"GET_RECORDS_CNT"})
  BY <1>1, CountAwaited
<1>3. mgr.wait = "count" /\ box["count"] = <<>> /\ q = Ender
  BY <1>2 DEF Counting, EndPlaces, Ender
<1>4. Head(mgr.todo) \in Collections \cup {NoOne}
  <2>1. mgr.todo \in Seq(Collections) /\ mgr.todo # <<>>
    BY <1>3 DEF TypeInv, MgrType, Places
  <2> QED  BY <2>1
<1>5. Head(inbox[q]).coll = Head(mgr.todo) /\ Head(inbox[q]) \in Asking
  BY <1>1, <1>2, <1>4, OwnMsgType, ServesType DEF TypeInv
<1>6. ~Dies(q)
  <2>1. proc[q] = "up" /\ proc' = proc /\ proc \in [Pids -> {"unborn", "up", "gone"}]
    BY <1>1 DEF Serves, Stays, TypeInv, ServersType
  <2> QED  BY <2>1 DEF Dies
<1> DEFINE size == Cardinality(store[q][Head(mgr.todo)])
           a(cnt) == [Head(inbox[q]) EXCEPT !.status = "OK", !.cnt = cnt]
<1>7. /\ Head(mgr.todo) \in DOMAIN store[q] /\ store' = store
      /\ \E cnt \in {size} \cup Uninitialised :
           /\ box' = [box EXCEPT !["count"] = Append(@, a(cnt))]
           /\ cnt < size => "short_count" \in past'
  BY <1>5, <1>6 DEF ServeCount, Answer, data, Ending
<1>8. PICK cnt \in {size} \cup Uninitialised :
        /\ box' = [box EXCEPT !["count"] = Append(@, a(cnt))]
        /\ ~(cnt < size)
  BY <1>7 DEF Still
<1>9. box'["count"] # <<>> /\ Head(box'["count"]) = a(cnt)
  <2> HIDE DEF a
  <2>1. box \in [Boxes -> Seq(Asking)] /\ "count" \in Boxes
    BY DEF TypeInv, MailType, Boxes
  <2>2. box'["count"] = Append(<<>>, a(cnt))
    BY <1>3, <1>8, <2>1
  <2> QED  BY <2>2
<1>10. None(inbox'[q], {"GET_RECORDS_CNT"})
  BY <1>2 DEF Stays
<1>11. a(cnt).cnt = cnt /\ size <= cnt
  <2>1. a(cnt).cnt = cnt
    BY <1>5 DEF Asking, Message
  <2>2. size \in Nat /\ cnt \in Nat
    BY <1>7, <1>8, PathFinite, ClusterAssumption
  <2> QED  BY <1>8, <2>1, <2>2
<1> HIDE DEF a, size
<1> QED  BY <1>1, <1>3, <1>7, <1>9, <1>10, <1>11 DEF size, Serves

(* A step of a server leaves what the one that ends has accounted for.     *)
LEMMA LeftServed ==
  ASSUME TypeInv, PidInv, BroadcastInv, CountInv, EndPlaces, LeftInv, MoveInv,
         NEW q \in Pids, Server(q)
  PROVE  LeftInv'
<1>1. SUFFICES ASSUME Still', Ending', proc'[Ender'] = "up"
               PROVE  Untouched' \/ Emptied'
  BY DEF LeftInv
<1>2. ServerStep(q)
  BY ServerSteps
<1>3. /\ Still /\ mgr' = mgr /\ servers' = servers /\ Ending /\ Ender' = Ender
  BY <1>1, <1>2 DEF ServerStep, Still, Ending, Ender
<1>4. /\ Ender \in Pids /\ Sound /\ mgr.wait \in Moving /\ \A p \in Pids : None(inbox[p], Structural)
      /\ \A p \in Pids : ~Counting(p) => None(inbox[p], {"GET_RECORDS_CNT"})
      /\ mgr.wait # "count" => box["count"] = <<>>
  BY <1>3, MovingAlone
<1>5. proc[Ender] = "up"
  BY <1>1, <1>2, <1>3, <1>4 DEF ServerStep, Goes, Stays
<1>6. Untouched \/ Emptied
  BY <1>3, <1>5 DEF LeftInv
<1>7. CASE q # Ender
  <2>1. inbox'[Ender] = inbox[Ender] /\ store'[Ender] = store[Ender]
    BY <1>2, <1>4, <1>7 DEF ServerStep
  <2>2. box'["count"] = box["count"]
    BY <1>1, <1>2, <1>3, <1>4, <1>7, EnderCounts DEF ServerStep, Goes, Stays
  <2>3. mgr.wait = "dispose" => box' = box
    <3>1. SUFFICES ASSUME mgr.wait = "dispose"  PROVE box' = box
      OBVIOUS
    <3>2. None(inbox[q], Awake)
      BY <1>3, <1>5, <1>7, <3>1 DEF MoveInv, Mover, TransferWaits
    <3> QED  BY <1>2, <3>2, AsleepGoes DEF ServerStep, Goes
  <2>4. Remaining' = Remaining
    BY <1>3, <2>3 DEF Remaining
  <2> QED  BY <1>3, <1>6, <2>1, <2>2, <2>4 DEF Untouched, Emptied
<1>8. CASE q = Ender
  <2>1. Stays(q) /\ proc' = proc
    BY <1>1, <1>2, <1>3, <1>8 DEF ServerStep, Goes, Stays
  <2>2. /\ Head(inbox[q]).cmd \in Awake /\ inbox[q] \in Seq(Asking) /\ inbox[q] # <<>>
        /\ inbox'[q] = Tail(inbox[q]) /\ Head(inbox[q]) \in Asking
        /\ \A C : None(inbox[q], C) => Head(inbox[q]).cmd \notin C /\ None(inbox'[q], C)
    BY <2>1, AsleepGoes
  <2>3. CASE ServeCount(q)
    <3>1. /\ mgr.wait = "count" /\ box["count"] = <<>> /\ store' = store
          /\ None(inbox'[q], {"GET_RECORDS_CNT"}) /\ Head(inbox[q]).cmd = "GET_RECORDS_CNT"
          /\ Head(mgr.todo) \in DOMAIN store[q] /\ box'["count"] # <<>>
          /\ Cardinality(store[q][Head(mgr.todo)]) <= Head(box'["count"]).cnt
      BY <1>1, <1>3, <1>4, <2>1, <2>3, EnderCounts
    <3>2. None(inbox'[q], Told)
      <4>1. CASE Untouched
        BY <1>8, <2>2, <3>1, <4>1, CountLastLists DEF Untouched
      <4>2. CASE Emptied
        BY <1>8, <2>2, <3>1, <4>2 DEF Emptied, TransferWaits
      <4> QED  BY <1>6, <4>1, <4>2
    <3>3. \A c \in DOMAIN store[q] : c \in ToSet(mgr.todo) \/ store[q][c] = {}
      BY <1>6, <1>8 DEF Untouched, Emptied
    <3>4. Emptied'
      BY <1>3, <1>8, <3>1, <3>2, <3>3 DEF Emptied, TransferWaits
    <3> QED  BY <3>4
  <2>4. CASE ~ServeCount(q)
    <3>1. Head(inbox[q]).cmd # "GET_RECORDS_CNT"
      BY <2>1, <2>4 DEF Server, ServeSetup, ServeAddStruct, ServeDisposeStruct, ServeData, NoMemory, ServeRange,
             ServeEnd, LoseQueue, Serves, Stays, AddStruct, DropStruct, DataChanges, Dies,
             TypeInv, ServersType
    <3>2. box'["count"] = box["count"] /\ DOMAIN store'[q] = DOMAIN store[q]
      BY <1>4, <2>1, <2>2, <2>4, <3>1 DEF Stays
    <3>3. CASE Untouched
      BY <1>3, <1>8, <2>2, <3>2, <3>3, CountLastLists DEF Untouched
    <3>4. CASE Emptied
      <4>1. Head(inbox[q]).cmd \in Told
        BY <2>2, <3>1 DEF Awake, Told
      <4>2. mgr.wait \in TransferWaits
        BY <1>8, <2>2, <3>4, <4>1 DEF Emptied
      <4>3. mgr.wait # "add" /\ MoveAsked
        <5>1. ~None(inbox[q], Awake)
          BY <2>2
        <5>2. /\ \A p \in Pids : p # Mover => None(inbox[p], Awake)
              /\ MoveLost \/ MoveAsked \/ MoveAnswered
          BY <1>3, <1>5, <4>2 DEF MoveInv
        <5>3. Ender # Heir
          BY <1>3, MovingAlone DEF PidInv, Ender, Heir
        <5>4. Mover = q /\ mgr.wait # "add"
          BY <1>8, <5>1, <5>2, <5>3 DEF Mover
        <5> QED  BY <5>1, <5>2, <5>4 DEF MoveLost, MoveAnswered
      <4>4. PICK m \in Asking : /\ One(inbox[q], Awake, m) /\ m.cmd = MoveCommand
                                /\ m.coll = Head(mgr.todo) /\ (mgr.wait # "obtain" => Movable(m))
        BY <1>8, <4>3 DEF MoveAsked, Mover
      <4>5. Head(inbox[q]) = m /\ m.coll \in DOMAIN store[q] /\ Cardinality(store[q][m.coll]) <= Remaining
        BY <1>8, <2>2, <3>4, <4>2, <4>4, TailTakes DEF Emptied
      <4>6. /\ m.cmd \in {"OBTAIN_MIN", "OBTAIN_NEXT", "DISPOSE"}
            /\ m.cmd = "DISPOSE" <=> mgr.wait = "dispose"
        BY <4>2, <4>3, <4>4 DEF MoveCommand, TransferWaits
      <4>7. ServeData(q)
        <5>1. proc' = proc /\ proc \in [Pids -> {"unborn", "up", "gone"}]
          BY <2>1 DEF TypeInv, ServersType
        <5> QED  BY <1>1, <4>5, <4>6, <5>1, MovesAreData DEF Still
      <4>8. CASE m.cmd # "DISPOSE"
        <5>1. store'[q] = store[q]
          BY <4>5, <4>6, <4>7, <4>8, DataServed
        <5>2. Remaining' = Remaining
          BY <1>3, <4>6, <4>8 DEF Remaining
        <5> QED  BY <1>3, <1>8, <3>2, <3>4, <4>2, <5>1, <5>2 DEF Emptied, TransferWaits
      <4>9. CASE m.cmd = "DISPOSE"
        <5> DEFINE S == store[q][m.coll]
        <5>1. m.key \in S
          BY <1>8, <4>4, <4>6, <4>9 DEF Movable
        <5>2. /\ DOMAIN store'[q] = DOMAIN store[q] /\ store'[q][m.coll] = S \ {m.key}
              /\ \A c \in DOMAIN store[q] : c # m.coll => store'[q][c] = store[q][c]
          <6>1. /\ m.cmd \in {"OBTAIN_MIN", "OBTAIN_NEXT", "ADD", "DISPOSE"}
                /\ m.coll \in DOMAIN store[q] /\ m = Head(inbox[q])
            BY <4>5, <4>9
          <6>2. /\ DOMAIN store'[q] = DOMAIN store[q]
                /\ m.cmd = "DISPOSE" =>
                     /\ m.key \in store[q][m.coll] =>
                          store'[q][m.coll] = store[q][m.coll] \ {m.key}
                     /\ \A c \in DOMAIN store[q] : c # m.coll => store'[q][c] = store[q][c]
            BY <4>7, <6>1, DataServed
          <6> QED  BY <4>9, <5>1, <6>2
        <5>3. Remaining = mgr.n
          BY <4>3 DEF Remaining, MoveAsked
        <5>4. box'["answer"] # <<>>
          <6>1. \E a : box' = [box EXCEPT !["answer"] = Append(@, a)]
            BY <4>5, <4>7, <4>9, DataServed
          <6>2. box \in [Boxes -> Seq(Asking)] /\ "answer" \in Boxes /\ box["answer"] = <<>>
            BY <4>3 DEF TypeInv, MailType, Boxes, MoveAsked
          <6> QED  BY <6>1, <6>2
        <5>5. Remaining' = mgr.n - 1
          BY <1>3, <4>6, <4>9, <5>4 DEF Remaining
        <5>6. Cardinality(S \ {m.key}) <= mgr.n - 1
          <6>1. IsFiniteSet(S) /\ Cardinality(S) \in Nat /\ Cardinality(S) <= mgr.n /\ mgr.n \in Int
            BY <4>2, <4>5, <5>3, PathFinite DEF TypeInv, MgrType, Places, TransferWaits
          <6> HIDE DEF S
          <6>2. Cardinality(S \ {m.key}) = Cardinality(S) - 1
            BY <5>1, <6>1, FS_RemoveElement
          <6> QED  BY <6>1, <6>2
        <5>7. m.coll \in ToSet(mgr.todo)
          <6>1. mgr.todo \in Seq(Collections) /\ mgr.todo # <<>>
            BY <4>2 DEF TypeInv, MgrType, Places, TransferWaits
          <6>2. Head(mgr.todo) \in ToSet(mgr.todo)
            BY <6>1 DEF ToSet
          <6> QED  BY <4>4, <6>2
        <5>8. \A c \in DOMAIN store'[q] : c \in ToSet(mgr.todo) \/ store'[q][c] = {}
          BY <1>8, <3>4, <5>2, <5>7 DEF Emptied
        <5> QED  BY <1>3, <1>8, <3>2, <3>4, <4>2, <4>4, <4>5, <5>2, <5>5, <5>6, <5>8
                 DEF Emptied, TransferWaits
      <4> QED  BY <4>8, <4>9
    <3> QED  BY <1>6, <3>3, <3>4
  <2> QED  BY <2>3, <2>4
<1> QED  BY <1>7, <1>8

-----------------------------------------------------------------------------
(* A server sends back to a broadcast what it was told.                    *)
LEMMA BackServed ==
  ASSUME TypeInv, BackInv, NEW q \in Pids, Server(q)
  PROVE  BackInv'
<1>1. UNCHANGED <<servers, mgr>>
  BY ServerSteps DEF ServerStep
<1>2. box \in [Boxes -> Seq(Asking)] /\ "added" \in Boxes /\ "disposed" \in Boxes
  BY DEF TypeInv, MailType, Boxes
<1>3. CASE ServeAddStruct(q) \/ ServeDisposeStruct(q)
  <2> DEFINE m == Head(inbox[q])
  <2>1. PICK b \in {"added", "disposed"} : ServesStruct(q, m, b)
    BY <1>3, AddShape, DropShape
  <2> HIDE DEF m
  <2>2. PICK a : box' = [box EXCEPT ![b] = Append(@, a)] /\ a.cmd \in Structural
    BY <2>1 DEF ServesStruct, AnswersStruct, Structural
  <2>3. ASSUME NEW d \in {"added", "disposed"}, NEW k \in DOMAIN box'[d]
        PROVE  box'[d][k].cmd \in Structural
    <3>1. box'[d] = IF d = b THEN Append(box[d], a) ELSE box[d]
      BY <1>2, <2>2
    <3>2. box[d] \in Seq(Asking) /\ \A l \in DOMAIN box[d] : box[d][l].cmd \in Structural
      BY <1>2 DEF BackInv
    <3> QED  BY <2>2, <2>3, <3>1, <3>2, AppendAt
  <2> QED  BY <1>1, <2>3 DEF BackInv
<1>4. CASE ~(ServeAddStruct(q) \/ ServeDisposeStruct(q))
  <2>1. ServesAside(q)
    BY <1>4, ServerAside DEF Server
  <2> QED  BY <1>1, <2>1 DEF ServesAside, BackInv
<1> QED  BY <1>3, <1>4

(* A step of a server keeps the invariant.                                 *)
LEMMA EndServed ==
  ASSUME TypeInv, PidInv, BroadcastInv, CountInv, EndInv, NEW q \in Pids, Server(q)
  PROVE  EndInv'
<1>1. mgr' = mgr
  BY ServerSteps DEF ServerStep
<1>2. EndPlaces'
  BY <1>1 DEF EndInv, EndPlaces, Ending
<1> QED  BY <1>2, LeftServed, MoveServed, GoneServed, BackServed DEF EndInv

-----------------------------------------------------------------------------
(* The manager tells only servers it knows anything.                       *)
ToServers ==
  \A p \in Pids : inbox'[p] = inbox[p] \/ \E j \in DOMAIN servers : servers[j] = p

(* What is put is put to a server in strg_servers.                         *)
LEMMA PostTo ==
  ASSUME MailType, NEW i \in DOMAIN servers, NEW m, inbox' = Post(inbox, servers[i], m)
  PROVE  ToServers
<1>1. inbox \in [Pids -> Seq(Asking)]
  BY DEF MailType
<1> QED  BY <1>1 DEF ToServers, Post

(* So a server that is told to end is told nothing more.                   *)
LEMMA GoneKept ==
  ASSUME GoneInv, Still' => Still, UNCHANGED <<proc, store, servers>>, ToServers,
         \A p \in Pids : Kept(inbox[p], inbox'[p], {"TERMINATE"})
  PROVE  GoneInv'
<1>1. SUFFICES ASSUME Still', NEW p \in Pids, proc'[p] = "up", ~None(inbox'[p], {"TERMINATE"})
               PROVE  Bequeathed(p)'
  BY DEF GoneInv
<1>2. Bequeathed(p)
  BY <1>1 DEF GoneInv, Kept
<1>3. inbox'[p] = inbox[p]
  BY <1>2 DEF ToServers, Bequeathed
<1> QED  BY <1>2, <1>3 DEF Bequeathed

(* What the manager does besides tells nobody to end.                      *)
LEMMA GoneAside ==
  ASSUME TypeInv, GoneInv, BackInv, Aside, ToServers
  PROVE  GoneInv' /\ BackInv' /\ (Still' => Still)
<1>1. (Plain \cup {"GET_RECORDS_CNT"}) \cap {"TERMINATE"} = {}
  BY DEF Plain, DataChanges
<1>2. \A p \in Pids : Kept(inbox[p], inbox'[p], {"TERMINATE"})
  BY <1>1, SendsKeeps DEF Aside, TypeInv
<1>3. (Still' => Still) /\ UNCHANGED <<proc, store, servers>>
  BY DEF Aside, Still
<1>4. BackInv'
  BY DEF Aside, Turns, BackInv
<1> QED  BY <1>2, <1>3, <1>4, GoneKept

(* After a step that ends no server there is nothing to say of one.        *)
OffDuty == mgr'.job # "terminate" /\ (mgr'.job # "none" => mgr'.wait \in Moving)

(* When no server ends afterwards, there is nothing to say of one.         *)
LEMMA EndOffDuty ==
  ASSUME OffDuty
  PROVE  EndPlaces' /\ LeftInv' /\ MoveInv'
BY DEF OffDuty, EndPlaces, LeftInv, MoveInv, Ending

(* A loop body ends without a server that ends.                            *)
LEMMA BodyOffDuty ==
  ASSUME KnownType, NEW changed, NEW n, EndBody(changed, n)
  PROVE  OffDuty
<1>1. mgr' = Over("redistribute", Paths) \/ mgr' = At("main") \/ mgr' = At("ended")
  BY DEF EndBody
<1>2. Paths \in Seq(Collections)
  BY PathsType
<1>3. Over("redistribute", Paths).job = "redistribute" /\ Over("redistribute", Paths).wait = "path"
  BY <1>2, OverType
<1>4. At("main").job = "none" /\ At("ended").job = "none"
  BY AtType DEF Waits
<1> QED  BY <1>1, <1>3, <1>4 DEF OffDuty, Moving

(* So does the next message of a broadcast.                                *)
LEMMA SentOffDuty ==
  ASSUME NEW i, NEW m, NEW wait \in Elsewise, SendStruct(i, m, wait)
  PROVE  OffDuty
<1>1. mgr' = [At(wait) EXCEPT !.i = i, !.msg = m]
  BY DEF SendStruct
<1> QED  BY <1>1 DEF At, OffDuty

(* -1 from a transfer or a count ends no server.                           *)
LEMMA GiveUpOffDuty ==
  ASSUME TypeInv, mgr.wait \in {"count"} \cup TransferWaits, GiveUp
  PROVE  OffDuty
<1>1. CASE mgr.job = "terminate"
  BY <1>1, BodyOffDuty DEF GiveUp, Return, TypeInv
<1>2. CASE mgr.job # "terminate"
  <2>1. mgr.todo \in Seq(Collections) /\ mgr.todo # <<>>
    BY DEF TypeInv, MgrType, Places
  <2>2. Tail(mgr.todo) \in Seq(Collections) /\ mgr' = Over("redistribute", Tail(mgr.todo))
    BY <1>2, <2>1 DEF GiveUp
  <2>3. mgr'.job = "redistribute" /\ mgr'.wait = "path"
    BY <2>2, OverType
  <2> QED  BY <2>3 DEF OffDuty, Moving
<1> QED  BY <1>1, <1>2

-----------------------------------------------------------------------------
(* The main loop and the broadcasts end no server.                         *)
LEMMA EndReturns ==
  ASSUME TypeInv, EndInv, Still' => Still, UNCHANGED <<proc, store, servers, inbox>>,
         \A b \in {"added", "disposed"} : \A k \in DOMAIN box'[b] : box'[b][k].cmd \in Structural,
         OffDuty, mgr'.wait \notin Elsewise
  PROVE  EndInv'
<1>1. GoneInv'
  BY GoneKept, SameKeeps DEF EndInv, ToServers
<1>2. BackInv'
  BY DEF BackInv
<1> QED  BY <1>1, <1>2, EndOffDuty DEF EndInv

(* The next message of a broadcast is put.                                 *)
LEMMA EndSends ==
  ASSUME TypeInv, EndInv, Still' => Still, UNCHANGED <<proc, store, servers>>,
         \A b \in {"added", "disposed"} : \A k \in DOMAIN box'[b] : box'[b][k].cmd \in Structural,
         NEW i \in DOMAIN servers, NEW m, m.cmd \in Structural, NEW wait \in Elsewise,
         SendStruct(i, m, wait)
  PROVE  EndInv'
<1>1. inbox' = Post(inbox, servers[i], m) /\ mgr'.wait = wait /\ mgr'.i = i /\ mgr'.msg = m
  BY StructSent
<1>2. ToServers
  BY <1>1, PostTo DEF TypeInv
<1>3. \A p \in Pids : Kept(inbox[p], inbox'[p], {"TERMINATE"})
  <2>1. Sends(Structural)
    BY <1>1, PostSends DEF TypeInv
  <2>2. Structural \cap {"TERMINATE"} = {}
    BY DEF Structural, AddStruct, DropStruct
  <2> QED  BY <2>1, <2>2, SendsKeeps DEF TypeInv
<1>4. GoneInv'
  BY <1>2, <1>3, GoneKept DEF EndInv
<1>5. BackInv'
  BY <1>1 DEF BackInv
<1> QED  BY <1>4, <1>5, SentOffDuty, EndOffDuty DEF EndInv

(* An answer or a request is forwarded.                                    *)
LEMMA EndForward ==
  ASSUME TypeInv, EndInv, ForwardAnswer \/ ForwardRequest
  PROVE  EndInv'
<1>1. Aside
  BY AsideForward
<1>2. inbox \in [Pids -> Seq(Asking)]
  BY DEF TypeInv, MailType
<1>3. ToServers
  BY <1>2 DEF ForwardAnswer, ForwardRequest, ToServers
<1>4. OffDuty
  <2>1. CASE \E changed, n : EndBody(changed, n)
    BY <2>1, BodyOffDuty DEF TypeInv
  <2>2. CASE mgr' = At("dead")
    <3>1. At("dead").job = "none"
      BY AtType DEF Waits
    <3> QED  BY <2>2, <3>1 DEF OffDuty
  <2> QED  BY <2>1, <2>2 DEF ForwardAnswer, ForwardRequest, Aborts
<1> QED  BY <1>1, <1>3, <1>4, GoneAside, EndOffDuty DEF EndInv

(* A structure command is read: its broadcast begins.                      *)
LEMMA EndStruct ==
  ASSUME TypeInv, EndInv, HandleStruct
  PROVE  EndInv'
<1>1. /\ UNCHANGED <<proc, store, servers, box, faults>> /\ past \subseteq past'
      /\ Asked(AddStruct \cup DropStruct)
  BY DEF HandleStruct, Outside, data
<1>2. /\ Still' => Still
      /\ \A b \in {"added", "disposed"} : \A k \in DOMAIN box'[b] : box'[b][k].cmd \in Structural
  BY <1>1 DEF Still, EndInv, BackInv
<1>3. CASE servers = <<>>
  <2>1. inbox' = inbox /\ mgr'.wait \notin Elsewise
    BY <1>3, AsideStruct DEF Aside, Turns
  <2>2. OffDuty
    BY <1>3, BodyOffDuty DEF HandleStruct, Return, TypeInv
  <2> QED  BY <1>1, <1>2, <2>1, <2>2, EndReturns
<1>4. CASE servers # <<>>
  <2>1. PICK wait \in Elsewise : SendStruct(1, Head(requests), wait)
    BY <1>4 DEF HandleStruct, Elsewise
  <2>2. Head(requests).cmd \in Structural
    BY <1>1 DEF Asked, Structural
  <2>3. 1 \in DOMAIN servers
    BY <1>4 DEF TypeInv, KnownType
  <2> QED  BY <1>1, <1>2, <2>1, <2>2, <2>3, EndSends
<1> QED  BY <1>3, <1>4

(* What comes back is of the same kind.                                    *)
LEMMA BackReceived ==
  ASSUME TypeInv, BackInv, mgr.wait \in Elsewise, NEW b \in {"added", "disposed"}, NEW m,
         Received(b, m), UNCHANGED past
  PROVE  /\ m \in Asking /\ m.cmd \in Structural /\ (Still' => Still)
         /\ \A d \in {"added", "disposed"} : \A k \in DOMAIN box'[d] : box'[d][k].cmd \in Structural
<1>1. box \in [Boxes -> Seq(Asking)] /\ "added" \in Boxes /\ "disposed" \in Boxes /\ faults \in Nat
  BY ClusterAssumption DEF TypeInv, MailType, Boxes, HistoryType
<1>2. m \in Asking
  BY StructReceived DEF Elsewise
<1>3. CASE box[b] # <<>> /\ m = Head(box[b]) /\ box' = [box EXCEPT ![b] = Tail(@)] /\ faults' = faults
  <2>1. box[b] \in Seq(Asking) /\ \A k \in DOMAIN box[b] : box[b][k].cmd \in Structural
    BY <1>1 DEF BackInv
  <2>2. Head(box[b]).cmd \in Structural /\ \A k \in DOMAIN Tail(box[b]) : Tail(box[b])[k].cmd \in Structural
    BY <1>3, <2>1, TailAt
  <2>3. ASSUME NEW d \in {"added", "disposed"}, NEW k \in DOMAIN box'[d]
        PROVE  box'[d][k].cmd \in Structural
    <3>1. box'[d] = IF d = b THEN Tail(box[b]) ELSE box[d]
      BY <1>1, <1>3
    <3> QED  BY <2>2, <2>3, <3>1 DEF BackInv
  <2> QED  BY <1>2, <1>3, <2>2, <2>3 DEF Still
<1>4. CASE RunsOut(b) /\ m = mgr.msg /\ UNCHANGED box
  <2>1. faults' = 0 => faults = 0
    BY <1>1, <1>4 DEF RunsOut
  <2> QED  BY <1>2, <1>4, <2>1 DEF BackInv, Still
<1> QED  BY <1>3, <1>4 DEF Received

(* A broadcast goes on, turns back or is over.                             *)
LEMMA EndBroadcasts ==
  ASSUME TypeInv, PidInv, EndInv, AddStructGoesOn \/ RollbackGoesOn \/ DisposeStructGoesOn
  PROVE  EndInv'
<1>1. /\ UNCHANGED <<proc, store, servers, past>> /\ mgr.wait \in Elsewise
      /\ BackInv
  BY DEF AddStructGoesOn, RollbackGoesOn, DisposeStructGoesOn, Outside, data, Elsewise, EndInv
<1>2. mgr.i \in DOMAIN servers /\ servers \in Seq(Pids) /\ Len(servers) \in Nat
      /\ DOMAIN servers = 1 .. Len(servers)
  BY <1>1 DEF BackInv, TypeInv, KnownType
<1>3. ASSUME Return, UNCHANGED inbox, NEW b \in {"added", "disposed"}, NEW m, Received(b, m)
      PROVE  EndInv'
  <2>1. OffDuty /\ mgr'.wait \notin Elsewise
    BY <1>3, BodyOffDuty, BodyTurns DEF Return, TypeInv, HistoryType, Turns
  <2>2. /\ Still' => Still
        /\ \A d \in {"added", "disposed"} : \A k \in DOMAIN box'[d] : box'[d][k].cmd \in Structural
    BY <1>1, <1>3, BackReceived
  <2> QED  BY <1>1, <1>3, <2>1, <2>2, EndReturns
<1>4. ASSUME NEW i \in DOMAIN servers, NEW m, NEW n, NEW b \in {"added", "disposed"}, NEW wait \in Elsewise,
             Received(b, m), SendStruct(i, n, wait), m \in Asking /\ m.cmd \in Structural => n.cmd \in Structural
      PROVE  EndInv'
  <2>1. /\ m \in Asking /\ m.cmd \in Structural /\ (Still' => Still)
        /\ \A d \in {"added", "disposed"} : \A k \in DOMAIN box'[d] : box'[d][k].cmd \in Structural
    BY <1>1, <1>4, BackReceived
  <2> QED  BY <1>1, <1>4, <2>1, EndSends
<1>5. CASE AddStructGoesOn
  <2>1. mgr.wait = "struct_add"
    BY <1>5 DEF AddStructGoesOn
  <2>2. PICK m : /\ Received("added", m)
                 /\ \/ Return /\ UNCHANGED inbox
                    \/ mgr.i > 1 /\ SendStruct(mgr.i - 1, [m EXCEPT !.status = "OK", !.cmd = DisposeOf(@)], "rollback")
                    \/ mgr.i < Len(servers) /\ SendStruct(mgr.i + 1, m, "struct_add")
    BY <1>5 DEF AddStructGoesOn
  <2>3. "added" \in {"added", "disposed"} /\ {"rollback", "struct_add"} \subseteq Elsewise
    BY DEF Elsewise
  <2>4. CASE Return /\ UNCHANGED inbox
    BY <1>3, <2>2, <2>3, <2>4
  <2>5. CASE mgr.i > 1 /\ SendStruct(mgr.i - 1, [m EXCEPT !.status = "OK", !.cmd = DisposeOf(@)], "rollback")
    <3>1. mgr.i - 1 \in DOMAIN servers
      BY <1>2, <2>5
    <3>2. m \in Asking => [m EXCEPT !.status = "OK", !.cmd = DisposeOf(@)].cmd \in Structural
      BY DEF Asking, Message, DisposeOf, Structural, DropStruct
    <3> DEFINE n == [m EXCEPT !.status = "OK", !.cmd = DisposeOf(@)]
    <3>3. SendStruct(mgr.i - 1, n, "rollback") /\ (m \in Asking => n.cmd \in Structural)
      BY <2>5, <3>2
    <3> HIDE DEF n
    <3> QED  BY <1>4, <2>2, <2>3, <3>1, <3>3
  <2>6. CASE mgr.i < Len(servers) /\ SendStruct(mgr.i + 1, m, "struct_add")
    <3>1. mgr.i + 1 \in DOMAIN servers
      BY <1>2, <2>6
    <3> QED  BY <1>4, <2>2, <2>3, <2>6, <3>1
  <2> QED  BY <2>2, <2>4, <2>5, <2>6
<1>6. CASE RollbackGoesOn
  <2>1. PICK m : Received("disposed", m) /\ SendStruct(mgr.i, [m EXCEPT !.status = "OK"], "rollback")
    BY <1>6 DEF RollbackGoesOn
  <2>2. m \in Asking => [m EXCEPT !.status = "OK"].cmd = m.cmd
    BY DEF Asking, Message
  <2> DEFINE n == [m EXCEPT !.status = "OK"]
  <2>3. SendStruct(mgr.i, n, "rollback") /\ (m \in Asking /\ m.cmd \in Structural => n.cmd \in Structural)
    BY <2>1, <2>2
  <2> HIDE DEF n
  <2> QED  BY <1>2, <1>4, <2>1, <2>3 DEF Elsewise
<1>7. CASE DisposeStructGoesOn
  <2>1. PICK m : /\ Received("disposed", m)
                 /\ \/ Return /\ UNCHANGED inbox
                    \/ mgr.i < Len(servers) /\ SendStruct(mgr.i + 1, m, "struct_dispose")
    BY <1>7 DEF DisposeStructGoesOn
  <2>2. "disposed" \in {"added", "disposed"} /\ "struct_dispose" \in Elsewise
    BY DEF Elsewise
  <2>3. CASE Return /\ UNCHANGED inbox
    BY <1>3, <2>1, <2>2, <2>3
  <2>4. CASE mgr.i < Len(servers) /\ SendStruct(mgr.i + 1, m, "struct_dispose")
    <3>1. mgr.i + 1 \in DOMAIN servers
      BY <1>2, <2>4
    <3> QED  BY <1>4, <2>1, <2>2, <2>4, <3>1
  <2> QED  BY <2>1, <2>3, <2>4
<1> QED  BY <1>5, <1>6, <1>7

-----------------------------------------------------------------------------
(* Servers that are started, one that is told to end, and a shutdown.      *)
LEMMA EndRun ==
  ASSUME TypeInv, EndInv, HandleRun
  PROVE  EndInv'
<1> DEFINE p == spawned + 1
<1>1. /\ proc' = [proc EXCEPT ![p] = "up"] /\ mgr' = At("setup")
      /\ inbox' = [inbox EXCEPT ![p] = <<SetUp>>]
      /\ UNCHANGED <<store, servers, box, faults, past>>
  BY DEF HandleRun, data, SetUp
<1>2. proc \in [Pids -> {"unborn", "up", "gone"}] /\ inbox \in [Pids -> Seq(Asking)]
  BY DEF TypeInv, ServersType, MailType
<1>3. mgr'.job = "none" /\ mgr'.wait = "setup"
  BY <1>1, AtType DEF Waits
<1>4. ASSUME Still', NEW q \in Pids, proc'[q] = "up", ~None(inbox'[q], {"TERMINATE"})
      PROVE  Bequeathed(q)'
  <2>1. q # p
    <3>1. None(<<SetUp>>, {"TERMINATE"})
      BY SetUpAlone
    <3> HIDE DEF p
    <3> QED  BY <1>1, <1>2, <1>4, <3>1
  <2>2. proc[q] = "up" /\ inbox'[q] = inbox[q]
    <3> HIDE DEF p
    <3> QED  BY <1>1, <1>2, <1>4, <2>1
  <2> QED  BY <1>1, <1>4, <2>2 DEF EndInv, GoneInv, Bequeathed, Still
<1>5. GoneInv'
  BY <1>4 DEF GoneInv
<1>6. BackInv'
  BY <1>1, <1>3 DEF EndInv, BackInv, Elsewise
<1>7. OffDuty
  BY <1>3 DEF OffDuty
<1> QED  BY <1>5, <1>6, <1>7, EndOffDuty DEF EndInv

(* It is set up, or it does not answer.                                    *)
LEMMA EndSetupAnswer ==
  ASSUME TypeInv, PidInv, EndInv, SetupAnswer
  PROVE  EndInv'
<1>1. /\ UNCHANGED <<proc, store, inbox, faults>> /\ past \subseteq past' /\ mgr.wait = "setup"
      /\ servers' = Append(servers, spawned) /\ box' = [box EXCEPT !["setup"] = Tail(@)]
  BY DEF SetupAnswer, Outside, data
<1>2. servers \in Seq(Pids) /\ spawned \in Pids /\ box \in [Boxes -> Seq(Asking)] /\ KnownType
      /\ run \in BOOLEAN
  BY DEF TypeInv, KnownType, ServersType, MailType, HistoryType
<1>3. box'["added"] = box["added"] /\ box'["disposed"] = box["disposed"]
  BY <1>1, <1>2 DEF Boxes
<1>4. OffDuty /\ mgr'.wait \notin Elsewise
  <2>1. CASE EndBody(changes, 1)
    BY <1>2, <2>1, BodyOffDuty, BodyTurns DEF Turns
  <2>2. CASE mgr' = Over("redistribute", Paths)
    <3>1. mgr'.job = "redistribute" /\ mgr'.wait = "path"
      BY <1>2, <2>2, PathsType, OverType
    <3> QED  BY <3>1 DEF OffDuty, Moving, Elsewise
  <2> QED  BY <2>1, <2>2 DEF SetupAnswer
<1>5. ASSUME Still', NEW q \in Pids, proc'[q] = "up", ~None(inbox'[q], {"TERMINATE"})
      PROVE  Bequeathed(q)'
  <2>1. Bequeathed(q)
    BY <1>1, <1>5 DEF EndInv, GoneInv, Still
  <2>2. q # spawned
    <3>1. None(inbox[spawned], Commands \ {"SET_IN_MEMORY_CACHE_MODE"})
      BY <1>1 DEF PidInv
    <3>2. None(inbox[spawned], {"TERMINATE"})
      BY <3>1 DEF None, Commands
    <3> QED  BY <1>1, <1>5, <3>2
  <2>3. ASSUME NEW j \in DOMAIN servers'  PROVE servers'[j] # q
    <3>1. j \in DOMAIN servers \/ servers'[j] = spawned
      BY <1>1, <1>2, AppendAt
    <3>2. j \in DOMAIN servers => servers'[j] = servers[j]
      BY <1>1, <1>2, AppendAt
    <3> QED  BY <2>1, <2>2, <3>1, <3>2 DEF Bequeathed
  <2> QED  BY <1>1, <2>1, <2>3 DEF Bequeathed
<1>6. GoneInv'
  BY <1>5 DEF GoneInv
<1>7. BackInv'
  BY <1>3, <1>4 DEF EndInv, BackInv
<1> QED  BY <1>4, <1>6, <1>7, EndOffDuty DEF EndInv

(* One that does not answer is killed, and has nothing.                    *)
LEMMA EndSetupTimeout ==
  ASSUME TypeInv, EndInv, SetupTimeout
  PROVE  EndInv'
<1>1. /\ UNCHANGED <<store, servers, box, past>> /\ RunsOut("setup") /\ Return
      /\ proc' = [proc EXCEPT ![spawned] = "gone"] /\ inbox' = [inbox EXCEPT ![spawned] = <<>>]
  BY DEF SetupTimeout, data
<1>2. /\ proc \in [Pids -> {"unborn", "up", "gone"}] /\ inbox \in [Pids -> Seq(Asking)]
      /\ spawned \in Pids /\ faults \in Nat /\ KnownType /\ run \in BOOLEAN
  BY ClusterAssumption DEF TypeInv, ServersType, MailType, HistoryType
<1>3. faults' = 0 => faults = 0
  BY <1>1, <1>2 DEF RunsOut
<1>4. OffDuty /\ mgr'.wait \notin Elsewise
  BY <1>1, <1>2, BodyOffDuty, BodyTurns DEF Return, Turns
<1>5. ASSUME Still', NEW q \in Pids, proc'[q] = "up", ~None(inbox'[q], {"TERMINATE"})
      PROVE  Bequeathed(q)'
  <2>1. proc[q] = "up" /\ inbox'[q] = inbox[q]
    BY <1>1, <1>2, <1>5
  <2> QED  BY <1>1, <1>3, <1>5, <2>1 DEF EndInv, GoneInv, Bequeathed, Still
<1>6. GoneInv'
  BY <1>5 DEF GoneInv
<1>7. BackInv'
  BY <1>1, <1>4 DEF EndInv, BackInv
<1> QED  BY <1>4, <1>6, <1>7, EndOffDuty DEF EndInv

(* The manager ends when every server has.                                 *)
LEMMA EndHandleShutdown ==
  ASSUME TypeInv, EndInv, HandleShutdown
  PROVE  EndInv'
<1>1. Aside /\ UNCHANGED inbox
  BY AsideTyped
<1>2. OffDuty
  BY AtType DEF HandleShutdown, OffDuty, Waits
<1>3. ToServers
  BY <1>1 DEF ToServers
<1> QED  BY <1>1, <1>2, <1>3, GoneAside, EndOffDuty DEF EndInv

(* A shutdown puts one message at the end of every list.                   *)
LEMMA EndShutdown ==
  ASSUME TypeInv, EndInv, TypeShutdown
  PROVE  EndInv'
<1>1. /\ UNCHANGED <<proc, box, store, servers, mgr, faults, past>>
      /\ inbox \in [Pids -> Seq(Asking)] /\ servers \in Seq(Pids)
  BY DEF TypeShutdown, data, TypeInv, MailType, KnownType
<1>2. /\ \A p \in Pids : inbox'[p] = inbox[p] \/ (p \in ToSet(servers) /\ inbox'[p] = Append(inbox[p], OwnMsg("SHUTDOWN", NoOne)))
      /\ OwnMsg("SHUTDOWN", NoOne).cmd = "SHUTDOWN"
  BY <1>1, OwnMsgType DEF TypeShutdown
<1>3. Sends({"SHUTDOWN"})
  BY <1>2 DEF Sends
<1>4. \A C : "SHUTDOWN" \notin C => \A p \in Pids : Kept(inbox[p], inbox'[p], C)
  <2>1. \A C : "SHUTDOWN" \notin C => {"SHUTDOWN"} \cap C = {}
    OBVIOUS
  <2> QED  BY <1>3, <2>1, SendsKeeps DEF TypeInv
<1>5. "SHUTDOWN" \notin Awake /\ "SHUTDOWN" \notin Told
  BY DEF Awake, Told
<1>6. /\ Still' <=> Still
      /\ Ending' <=> Ending
      /\ Ender' = Ender /\ Heir' = Heir /\ Mover' = Mover /\ MoveCommand' = MoveCommand
      /\ Remaining' = Remaining
  BY <1>1 DEF Still, Ending, Ender, Heir, Mover, MoveCommand, Remaining
<1>7. Ending => Ender \in Pids /\ Heir \in Pids
  BY BothThere
<1>8. EndPlaces'
  BY <1>1, <1>6 DEF EndInv, EndPlaces
<1>9. LeftInv'
  <2>1. SUFFICES ASSUME Still, Ending, proc[Ender] = "up"  PROVE Untouched' \/ Emptied'
    BY <1>1, <1>6 DEF LeftInv
  <2>2. CountLast(inbox[Ender]) => CountLast(inbox'[Ender])
    <3>1. inbox[Ender] \in Seq(Asking)
      BY <1>1, <1>7, <2>1
    <3> QED  BY <1>2, <1>5, <1>7, <2>1, <3>1, CountLastLists
  <2>3. None(inbox[Ender], Told) => None(inbox'[Ender], Told)
    BY <1>4, <1>5, <1>7, <2>1 DEF Kept
  <2>4. Untouched \/ Emptied
    BY <2>1 DEF EndInv, LeftInv
  <2>5. (Untouched => Untouched') /\ (Emptied => Emptied')
    BY <1>1, <1>6, <2>2, <2>3 DEF Untouched, Emptied
  <2> QED  BY <2>4, <2>5
<1>10. MoveInv'
  <2>1. SUFFICES ASSUME Still, Ending, proc[Ender] = "up", mgr.wait \in TransferWaits
                 PROVE  /\ \A p \in Pids : p # Mover => None(inbox'[p], Awake)
                        /\ MoveLost' \/ MoveAsked' \/ MoveAnswered'
    BY <1>1, <1>6 DEF MoveInv
  <2>2. /\ \A p \in Pids : p # Mover => None(inbox[p], Awake)
        /\ MoveLost \/ MoveAsked \/ MoveAnswered
    BY <2>1 DEF EndInv, MoveInv
  <2>3. \A p \in Pids : Kept(inbox[p], inbox'[p], Awake)
    BY <1>4, <1>5
  <2>4. Mover \in Pids
    BY <1>7, <2>1 DEF Mover
  <2>5. /\ None(inbox[Mover], Awake) => None(inbox'[Mover], Awake)
        /\ \A m : One(inbox[Mover], Awake, m) => One(inbox'[Mover], Awake, m)
    BY <2>3, <2>4 DEF Kept
  <2>6. (MoveLost => MoveLost') /\ (MoveAnswered => MoveAnswered')
    BY <1>1, <1>6, <2>5 DEF MoveLost, MoveAnswered, Movable
  <2>7. MoveAsked => MoveAsked'
    BY <1>1, <1>6, <2>5 DEF MoveAsked, Movable
  <2> QED  BY <2>2, <2>3, <2>6, <2>7 DEF Kept
<1>11. GoneInv'
  <2>1. ToServers
    BY <1>1, <1>2 DEF ToServers, ToSet
  <2> QED  BY <1>1, <1>4, <1>6, <2>1, GoneKept DEF EndInv
<1>12. BackInv'
  BY <1>1 DEF EndInv, BackInv
<1> QED  BY <1>8, <1>9, <1>10, <1>11, <1>12 DEF EndInv

-----------------------------------------------------------------------------
(* The list of paths leaves out none.                                      *)
LEMMA PathsAll ==
  ASSUME KnownType
  PROVE  DOMAIN seps \subseteq ToSet(Paths)
<1> DEFINE S == DOMAIN seps
           n == Cardinality(S)
<1>1. S \in SUBSET Nat /\ IsFiniteSet(S)
  <2>1. S \subseteq Collections
    BY DEF KnownType, IsMap
  <2> QED  BY <2>1, FiniteData, FS_Subset
<1>2. n \in Nat
  BY <1>1, FS_CardinalityType
<1>3. Paths \in Seq(S) /\ Len(Paths) = n /\ \A i, j \in 1 .. n : i < j => Paths[i] < Paths[j]
  <2> HIDE DEF S
  <2> QED  BY <1>1, OrderedList DEF Paths, S
<1> HIDE DEF S, n
<1>4. Paths \in [1 .. n -> S]
  BY <1>2, <1>3
<1>5. \A i, j \in 1 .. n : Paths[i] = Paths[j] => i = j
  <2>1. SUFFICES ASSUME NEW i \in 1 .. n, NEW j \in 1 .. n, Paths[i] = Paths[j], i # j  PROVE FALSE
    OBVIOUS
  <2>2. Paths[i] \in Nat /\ Paths[j] \in Nat
    BY <1>1, <1>4
  <2>3. i < j \/ j < i
    BY <1>2, <2>1
  <2> QED  BY <1>3, <2>1, <2>2, <2>3
<1>6. Paths \in Injection(1 .. n, S)
  BY <1>4, <1>5 DEF Injection, IsInjective
<1>7. Cardinality(1 .. n) = n
  BY <1>2, FS_Interval
<1>8. Paths \in Surjection(1 .. n, S)
  BY <1>1, <1>6, <1>7, FS_Injection DEF n
<1>9. \A c \in S : \E i \in 1 .. n : Paths[i] = c
  BY <1>8 DEF Surjection
<1>10. DOMAIN Paths = 1 .. n
  BY <1>4
<1> QED  BY <1>9, <1>10 DEF ToSet, S

-----------------------------------------------------------------------------
(* What moves keys, when no server is ending afterwards.                   *)
LEMMA EndAside ==
  ASSUME TypeInv, EndInv, Aside, ToServers, OffDuty
  PROVE  EndInv'
BY GoneAside, EndOffDuty DEF EndInv

(* A server is to end: all it has is still to be seen to.                  *)
LEMMA EndTerminate ==
  ASSUME TypeInv, BroadcastInv, KnowsInv, CountInv, EndInv, HandleTerminate
  PROVE  EndInv'
<1>1. Aside /\ UNCHANGED <<inbox, box, servers, store, proc, seps, past, faults>> /\ mgr.wait = "main"
  BY AsideTyped DEF HandleTerminate, Outside, data, mail
<1>2. ToServers
  BY <1>1 DEF ToServers
<1>3. CASE servers = <<>>
  <2>1. OffDuty
    BY <1>3, AtType DEF HandleTerminate, OffDuty, Waits
  <2> QED  BY <1>1, <1>2, <2>1, EndAside
<1>4. CASE servers # <<>>
  <2>1. KnownType /\ servers \in Seq(Pids) /\ Len(servers) = 2 /\ 2 \in DOMAIN servers
    <3>1. KnownType /\ servers \in Seq(Pids) /\ Len(servers) <= 2 /\ Len(servers) # 1
      BY DEF TypeInv, KnownType, MaxServers, HandleTerminate
    <3>2. servers \in Seq(Pids)
      BY <3>1
    <3>3. Len(servers) # 0
      BY <1>4, <3>2
    <3>4. Len(servers) \in Nat /\ DOMAIN servers = 1 .. Len(servers)
      BY <3>2
    <3> HIDE DEF KnownType
    <3>5. Len(servers) = 2
      BY <3>1, <3>3, <3>4
    <3> QED  BY <3>1, <3>4, <3>5
  <2>2. /\ mgr'.wait = "path" /\ mgr'.job = "terminate" /\ mgr'.todo = Paths
    <3>1. mgr' = Over("terminate", Paths) /\ Paths \in Seq(Collections)
      BY <1>4, <2>1, PathsType DEF HandleTerminate
    <3> HIDE DEF Over, Paths
    <3> QED  BY <3>1, OverType
  <2>3. EndPlaces' /\ MoveInv'
    BY <2>2 DEF EndPlaces, MoveInv, Moving, TransferWaits
  <2>4. LeftInv'
    <3>1. SUFFICES ASSUME Still', proc'[Ender'] = "up"  PROVE Untouched'
      BY DEF LeftInv
    <3>2. Sound /\ ~Broadcasting
      BY <1>1, <3>1 DEF Sound, Still, Broadcasting
    <3>3. box["count"] = <<>>
      BY <1>1, <3>2 DEF CountInv
    <3>4. DOMAIN store[Ender] \subseteq DOMAIN seps
      BY <1>1, <2>1, <3>1, <3>2 DEF KnowsInv, HasOf, Passed, Ender
    <3>5. DOMAIN store[Ender] \subseteq ToSet(Paths)
      BY <2>1, <3>4, PathsAll
    <3> HIDE DEF Paths
    <3> QED  BY <1>1, <2>2, <3>3, <3>5 DEF Untouched, Ender
  <2> QED  BY <1>1, <1>2, <2>3, <2>4, GoneAside DEF EndInv
<1> QED  BY <1>3, <1>4

(* The server that ends is let go with nothing.                            *)
LEMMA EndLetGo ==
  ASSUME TypeInv, PidInv, BroadcastInv, CountInv, EndInv, NextPath, mgr.todo = <<>>, mgr.job = "terminate"
  PROVE  EndInv'
<1>1. /\ UNCHANGED <<proc, store, faults, box>> /\ mgr.wait = "path" /\ LetGo /\ past \subseteq past'
  BY DEF NextPath, Outside, data
<1>2. /\ servers' = Front(servers) /\ mgr' = Over("redistribute", Paths)
      /\ inbox' = Post(inbox, servers[Len(servers)], OwnMsg("TERMINATE", NoOne))
  BY <1>1 DEF LetGo
<1>3. /\ MailType /\ Paths \in Seq(Collections) /\ servers \in Seq(Pids) /\ Len(servers) = 2
      /\ inbox \in [Pids -> Seq(Asking)] /\ servers[1] # servers[2] /\ Ending
      /\ Ender \in Pids
  <2>1. Ending
    BY DEF Ending
  <2>2. MailType /\ Paths \in Seq(Collections) /\ servers \in Seq(Pids)
        /\ inbox \in [Pids -> Seq(Asking)]
    BY PathsType DEF TypeInv, MailType, KnownType
  <2> HIDE DEF Paths
  <2> QED  BY <2>1, <2>2, BothThere DEF PidInv
<1>4. mgr'.wait = "path" /\ mgr'.job = "redistribute"
  <2> HIDE DEF Over, Paths
  <2> QED  BY <1>2, <1>3, OverType
<1>5. OffDuty /\ (Still' => Still)
  BY <1>1, <1>4 DEF OffDuty, Moving, Still
<1>6. \A j \in DOMAIN servers' : j = 1 /\ servers'[j] = servers[1] /\ j \in DOMAIN servers
  <2>1. servers' = [j \in 1 .. 1 |-> servers[j]] /\ DOMAIN servers = 1 .. 2
    BY <1>2, <1>3 DEF Front
  <2> QED  BY <2>1
<1>7. \A p \in Pids : p # Ender => inbox'[p] = inbox[p]
  BY <1>2, <1>3 DEF Post, Ender
<1>8. \A C : "TERMINATE" \notin C => \A p \in Pids : Kept(inbox[p], inbox'[p], C)
  <2>1. OwnMsg("TERMINATE", NoOne).cmd \in {"TERMINATE"}
    BY OwnMsgType
  <2>2. Sends({"TERMINATE"})
    <3> HIDE DEF OwnMsg
    <3> QED  BY <1>2, <1>3, <2>1, PostSends
  <2>3. \A C : "TERMINATE" \notin C => {"TERMINATE"} \cap C = {}
    OBVIOUS
  <2> QED  BY <1>3, <2>2, <2>3, SendsKeeps
<1>9. ASSUME Still', NEW p \in Pids, proc'[p] = "up", ~None(inbox'[p], {"TERMINATE"})
      PROVE  Bequeathed(p)'
  <2>1. CASE p # Ender
    <3>1. Bequeathed(p)
      BY <1>1, <1>5, <1>7, <1>9, <2>1 DEF EndInv, GoneInv
    <3>2. \A j \in DOMAIN servers' : servers'[j] # p
      BY <1>3, <1>6, <3>1 DEF Bequeathed
    <3> QED  BY <1>1, <1>7, <2>1, <3>1, <3>2 DEF Bequeathed
  <2>2. CASE p = Ender
    <3>1. proc[Ender] = "up" /\ Still
      BY <1>1, <1>5, <1>9, <2>2
    <3>2. Untouched \/ Emptied
      BY <1>3, <3>1 DEF EndInv, LeftInv
    <3>3. ToSet(mgr.todo) = {}
      BY DEF ToSet
    <3>4. /\ DOMAIN store[Ender] = {} \/ None(inbox[Ender], Told)
          /\ \A c \in DOMAIN store[Ender] : store[Ender][c] = {}
      BY <1>1, <3>2, <3>3 DEF Untouched, Emptied, TransferWaits
    <3>5. None(inbox[Ender], Structural)
      BY <1>3, <3>1, MovingAlone DEF EndInv
    <3>6. None(inbox[Ender], AddStruct) /\ (None(inbox[Ender], Told) => None(inbox[Ender], {"ADD"}))
      BY <3>5 DEF None, Structural, Told, Awake, Commands, DataChanges
    <3>7. None(inbox'[Ender], AddStruct) /\ (None(inbox[Ender], Told) => None(inbox'[Ender], {"ADD"}))
      <4>1. "TERMINATE" \notin AddStruct /\ "TERMINATE" \notin {"ADD"}
        BY DEF AddStruct
      <4> QED  BY <1>3, <1>8, <3>6, <4>1 DEF Kept
    <3>8. \A j \in DOMAIN servers' : servers'[j] # Ender
      BY <1>3, <1>6 DEF Ender
    <3> QED  BY <1>1, <2>2, <3>4, <3>7, <3>8 DEF Bequeathed
  <2> QED  BY <2>1, <2>2
<1>10. GoneInv'
  BY <1>9 DEF GoneInv
<1>11. BackInv'
  BY <1>1, <1>4 DEF EndInv, BackInv, Elsewise
<1> QED  BY <1>5, <1>10, <1>11, EndOffDuty DEF EndInv

(* The next path of the server that ends is counted.                       *)
LEMMA EndNextPath ==
  ASSUME TypeInv, PidInv, BroadcastInv, CountInv, EndInv, NextPath
  PROVE  EndInv'
<1>1. CASE mgr.todo = <<>> /\ mgr.job = "terminate"
  BY <1>1, EndLetGo
<1>2. CASE ~(mgr.todo = <<>> /\ mgr.job = "terminate")
  <2>1. Aside /\ mgr.wait = "path" /\ MailType /\ mgr \in Places /\ mgr.job # "none"
    BY <1>2, AsideNextPath DEF TypeInv, MgrType
  <2>2. CASE mgr.todo = <<>>
    <3>1. Return /\ UNCHANGED inbox
      BY <1>2, <2>2 DEF NextPath
    <3>2. OffDuty
      BY <3>1, BodyOffDuty DEF Return, TypeInv
    <3>3. ToServers
      BY <3>1 DEF ToServers
    <3> QED  BY <2>1, <3>2, <3>3, EndAside
  <2>3. CASE mgr.todo # <<>>
    <3> DEFINE i == IF mgr.job = "terminate" THEN Len(servers) ELSE 1
               m == OwnMsg("GET_RECORDS_CNT", Head(mgr.todo))
    <3>1. AskCount(i) /\ UNCHANGED <<servers, past>>
      BY <2>3 DEF NextPath
    <3>2. /\ inbox' = Post(inbox, servers[i], m)
          /\ mgr'.wait = "count" /\ mgr'.i = i /\ mgr'.job = mgr.job /\ mgr'.todo = mgr.todo
      BY <2>1, <3>1 DEF AskCount, Places
    <3> HIDE DEF i, m
    <3>3. i \in DOMAIN servers
      BY <2>1, <3>2 DEF Aside, Turns
    <3>4. ToServers
      BY <2>1, <3>2, <3>3, PostTo
    <3>5. CASE mgr.job # "terminate"
      <4>1. OffDuty
        BY <3>2, <3>5 DEF OffDuty, Moving
      <4> QED  BY <2>1, <3>4, <4>1, EndAside
    <3>6. CASE mgr.job = "terminate"
      <4>1. /\ Ending /\ Len(servers) = 2 /\ Ender \in Pids /\ i = 2
        <5>1. Ending
          BY <3>6 DEF Ending
        <5> QED  BY <3>6, <5>1, BothThere DEF i
      <4>2. EndPlaces' /\ MoveInv'
        BY <3>2, <4>1 DEF EndPlaces, MoveInv, Moving, TransferWaits
      <4>3. /\ UNCHANGED <<store, proc, servers, box>> /\ (Still' => Still)
        BY <2>1, <3>1 DEF NextPath, Outside, data, Aside, Still
      <4>4. LeftInv'
        <5>1. SUFFICES ASSUME Still', proc'[Ender'] = "up"  PROVE Untouched' \/ Emptied'
          BY DEF LeftInv
        <5>2. Still /\ proc[Ender] = "up" /\ Ender' = Ender
          BY <4>3, <5>1 DEF Ender
        <5>3. Untouched \/ Emptied
          BY <4>1, <5>2 DEF EndInv, LeftInv
        <5>4. box["count"] = <<>>
          BY <2>1, <4>1, <5>2, MovingAlone DEF EndInv
        <5>5. inbox'[Ender] = Append(inbox[Ender], m) /\ inbox[Ender] \in Seq(Asking)
          BY <2>1, <3>2, <4>1, <5>2 DEF Post, MailType, Ender
        <5>6. m.cmd = "GET_RECORDS_CNT"
          <6>1. Head(mgr.todo) \in Collections
            BY <2>1, <2>3 DEF Places
          <6> QED  BY <6>1, OwnMsgType DEF m
        <5>7. CountLast(inbox'[Ender])
          BY <5>5, <5>6, CountLastLists
        <5>8. None(inbox[Ender], Told) => None(inbox'[Ender], Told)
          <6>1. m.cmd \notin Told
            BY <5>6 DEF Told
          <6> QED  BY <5>5, <6>1, AppendKeeps DEF Kept
        <5>9. Untouched => Untouched'
          BY <3>2, <4>3, <5>2, <5>7 DEF Untouched
        <5>10. Emptied => Emptied'
          BY <2>1, <3>2, <4>3, <5>2, <5>4, <5>8 DEF Emptied, TransferWaits
        <5> QED  BY <5>3, <5>9, <5>10
      <4> QED  BY <2>1, <3>4, <4>2, <4>4, GoneAside DEF EndInv
    <3> QED  BY <3>5, <3>6
  <2> QED  BY <2>2, <2>3
<1> QED  BY <1>1, <1>2

-----------------------------------------------------------------------------
(* The next message of a transfer is the only one about.                   *)
LEMMA MoveOn ==
  ASSUME TypeInv, LeftInv, Ending, mgr.dir = "left", Still' => Still,
         UNCHANGED <<proc, store, servers>>,
         mgr.wait \in {"move", "obtain", "next", "add"},
         NEW wait \in TransferWaits, NEW sep, NEW m \in Asking, NEW h \in Pids,
         h = IF wait = "add" THEN Heir ELSE Ender,
         mgr' = [mgr EXCEPT !.wait = wait, !.newsep = sep], inbox' = Post(inbox, h, m),
         m.cmd = CASE wait = "obtain" -> "OBTAIN_MIN" [] wait = "next" -> "OBTAIN_NEXT"
                   [] wait = "add"    -> "ADD"        [] OTHER         -> "DISPOSE",
         Still' /\ proc[Ender] = "up" =>
           /\ box'["answer"] = <<>> /\ \A p \in Pids : None(inbox[p], Awake)
           /\ m.coll = Head(mgr.todo)
           /\ wait # "obtain" => Movable(m)
  PROVE  EndPlaces' /\ LeftInv' /\ MoveInv'
<1>1. /\ mgr'.wait = wait /\ mgr'.todo = mgr.todo /\ mgr'.n = mgr.n /\ mgr'.dir = "left"
      /\ mgr'.job = "terminate" /\ inbox \in [Pids -> Seq(Asking)]
      /\ Ender' = Ender /\ Heir' = Heir
  BY DEF TypeInv, MgrType, Places, MailType, Ending, Ender, Heir
<1>2. wait # "count" /\ wait # "path" /\ wait \in Moving /\ m.cmd \in Awake
  BY DEF TransferWaits, Moving, Awake, Commands, DataChanges
<1>3. EndPlaces'
  BY <1>1, <1>2 DEF EndPlaces
<1>4. LeftInv'
  <2>1. SUFFICES ASSUME Still', proc'[Ender'] = "up"  PROVE Emptied'
    BY DEF LeftInv
  <2>2. Emptied
    <3>1. Still /\ Ending /\ proc[Ender] = "up"
      BY <1>1, <2>1
    <3> QED  BY <3>1 DEF LeftInv, Untouched
  <2>3. Remaining' = mgr.n /\ Remaining = mgr.n
    BY <1>1, <2>1 DEF Remaining
  <2>4. /\ Head(mgr.todo) \in DOMAIN store[Ender]
        /\ Cardinality(store[Ender][Head(mgr.todo)]) <= Remaining
        /\ \A c \in DOMAIN store[Ender] : c \in ToSet(mgr.todo) \/ store[Ender][c] = {}
    BY <2>2 DEF Emptied, TransferWaits
  <2> QED  BY <1>1, <1>2, <2>3, <2>4 DEF Emptied
<1>5. MoveInv'
  <2>1. SUFFICES ASSUME Still', proc'[Ender'] = "up"
                 PROVE  /\ \A p \in Pids : p # Mover' => None(inbox'[p], Awake)
                        /\ MoveLost' \/ MoveAsked'
    BY DEF MoveInv
  <2>2. Mover' = h
    BY <1>1 DEF Mover
  <2>3. /\ box'["answer"] = <<>> /\ \A p \in Pids : None(inbox[p], Awake)
        /\ m.coll = Head(mgr.todo) /\ (wait # "obtain" => Movable(m))
    BY <1>1, <2>1
  <2>4. \A p \in Pids : p # h => inbox'[p] = inbox[p]
    BY <1>1 DEF Post
  <2>5. \A p \in Pids : p # Mover' => None(inbox'[p], Awake)
    BY <2>2, <2>3, <2>4
  <2>6. CASE proc[h] = "up"
    <3>1. inbox'[h] = Append(inbox[h], m) /\ inbox[h] \in Seq(Asking)
      BY <1>1, <2>6 DEF Post
    <3>2. One(inbox'[h], Awake, m)
      BY <1>2, <2>3, <3>1, AppendPuts
    <3>3. MoveCommand' = m.cmd
      BY <1>1 DEF MoveCommand
    <3>4. wait # "obtain" => Movable(m)'
      BY <1>1, <2>3 DEF Movable
    <3> QED  BY <1>1, <2>2, <2>3, <2>5, <3>2, <3>3, <3>4 DEF MoveAsked
  <2>7. CASE proc[h] # "up"
    <3>1. inbox' = inbox
      BY <2>7 DEF Post
    <3> QED  BY <2>2, <2>3, <2>5, <2>7, <3>1 DEF MoveLost
  <2> QED  BY <2>6, <2>7
<1> QED  BY <1>3, <1>4, <1>5

(* What is counted is moved.                                               *)
LEMMA EndCounts ==
  ASSUME TypeInv, EndInv, CountAnswer \/ CountTimeout
  PROVE  EndInv'
<1>1. Aside /\ mgr.wait = "count" /\ mgr \in Places /\ MailType
  BY AsideCount DEF TypeInv, MgrType
<1>2. CASE CountTimeout
  <2>1. GiveUp /\ UNCHANGED inbox
    BY <1>2 DEF CountTimeout, mail
  <2>2. ToServers /\ OffDuty
    BY <1>1, <2>1, GiveUpOffDuty DEF ToServers
  <2> QED  BY <1>1, <2>2, EndAside
<1>3. CASE CountAnswer
  <2> DEFINE cnt == Head(box["count"]).cnt
  <2>1. CountedTo(cnt) /\ box["count"] # <<>> /\ UNCHANGED <<store, proc, servers, past, faults>>
    BY <1>3 DEF CountAnswer, Outside, data
  <2>2. ToServers
    <3>1. CASE inbox' = inbox
      BY <3>1 DEF ToServers
    <3>2. CASE /\ mgr'.i \in DOMAIN servers
               /\ inbox' = Post(inbox, servers[mgr'.i], OwnMsg("GET_RECORDS_CNT", Head(mgr.todo)))
      <4> HIDE DEF OwnMsg
      <4> QED  BY <1>1, <3>2, PostTo
    <3> HIDE DEF OwnMsg, Post
    <3> QED  BY <1>3, <3>1, <3>2, CountsOn
  <2>3. CASE mgr.job # "terminate"
    <3>1. mgr'.job = mgr.job
      <4> DEFINE cnts == [mgr.cnts EXCEPT ![mgr.i - 1] = cnt]
      <4>1. (\E dir, n : Transfers(dir, n)) \/ mgr' = [mgr EXCEPT !.i = @ + 1, !.cnts = cnts]
        <5>1. CASE mgr.job = "redistribute" /\ mgr.i < Len(servers)
          BY <2>1, <2>3, <5>1 DEF CountedTo
        <5>2. CASE ~(mgr.job = "redistribute" /\ mgr.i < Len(servers))
          <6> HIDE DEF Transfers
          <6> QED  BY <2>1, <2>3, <5>2 DEF CountedTo
        <5> QED  BY <5>1, <5>2
      <4> HIDE DEF cnts
      <4> QED  BY <1>1, <4>1 DEF Transfers, Places
    <3>2. mgr'.wait \in Moving
      BY <1>3, CountsOn DEF Moving
    <3>3. OffDuty
      BY <2>3, <3>1, <3>2 DEF OffDuty
    <3> QED  BY <1>1, <2>2, <3>3, EndAside
  <2>4. CASE mgr.job = "terminate"
    <3>1. inbox' = inbox /\ mgr' = [mgr EXCEPT !.wait = "move", !.dir = "left", !.n = cnt]
      BY <2>1, <2>4 DEF CountedTo, HandOver, Transfers
    <3> HIDE DEF cnt
    <3>2. /\ mgr'.wait = "move" /\ mgr'.dir = "left" /\ mgr'.n = cnt
          /\ mgr'.job = mgr.job /\ mgr'.todo = mgr.todo
      BY <1>1, <3>1 DEF Places
    <3>3. EndPlaces' /\ MoveInv'
      BY <3>2 DEF EndPlaces, MoveInv, Moving, TransferWaits
    <3>4. LeftInv'
      <4>1. SUFFICES ASSUME Still', proc'[Ender'] = "up"  PROVE Emptied'
        BY DEF LeftInv
      <4>2. Still /\ Ending /\ proc[Ender] = "up" /\ Ender' = Ender
        BY <2>1, <2>4, <4>1 DEF Still, Ending, Ender
      <4>3. Emptied
        BY <2>1, <4>2 DEF EndInv, LeftInv, Untouched
      <4>4. Remaining' = cnt
        BY <3>2 DEF Remaining
      <4> QED  BY <1>1, <2>1, <3>1, <3>2, <4>2, <4>3, <4>4 DEF Emptied, TransferWaits, cnt
    <3> QED  BY <1>1, <2>2, <3>3, <3>4, GoneAside DEF EndInv
  <2> QED  BY <2>3, <2>4
<1> QED  BY <1>2, <1>3

(* A transfer begins, or the path is done with.                            *)
LEMMA EndBegin ==
  ASSUME TypeInv, EndInv, BeginTransfer
  PROVE  EndInv'
<1>1. /\ Aside /\ mgr.wait = "move" /\ MailType /\ mgr \in Places /\ mgr.job # "none"
      /\ mgr.todo # <<>> /\ (mgr.n > 0 => Len(servers) = 2) /\ servers \in Seq(Pids)
  BY AsideBegin DEF TypeInv, MgrType, MaxServers, KnownType
<1>2. UNCHANGED <<proc, store, servers, box, faults>>
  BY DEF BeginTransfer, Outside, data
<1>3. CASE ~(mgr.n > 0)
  <2>1. mgr' = Over(mgr.job, Tail(mgr.todo)) /\ UNCHANGED <<inbox, past>>
    BY <1>3 DEF BeginTransfer
  <2>2. mgr'.wait = "path" /\ mgr'.job = mgr.job /\ mgr'.todo = Tail(mgr.todo)
    <3>1. Tail(mgr.todo) \in Seq(Collections) /\ mgr.job \in {"terminate", "redistribute"}
      BY <1>1, TailType DEF Places
    <3> HIDE DEF Over
    <3> QED  BY <2>1, <3>1, OverType, ZenonT(40)
  <2>3. ToServers
    BY <2>1 DEF ToServers
  <2>4. EndPlaces' /\ MoveInv'
    BY <2>2 DEF EndPlaces, MoveInv, Moving, TransferWaits
  <2>5. LeftInv'
    <3>1. SUFFICES ASSUME Still', Ending', proc'[Ender'] = "up"  PROVE Emptied'
      BY DEF LeftInv
    <3>2. Still /\ Ending /\ proc[Ender] = "up" /\ Ender' = Ender
      BY <1>2, <2>1, <2>2, <3>1 DEF Still, Ending, Ender
    <3>3. Emptied
      BY <1>1, <3>2 DEF EndInv, LeftInv, Untouched
    <3> DEFINE c == Head(mgr.todo)
    <3>4. c \in DOMAIN store[Ender] /\ Cardinality(store[Ender][c]) <= mgr.n
      BY <1>1, <3>3 DEF Emptied, Remaining
    <3>5. Ender \in Pids
      BY <3>2, BothThere
    <3>6. store[Ender][c] = {}
      <4> HIDE DEF c
      <4>1. IsFiniteSet(store[Ender][c]) /\ Cardinality(store[Ender][c]) \in Nat
        BY <3>4, <3>5, PathFinite
      <4>2. Cardinality(store[Ender][c]) = 0
        <5>1. mgr.n \in Int
          BY <1>1 DEF Places
        <5> QED  BY <1>3, <3>4, <4>1, <5>1
      <4> QED  BY <4>1, <4>2, FS_EmptySet
    <3>7. \A d \in ToSet(mgr.todo) : d = c \/ d \in ToSet(Tail(mgr.todo))
      <4>1. mgr.todo \in Seq(Collections) /\ mgr.todo # <<>>
        BY <1>1 DEF Places
      <4>2. ASSUME NEW k \in DOMAIN mgr.todo
            PROVE  mgr.todo[k] = c \/ \E l \in DOMAIN Tail(mgr.todo) : Tail(mgr.todo)[l] = mgr.todo[k]
        <5>1. CASE k = 1
          BY <4>1, <5>1
        <5>2. CASE k # 1
          <6>1. k - 1 \in DOMAIN Tail(mgr.todo) /\ Tail(mgr.todo)[k - 1] = mgr.todo[k]
            BY <4>1, <5>2
          <6> QED  BY <6>1
        <5> QED  BY <5>1, <5>2
      <4> QED  BY <4>2 DEF ToSet
    <3>8. \A d \in DOMAIN store[Ender] : d \in ToSet(Tail(mgr.todo)) \/ store[Ender][d] = {}
      BY <3>3, <3>6, <3>7 DEF Emptied
    <3>9. None(inbox[Ender], Told)
      BY <1>1, <3>3 DEF Emptied, TransferWaits
    <3> QED  BY <1>2, <2>1, <2>2, <3>2, <3>8, <3>9 DEF Emptied, TransferWaits
  <2> QED  BY <1>1, <2>3, <2>4, <2>5, GoneAside DEF EndInv
<1>4. CASE mgr.n > 0
  <2> DEFINE own == OwnMsg("none", Head(mgr.todo))
             cmd == IF mgr.dir = "left" THEN "OBTAIN_MIN" ELSE "OBTAIN_MAX"
             m   == [own EXCEPT !.cmd = cmd]
  <2>1. Send(From, own, cmd, "obtain", NoOne)
    BY <1>1, <1>4 DEF BeginTransfer, Places
  <2>2. /\ mgr' = [mgr EXCEPT !.wait = "obtain", !.newsep = NoOne]
        /\ inbox' = Post(inbox, From, m)
    BY <2>1 DEF Send
  <2>3. m \in Asking /\ m.cmd = cmd /\ m.coll = Head(mgr.todo)
    <3>1. Head(mgr.todo) \in Collections
      BY <1>1 DEF Places
    <3>2. own \in Asking /\ own.coll = Head(mgr.todo)
      BY <3>1, OwnMsgType
    <3> HIDE DEF own
    <3>3. cmd \in {"OBTAIN_MIN", "OBTAIN_MAX"} /\ cmd \in Commands
      BY DEF Commands
    <3> HIDE DEF cmd
    <3> QED  BY <3>2, <3>3 DEF Asking, Message, DataChanges
  <2> HIDE DEF own, m
  <2>4. mgr'.wait = "obtain" /\ mgr'.job = mgr.job
    BY <1>1, <2>2 DEF Places
  <2>5. ToServers
    <3>1. 1 \in DOMAIN servers /\ Len(servers) \in DOMAIN servers
      BY <1>1, <1>4
    <3>2. From \in {servers[1], servers[Len(servers)]}
      BY DEF From
    <3> HIDE DEF From
    <3> QED  BY <1>1, <2>2, <3>1, <3>2, PostTo
  <2>6. CASE mgr.job # "terminate"
    <3>1. OffDuty
      BY <2>4, <2>6 DEF OffDuty, Moving, TransferWaits
    <3> QED  BY <1>1, <2>5, <3>1, EndAside
  <2>7. CASE mgr.job = "terminate"
    <3>1. Ending /\ mgr.dir = "left" /\ From = Ender /\ Ender \in Pids /\ LeftInv
      <4>1. Ending
        BY <2>7 DEF Ending
      <4>2. mgr.dir = "left"
        BY <1>1, <4>1 DEF EndInv, EndPlaces
      <4> QED  BY <1>1, <1>4, <4>1, <4>2, BothThere DEF From, Ender, EndInv
    <3>2. Still' => Still /\ box'["answer"] = <<>> /\ \A p \in Pids : None(inbox[p], Awake)
      <4>1. SUFFICES ASSUME Still'
                     PROVE  Still /\ box["answer"] = <<>> /\ \A p \in Pids : inbox[p] = <<>>
        BY <1>2, NothingThere
      <4>2. past \subseteq past'
            /\ (box["answer"] # <<>> \/ (\E p \in Pids : inbox[p] # <<>>) => "crossed" \in past')
        <5>1. ~(mgr.n <= 0)
          BY <1>1, <1>4 DEF Places
        <5>2. past' = past \cup (IF mgr.dir = "left" THEN {"moved_left"} ELSE {})
                 \cup (IF box["answer"] # <<>> \/ \E p \in Pids : inbox[p] # <<>>
                       THEN {"crossed"} ELSE {})
          BY <5>1 DEF BeginTransfer
        <5> QED  BY <5>2
      <4> QED  BY <1>2, <4>1, <4>2 DEF Still
    <3>3. "obtain" \in TransferWaits /\ m.cmd = "OBTAIN_MIN"
      BY <2>3, <3>1 DEF TransferWaits
    <3> HIDE DEF cmd
    <3>4. EndPlaces' /\ LeftInv' /\ MoveInv'
      <4>1. /\ inbox' = Post(inbox, Ender, m) /\ (Still' => Still)
            /\ mgr' = [mgr EXCEPT !.wait = "obtain", !.newsep = NoOne]
            /\ Ender = IF "obtain" = "add" THEN Heir ELSE Ender
            /\ m.cmd = CASE "obtain" = "obtain" -> "OBTAIN_MIN" [] "obtain" = "next" -> "OBTAIN_NEXT"
                        [] "obtain" = "add" -> "ADD" [] OTHER -> "DISPOSE"
            /\ mgr.wait \in {"move", "obtain", "next", "add"}
        BY <1>1, <2>2, <3>1, <3>2, <3>3
      <4> HIDE DEF EndPlaces, LeftInv, MoveInv, Still, Ending, Ender, Heir
      <4> QED  BY <1>2, <2>3, <3>1, <3>2, <3>3, <4>1, MoveOn
    <3> QED  BY <1>1, <2>5, <3>4, GoneAside DEF EndInv
  <2> QED  BY <2>6, <2>7
<1> QED  BY <1>3, <1>4

(* A list with nothing in it.                                              *)
LEMMA SequenceEmpty ==
  ASSUME NEW S
  PROVE  \A t \in Seq(S) : Len(t) = 0 => t = <<>>
OBVIOUS

(* What an answer in a transfer is sent on as, when a server ends.         *)
LEMMA EndSentOn ==
  ASSUME TypeInv, EndInv, TransferAnswer, Ending, mgr.wait # "dispose",
         Head(box["answer"]).status = "OK"
  PROVE  EndPlaces' /\ LeftInv' /\ MoveInv' /\ ToServers
<1> DEFINE a == Head(box["answer"])
<1>1. /\ MailType /\ mgr \in Places /\ mgr.wait \in {"obtain", "next", "add"} /\ mgr.dir = "left"
      /\ box \in [Boxes -> Seq(Asking)] /\ box["answer"] \in Seq(Answering) /\ box["answer"] # <<>>
      /\ box' = [box EXCEPT !["answer"] = Tail(@)]
      /\ UNCHANGED <<proc, store, servers, past, faults>>
  BY DEF TypeInv, MgrType, MailType, TransferAnswer, EndInv, EndPlaces, TransferWaits, Outside, data
<1>2. /\ Len(servers) = 2 /\ 1 \in DOMAIN servers /\ 2 \in DOMAIN servers
      /\ Ender \in Pids /\ Heir \in Pids /\ From = Ender /\ To = Heir
  BY <1>1, BothThere DEF From, To, Ender, Heir
<1>3. a \in Answering /\ a \in Asking
  BY <1>1 DEF Answering
<1>4. Still' => Still
  BY <1>1 DEF Still
<1>5. ASSUME Still', proc[Ender] = "up"
      PROVE  box'["answer"] = <<>> /\ Movable(a) /\ \A p \in Pids : None(inbox[p], Awake)
  <2>1. /\ \A p \in Pids : p # Mover => None(inbox[p], Awake)
        /\ MoveLost \/ MoveAsked \/ MoveAnswered
    BY <1>1, <1>4, <1>5 DEF EndInv, MoveInv, TransferWaits
  <2>2. MoveAnswered
    BY <1>1, <2>1 DEF MoveLost, MoveAsked
  <2>3. Len(box["answer"]) = 1 /\ None(inbox[Mover], Awake) /\ Movable(a)
    BY <1>1, <2>2 DEF MoveAnswered
  <2>4. box'["answer"] = <<>>
    <3>1. PICK s \in Seq(Answering) : s = box["answer"] /\ Len(s) = 1
      BY <1>1, <2>3
    <3>2. Tail(s) = <<>>
      <4>1. Tail(s) \in Seq(Answering) /\ Len(Tail(s)) = 0
        BY <3>1
      <4>2. \A t \in Seq(Answering) : Len(t) = 0 => t = <<>>
        BY SequenceEmpty
      <4> QED  BY <4>1, <4>2
    <3> QED  BY <1>1, <3>1, <3>2 DEF Boxes
  <2> QED  BY <2>1, <2>3, <2>4
<1> HIDE DEF a
<1>6. ASSUME NEW cmd \in {"OBTAIN_NEXT", "ADD", "DISPOSE"}, NEW wait, NEW sep, NEW p,
             wait = CASE cmd = "OBTAIN_NEXT" -> "next" [] cmd = "ADD" -> "add" [] OTHER -> "dispose",
             p = IF cmd = "ADD" THEN Heir ELSE Ender,
             Send(p, a, cmd, wait, sep)
      PROVE  EndPlaces' /\ LeftInv' /\ MoveInv' /\ ToServers
  <2> DEFINE m == [a EXCEPT !.cmd = cmd]
  <2>1. m \in Asking /\ m.cmd = cmd /\ m.coll = a.coll /\ m.key = a.key
    <3>1. m \in Asking /\ m.cmd = cmd
      <4>1. cmd \in {"OBTAIN_MIN", "OBTAIN_MAX", "OBTAIN_NEXT", "ADD", "DISPOSE"}
        OBVIOUS
      <4>2. a.status = "OK"
        BY DEF a
      <4> HIDE DEF m
      <4> QED  BY <1>3, <4>1, <4>2, SentOnType DEF m
    <3> QED  BY <1>3, <3>1 DEF Asking, Message
  <2>2. mgr' = [mgr EXCEPT !.wait = wait, !.newsep = sep] /\ inbox' = Post(inbox, p, m)
    BY <1>6 DEF Send
  <2> HIDE DEF m
  <2>3. /\ wait \in TransferWaits /\ wait # "obtain"
        /\ p = IF wait = "add" THEN Heir ELSE Ender
        /\ m.cmd = CASE wait = "obtain" -> "OBTAIN_MIN" [] wait = "next" -> "OBTAIN_NEXT"
                     [] wait = "add"    -> "ADD"        [] OTHER         -> "DISPOSE"
    BY <1>6, <2>1 DEF TransferWaits
  <2>4. PICK q \in Pids : q = p
    BY <1>2, <1>6
  <2>5. ToServers
    <3>1. p \in {servers[1], servers[2]}
      BY <1>6 DEF Ender, Heir
    <3> QED  BY <1>1, <1>2, <2>2, <3>1, PostTo
  <2>6. Still' /\ proc[Ender] = "up" =>
          /\ box'["answer"] = <<>> /\ \A r \in Pids : None(inbox[r], Awake)
          /\ m.coll = Head(mgr.todo)
          /\ wait # "obtain" => Movable(m)
    <3>1. Movable(a) => Movable(m) /\ m.coll = Head(mgr.todo)
      BY <2>1 DEF Movable
    <3> QED  BY <1>5, <3>1
  <2>7. q = (IF wait = "add" THEN Heir ELSE Ender) /\ inbox' = Post(inbox, q, m)
    BY <2>2, <2>3, <2>4
  <2>8. mgr.wait \in {"move", "obtain", "next", "add"} /\ LeftInv /\ TypeInv
    BY <1>1 DEF EndInv
  <2>9. EndPlaces' /\ LeftInv' /\ MoveInv'
    <3> HIDE DEF EndPlaces, LeftInv, MoveInv, Still, Ending, Ender, Heir, TypeInv
    <3> QED  BY <1>1, <1>4, <2>1, <2>2, <2>3, <2>6, <2>7, <2>8, MoveOn
  <2> QED  BY <2>5, <2>9
<1>7. \/ Send(Ender, a, "OBTAIN_NEXT", "next", NoOne)
      \/ Send(Heir, a, "ADD", "add", a.key)
      \/ Send(Ender, a, "DISPOSE", "dispose", mgr.newsep)
  BY <1>1, <1>2 DEF TransferAnswer, a
<1> HIDE DEF Send, EndPlaces, LeftInv, MoveInv, ToServers
<1>8. CASE Send(Ender, a, "OBTAIN_NEXT", "next", NoOne)
  BY <1>6, <1>8
<1>9. CASE Send(Heir, a, "ADD", "add", a.key)
  BY <1>6, <1>9
<1>10. CASE Send(Ender, a, "DISPOSE", "dispose", mgr.newsep)
  BY <1>6, <1>10
<1> QED  BY <1>7, <1>8, <1>9, <1>10

(* The answer to a message of a transfer.                                  *)
LEMMA EndTransferAnswer ==
  ASSUME TypeInv, EndInv, TransferAnswer
  PROVE  EndInv'
<1>1. /\ Aside /\ mgr.wait \in TransferWaits /\ mgr'.wait # "count"
      /\ MailType /\ mgr \in Places /\ mgr.job # "none" /\ MgrType
  BY AsideTransfer DEF TypeInv, MgrType
<1>2. /\ box["answer"] # <<>> /\ UNCHANGED <<proc, store, servers, past, faults>>
      /\ box' = [box EXCEPT !["answer"] = Tail(@)]
  BY DEF TransferAnswer, Outside, data
<1>3. Still' => Still
  BY <1>2 DEF Still
<1>4. CASE mgr.wait = "dispose"
  <2>1. EndTransfer
    BY <1>4 DEF TransferAnswer
  <2>2. /\ mgr'.wait = "move" /\ mgr'.n = mgr.n - 1 /\ mgr'.job = mgr.job
        /\ mgr'.todo = mgr.todo /\ mgr'.dir = mgr.dir /\ inbox' = inbox
    BY <1>1, <2>1 DEF EndTransfer, Places
  <2>3. ToServers
    BY <2>2 DEF ToServers
  <2>4. EndPlaces' /\ MoveInv'
    BY <1>1, <2>2 DEF EndInv, EndPlaces, Ending, MoveInv, Moving, TransferWaits
  <2>5. LeftInv'
    <3>1. SUFFICES ASSUME Still', Ending', proc'[Ender'] = "up"  PROVE Emptied'
      BY DEF LeftInv
    <3>2. Still /\ Ending /\ proc[Ender] = "up" /\ Ender' = Ender
      BY <1>2, <1>3, <2>2, <3>1 DEF Ending, Ender
    <3>3. Emptied
      BY <1>4, <3>2 DEF EndInv, LeftInv, Untouched
    <3>4. None(inbox[Ender], Told)
      <4>1. MoveAnswered
        BY <1>1, <1>2, <3>2 DEF EndInv, MoveInv, MoveLost, MoveAsked
      <4>2. None(inbox[Ender], Awake)
        BY <1>4, <4>1 DEF MoveAnswered, Mover
      <4> QED  BY <4>2 DEF None, Told
    <3>5. Remaining = mgr.n - 1 /\ Remaining' = mgr.n - 1
      BY <1>2, <1>4, <2>2 DEF Remaining
    <3> QED  BY <1>1, <1>2, <2>2, <3>2, <3>3, <3>4, <3>5 DEF Emptied, TransferWaits
  <2> QED  BY <1>1, <2>3, <2>4, <2>5, GoneAside DEF EndInv
<1>5. CASE mgr.wait # "dispose" /\ Head(box["answer"]).status # "OK"
  <2>1. GiveUp /\ UNCHANGED inbox
    BY <1>5 DEF TransferAnswer
  <2>2. OffDuty /\ ToServers
    BY <1>1, <2>1, GiveUpOffDuty DEF ToServers
  <2> QED  BY <1>1, <2>2, EndAside
<1>6. CASE mgr.wait # "dispose" /\ Head(box["answer"]).status = "OK" /\ Ending
  BY <1>1, <1>6, EndSentOn, GoneAside DEF EndInv
<1>7. CASE mgr.wait # "dispose" /\ Head(box["answer"]).status = "OK" /\ ~Ending
  <2> DEFINE m == Head(box["answer"])
  <2>1. \E cmd, sep, p : \E wait \in {"next", "add", "dispose"} :
          p \in {From, To} /\ Send(p, m, cmd, wait, sep)
    <3>1. \/ Send(From, m, "OBTAIN_NEXT", "next", NoOne)
          \/ Send(To, m, "ADD", "add", m.key)
          \/ Send(From, m, "DISPOSE", "dispose", mgr.newsep)
      BY <1>7 DEF TransferAnswer
    <3> HIDE DEF Send, From, To, m
    <3>2. CASE Send(From, m, "OBTAIN_NEXT", "next", NoOne)
      BY <3>2
    <3>3. CASE Send(To, m, "ADD", "add", m.key)
      BY <3>3
    <3>4. CASE Send(From, m, "DISPOSE", "dispose", mgr.newsep)
      BY <3>4
    <3> QED  BY <3>1, <3>2, <3>3, <3>4
  <2> HIDE DEF m
  <2>2. PICK cmd, sep, p : \E wait \in {"next", "add", "dispose"} :
          p \in {From, To} /\ Send(p, m, cmd, wait, sep)
    BY <2>1
  <2>3. mgr'.wait \in {"next", "add", "dispose"} /\ mgr'.job = mgr.job
    BY <1>1, <2>2 DEF Send, Places
  <2>4. OffDuty
    BY <1>7, <2>3 DEF OffDuty, Ending, Moving, TransferWaits
  <2>5. ToServers
    <3>1. 1 \in DOMAIN servers /\ Len(servers) \in DOMAIN servers
      <4>1. Len(servers) = 2 /\ servers \in Seq(Pids)
        BY <1>1 DEF MgrType, MaxServers, TypeInv, KnownType
      <4> QED  BY <4>1
    <3>2. p \in {servers[1], servers[Len(servers)]}
      BY <2>2 DEF From, To
    <3>3. inbox' = Post(inbox, p, [m EXCEPT !.cmd = cmd])
      BY <2>2 DEF Send
    <3> QED  BY <1>1, <3>1, <3>2, <3>3, PostTo
  <2> QED  BY <1>1, <2>4, <2>5, EndAside
<1> QED  BY <1>4, <1>5, <1>6, <1>7

(* No answer comes any more.                                               *)
LEMMA EndTransferTimeout ==
  ASSUME TypeInv, EndInv, TransferTimeout
  PROVE  EndInv'
<1>1. /\ Aside /\ mgr.wait \in TransferWaits /\ mgr \in Places /\ mgr.job # "none" /\ MailType
      /\ faults \in Nat
  BY AsideTransfer, ClusterAssumption DEF TypeInv, MgrType, HistoryType
<1>2. UNCHANGED <<box, proc, store, servers, past>> /\ RunsOut("answer")
  BY DEF TransferTimeout, Outside, data
<1>3. CASE mgr.wait # "dispose"
  <2>1. GiveUp /\ UNCHANGED inbox
    BY <1>3 DEF TransferTimeout
  <2>2. OffDuty /\ ToServers
    BY <1>1, <2>1, GiveUpOffDuty DEF ToServers
  <2> QED  BY <1>1, <2>2, EndAside
<1>4. CASE mgr.wait = "dispose"
  <2>1. EndTransfer
    BY <1>4 DEF TransferTimeout
  <2>2. /\ mgr'.wait = "move" /\ mgr'.job = mgr.job /\ mgr'.dir = mgr.dir /\ inbox' = inbox
    BY <1>1, <2>1 DEF EndTransfer, Places
  <2>3. ToServers
    BY <2>2 DEF ToServers
  <2>4. EndPlaces' /\ MoveInv'
    BY <1>1, <2>2 DEF EndInv, EndPlaces, Ending, MoveInv, Moving, TransferWaits
  <2>5. LeftInv'
    <3>1. SUFFICES ASSUME Still', Ending', proc'[Ender'] = "up"  PROVE FALSE
      BY DEF LeftInv
    <3>2. Ending /\ proc[Ender] = "up"
      BY <1>2, <2>2, <3>1 DEF Ending, Ender
    <3>3. Still /\ box["answer"] = <<>> /\ \A p \in Pids : inbox[p] = <<>>
      BY <1>1, <1>2, <3>1 DEF RunsOut, Still
    <3>4. MoveLost \/ MoveAsked \/ MoveAnswered
      BY <1>1, <3>2, <3>3 DEF EndInv, MoveInv
    <3>5. ~MoveLost
      BY <1>4, <3>2 DEF MoveLost, Mover
    <3>6. ~MoveAsked
      <4>1. Ender \in Pids
        BY <3>2, BothThere
      <4>2. inbox[Mover] = <<>>
        BY <1>4, <3>3, <4>1 DEF Mover
      <4> QED  BY <4>2 DEF MoveAsked, One
    <3>7. ~MoveAnswered
      BY <3>3 DEF MoveAnswered
    <3> QED  BY <3>4, <3>5, <3>6, <3>7
  <2> QED  BY <1>1, <2>3, <2>4, <2>5, GoneAside DEF EndInv
<1> QED  BY <1>3, <1>4

-----------------------------------------------------------------------------
(* Nobody ends at the start.                                               *)
LEMMA EndInit ==
  ASSUME Init
  PROVE  EndInv
<1>1. /\ mgr = At("setup") /\ inbox = [p \in Pids |-> IF p = 1 THEN <<SetUp>> ELSE <<>>]
      /\ box = [b \in Boxes |-> <<>>]
  BY DEF Init, SetUp
<1>2. mgr.job = "none" /\ mgr.wait = "setup"
  BY <1>1, AtType DEF Waits
<1> HIDE DEF SetUp
<1>3. \A p \in Pids : inbox[p] = <<SetUp>> \/ inbox[p] = <<>>
  BY <1>1
<1>4. \A p \in Pids : None(inbox[p], {"TERMINATE"})
  BY <1>3, SetUpAlone, NothingThere
<1>5. box["added"] = <<>> /\ box["disposed"] = <<>>
  BY <1>1 DEF Boxes
<1>6. EndPlaces /\ LeftInv /\ MoveInv
  BY <1>2 DEF EndPlaces, LeftInv, MoveInv, Ending
<1>7. GoneInv /\ BackInv
  BY <1>2, <1>4, <1>5 DEF GoneInv, BackInv, Elsewise
<1> QED  BY <1>6, <1>7 DEF EndInv

(* One step, by who takes it.                                              *)
LEMMA EndStep ==
  ASSUME TypeInv, StructInv, CountInv, EndInv, [Next]_vars
  PROVE  EndInv'
<1>1. PidInv /\ BroadcastInv /\ KnowsInv
  BY DEF StructInv
<1>2. CASE UNCHANGED vars \/ \E c \in Clients : Request(c) \/ Client(c)
  <2>1. UNCHANGED <<proc, inbox, box, store, servers, mgr, faults, past>>
    BY <1>2 DEF vars, mail, data, Request, Client, TakeReply, TakeRangeReply, ClientTimeout
  <2> QED  BY <2>1, EndSame
<1>3. CASE \E p \in Pids : Server(p)
  BY <1>1, <1>3, EndServed
<1>4. CASE Manager
  BY <1>1, <1>4, EndForward, EndStruct, EndBroadcasts, EndNextPath, EndCounts, EndBegin,
     EndTransferAnswer, EndTransferTimeout, EndSetupAnswer, EndSetupTimeout, EndHandleShutdown
     DEF Manager
<1>5. CASE Terminal
  BY <1>1, <1>5, EndRun, EndTerminate, EndShutdown DEF Terminal
<1> QED  BY <1>2, <1>3, <1>4, <1>5 DEF Next

(* The invariant holds throughout.                                         *)
LEMMA EndInvHolds == Spec => [](TypeInv /\ EndInv)
<1>1. Init => EndInv
  BY EndInit
<1>2. TypeInv /\ StructInv /\ CountInv /\ EndInv /\ [Next]_vars => EndInv'
  BY EndStep
<1>3. Spec => [](TypeInv /\ StructInv) /\ [](TypeInv /\ CountInv /\ SafeInv)
  BY StructInvHolds, SafeInvHolds
<1> QED  BY <1>1, <1>2, <1>3, PTL DEF Spec

(* A server that is told to end has handed all it had to its neighbour:    *)
(* no key goes with it, as long as nothing was late, no keys began to move *)
(* with a message under way, and no count that a server answered when it   *)
(* was to end was lower than the keys it had.                              *)
THEOREM EndedServersAreEmpty == Spec => EndedEmpty
<1> DEFINE Empty == \A p \in Pids :
             Serves(p, {"TERMINATE"}) /\ proc'[p] = "gone" /\ Orderly({"crossed", "short_count"}) =>
             \A c \in DOMAIN store[p] : store[p][c] = {}
<1>1. TypeInv /\ EndInv => Empty
  <2>1. SUFFICES ASSUME TypeInv, EndInv, NEW p \in Pids, Serves(p, {"TERMINATE"}), Orderly({"crossed", "short_count"})
                 PROVE  \A c \in DOMAIN store[p] : store[p][c] = {}
    OBVIOUS
  <2>2. Still /\ proc[p] = "up"
    BY <2>1 DEF Still, Orderly, Serves
  <2>3. ~None(inbox[p], {"TERMINATE"})
    <3>1. PICK s \in Seq(Asking) : s = inbox[p] /\ s # <<>> /\ Head(s).cmd = "TERMINATE"
      BY <2>1 DEF TypeInv, MailType, Serves
    <3>2. 1 \in DOMAIN s /\ s[1].cmd = "TERMINATE"
      BY <3>1
    <3> QED  BY <3>1, <3>2 DEF None
  <2> QED  BY <2>1, <2>2, <2>3 DEF EndInv, GoneInv, Bequeathed
<1>2. TypeInv /\ EndInv => [Empty]_vars
  BY <1>1
<1>3. Spec => [](TypeInv /\ EndInv)
  BY EndInvHolds
<1> HIDE DEF Empty
<1>4. Spec => [][Empty]_vars
  BY <1>1, <1>3, PTL
<1> QED  BY <1>4 DEF EndedEmpty, Empty

-----------------------------------------------------------------------------
(* Ranges, with one client.  Nothing was late, nothing was in the way of   *)
(* the keys that moved, they moved to the right, no schema was disposed    *)
(* with what is in it, and no server that ends was counted too low.        *)
Settled == run /\ Orderly({"crossed", "moved_left", "dropped_above", "short_count"})

(* What is over stays over, whatever the step.                             *)
LEMMA TimeGoesOn ==
  ASSUME TypeInv, [Next]_vars
  PROVE  /\ past \subseteq past' /\ (faults' = 0 => faults = 0) /\ (run' => run)
         /\ Settled' => Settled
<1>1. faults \in Nat
  BY ClusterAssumption DEF TypeInv, HistoryType
<1>2. \A b : RunsOut(b) => (faults' = 0 => faults = 0)
  BY <1>1 DEF RunsOut
<1>3. past \subseteq past' /\ (faults' = 0 => faults = 0) /\ (run' => run)
  <2>1. CASE UNCHANGED vars \/ \E c \in Clients : Request(c) \/ Client(c)
    <3>1. UNCHANGED <<past, faults, run>>
      BY <2>1 DEF vars, Request, Client, TakeReply, TakeRangeReply, ClientTimeout
    <3> QED  BY <3>1
  <2>2. CASE \E p \in Pids : Server(p)
    <3>1. PICK p \in Pids : Server(p)
      BY <2>2
    <3>2. run' = run
      BY <3>1 DEF Server, ServeSetup, ServeAddStruct, ServeDisposeStruct, ServeCount, ServeData, NoMemory,
           ServeRange, ServeEnd, LoseQueue, Elsewhere
    <3> QED  BY <3>1, <3>2, ServerSteps DEF ServerStep
  <2>3. CASE Manager
    <3>1. CASE ForwardAnswer \/ ForwardRequest \/ HandleStruct
      BY <3>1 DEF ForwardAnswer, ForwardRequest, HandleStruct, Outside
    <3>2. CASE AddStructGoesOn \/ RollbackGoesOn \/ DisposeStructGoesOn
      <4>1. UNCHANGED <<past, run>> /\ \E b, m : Received(b, m)
        BY <3>2 DEF AddStructGoesOn, RollbackGoesOn, DisposeStructGoesOn, Outside
      <4>2. faults' = 0 => faults = 0
        BY <1>2, <4>1 DEF Received
      <4> QED  BY <4>1, <4>2
    <3>3. CASE NextPath \/ CountAnswer \/ CountTimeout
      BY <1>2, <3>3 DEF NextPath, CountAnswer, CountTimeout, Outside
    <3>4. CASE BeginTransfer \/ TransferAnswer \/ TransferTimeout
      BY <1>2, <3>4 DEF BeginTransfer, TransferAnswer, TransferTimeout, Outside
    <3>5. CASE SetupAnswer \/ SetupTimeout \/ HandleShutdown
      BY <1>2, <3>5 DEF SetupAnswer, SetupTimeout, HandleShutdown, Outside
    <3> QED  BY <2>3, <3>1, <3>2, <3>3, <3>4, <3>5 DEF Manager
  <2>4. CASE Terminal
    BY <2>4 DEF Terminal, HandleRun, HandleTerminate, TypeShutdown, Outside
  <2> QED  BY <2>1, <2>2, <2>3, <2>4 DEF Next
<1> QED  BY <1>3 DEF Settled, Orderly

(* How the manager sends: to one of its servers, or a request to some.     *)
LEMMA ManagerPosts ==
  ASSUME TypeInv, PidInv, BackInv, Manager
  PROVE  \/ SetupTimeout
         \/ /\ UNCHANGED <<proc, spawned, has, store, client, run>>
            /\ \/ inbox' = inbox
               \/ ForwardRequest
               \/ \E j \in DOMAIN servers : \E m : m.cmd \in Awake /\ inbox' = Post(inbox, servers[j], m)
<1>1. ~SetupTimeout => UNCHANGED <<proc, spawned, has, store, client, run>>
  BY DEF Manager, ForwardAnswer, ForwardRequest, HandleStruct, AddStructGoesOn, RollbackGoesOn,
     DisposeStructGoesOn, NextPath, CountAnswer, CountTimeout, BeginTransfer, TransferAnswer,
     TransferTimeout, SetupAnswer, HandleShutdown, Outside, mail, data
<1>2. /\ mgr \in Places /\ Structural \cup Plain \cup {"GET_RECORDS_CNT", "TERMINATE"} \subseteq Awake
      /\ servers \in Seq(Pids) /\ Len(servers) \in Nat /\ DOMAIN servers = 1 .. Len(servers)
      /\ Collections \cup {NoOne} = {NoOne} \cup Collections
  BY DEF TypeInv, MgrType, KnownType, Awake, Commands, Structural, Plain, DataChanges, AddStruct, DropStruct
<1> DEFINE Posted == \E j \in DOMAIN servers : \E m : m.cmd \in Awake /\ inbox' = Post(inbox, servers[j], m)
           Goal == SetupTimeout \/ inbox' = inbox \/ ForwardRequest \/ Posted
<1> SUFFICES Goal
  BY <1>1
<1>a. ASSUME NEW j \in DOMAIN servers, NEW m, m.cmd \in Awake, inbox' = Post(inbox, servers[j], m)
      PROVE  Posted
  BY <1>a
<1> HIDE DEF Posted
<1>3. ASSUME NEW i \in DOMAIN servers, NEW m, NEW wait, m.cmd \in Structural, SendStruct(i, m, wait)
      PROVE  Posted
  BY <1>a, <1>2, <1>3, StructSent
<1>4. CASE ForwardAnswer \/ CountTimeout \/ SetupAnswer \/ SetupTimeout \/ HandleShutdown
  BY <1>4 DEF ForwardAnswer, CountTimeout, SetupAnswer, SetupTimeout, HandleShutdown, mail
<1>5. CASE HandleStruct
  <2>1. Asked(Structural)
    BY <1>5 DEF HandleStruct, Structural
  <2>2. inbox' = inbox \/ (servers # <<>> /\ \E wait : SendStruct(1, Head(requests), wait))
    BY <1>5 DEF HandleStruct
  <2>3. servers # <<>> => 1 \in DOMAIN servers
    BY <1>2
  <2> QED  BY <1>3, <2>1, <2>2, <2>3 DEF Asked
<1>6. CASE AddStructGoesOn \/ RollbackGoesOn \/ DisposeStructGoesOn
  <2>1. mgr.wait \in Elsewise /\ UNCHANGED past
    BY <1>6 DEF Elsewise, AddStructGoesOn, RollbackGoesOn, DisposeStructGoesOn
  <2>2. mgr.i \in DOMAIN servers
    BY <2>1 DEF BackInv
  <2>3. \/ inbox' = inbox
        \/ \E b \in {"added", "disposed"} : \E m, n, i, wait :
             /\ Received(b, m) /\ SendStruct(i, n, wait)
             /\ \/ n = m /\ i = mgr.i + 1 /\ mgr.i < Len(servers)
                \/ n = [m EXCEPT !.status = "OK", !.cmd = DisposeOf(@)] /\ i = mgr.i - 1 /\ mgr.i > 1
                \/ n = [m EXCEPT !.status = "OK"] /\ i = mgr.i
    BY <1>6 DEF AddStructGoesOn, RollbackGoesOn, DisposeStructGoesOn
  <2>4. CASE inbox' # inbox
    <3>1. PICK b \in {"added", "disposed"} : \E m, n, i, wait :
             /\ Received(b, m) /\ SendStruct(i, n, wait)
             /\ \/ n = m /\ i = mgr.i + 1 /\ mgr.i < Len(servers)
                \/ n = [m EXCEPT !.status = "OK", !.cmd = DisposeOf(@)] /\ i = mgr.i - 1 /\ mgr.i > 1
                \/ n = [m EXCEPT !.status = "OK"] /\ i = mgr.i
      BY <2>3, <2>4
    <3>6. PICK m, n, i, wait :
             /\ Received(b, m) /\ SendStruct(i, n, wait)
             /\ \/ n = m /\ i = mgr.i + 1 /\ mgr.i < Len(servers)
                \/ n = [m EXCEPT !.status = "OK", !.cmd = DisposeOf(@)] /\ i = mgr.i - 1 /\ mgr.i > 1
                \/ n = [m EXCEPT !.status = "OK"] /\ i = mgr.i
      BY <3>1
    <3>2. m \in Asking /\ m.cmd \in Structural
      BY <2>1, <3>6, BackReceived
    <3>3. /\ [m EXCEPT !.status = "OK", !.cmd = DisposeOf(@)].cmd \in Structural
          /\ [m EXCEPT !.status = "OK"].cmd = m.cmd
      BY <3>2 DEF Asking, Message, DisposeOf, Structural, DropStruct
    <3>4. n.cmd \in Structural
      BY <3>6, <3>2, <3>3
    <3>5. i \in DOMAIN servers
      BY <1>2, <2>2, <3>6
    <3> QED  BY <1>3, <3>6, <3>4, <3>5
  <2> QED  BY <2>4
<1>7. CASE NextPath
  <2>1. mgr.todo # <<>> => Head(mgr.todo) \in Collections \cup {NoOne}
    BY <1>2 DEF Places
  <2>2. OwnMsg("TERMINATE", NoOne).cmd = "TERMINATE"
    BY OwnMsgType
  <2>3. mgr.todo # <<>> => OwnMsg("GET_RECORDS_CNT", Head(mgr.todo)).cmd = "GET_RECORDS_CNT"
    BY <2>1, OwnMsgType
  <2>4. servers # <<>> => 1 \in DOMAIN servers /\ Len(servers) \in DOMAIN servers
    BY <1>2
  <2>5. CASE mgr.todo = <<>> /\ mgr.job = "terminate"
    <3>1. inbox' = Post(inbox, servers[Len(servers)], OwnMsg("TERMINATE", NoOne)) /\ servers # <<>>
      <4>1. LetGo
        BY <1>7, <2>5 DEF NextPath
      <4>2. Len(servers) = 2
        BY <2>5 DEF TypeInv, MgrType, MaxServers
      <4>3. servers # <<>>
        BY <4>2
      <4> QED  BY <4>1, <4>3 DEF LetGo
    <3> QED  BY <1>a, <1>2, <2>2, <2>4, <3>1
  <2>6. CASE mgr.todo = <<>> /\ mgr.job # "terminate"
    BY <1>7, <2>6 DEF NextPath
  <2>7. CASE mgr.todo # <<>>
    <3> DEFINE i == IF mgr.job = "terminate" THEN Len(servers) ELSE 1
    <3>1. inbox' = Post(inbox, servers[i], OwnMsg("GET_RECORDS_CNT", Head(mgr.todo)))
      BY <1>7, <2>7 DEF NextPath, AskCount
    <3>2. servers # <<>>
      BY <2>7 DEF TypeInv, MgrType, KnownType
    <3>3. i \in DOMAIN servers
      BY <2>4, <3>2
    <3> HIDE DEF i
    <3> QED  BY <1>a, <1>2, <2>3, <2>7, <3>1, <3>3
  <2> QED  BY <2>5, <2>6, <2>7
<1>8. CASE CountAnswer
  <2>1. CASE inbox' = inbox
    BY <2>1
  <2>2. CASE inbox' # inbox
    <3>1. /\ mgr'.i \in DOMAIN servers
          /\ inbox' = Post(inbox, servers[mgr'.i], OwnMsg("GET_RECORDS_CNT", Head(mgr.todo)))
      BY <1>8, <2>2, CountsOn
    <3>2. Head(mgr.todo) \in Collections \cup {NoOne}
      <4>1. mgr.todo # <<>>
        BY <1>8 DEF TypeInv, MgrType, CountAnswer
      <4> QED  BY <1>2, <4>1 DEF Places
    <3>3. OwnMsg("GET_RECORDS_CNT", Head(mgr.todo)).cmd = "GET_RECORDS_CNT"
      BY <3>2, OwnMsgType
    <3> QED  BY <1>a, <1>2, <3>1, <3>3
  <2> QED  BY <2>1, <2>2
<1>9. CASE BeginTransfer \/ TransferAnswer \/ TransferTimeout
  <2>1. inbox' # inbox =>
          /\ mgr.wait \in TransferWaits \/ mgr.n > 0
          /\ \E p \in {From, To}, m \in Asking, wait \in TransferWaits : \E cmd, sep :
               Send(p, m, cmd, wait, sep) /\ cmd \in Plain
    <3>1. CASE BeginTransfer
      <4>1. CASE mgr.n > 0
        <5>1. OwnMsg("none", Head(mgr.todo)) \in Asking
          <6>1. mgr.todo # <<>>
            BY <3>1 DEF TypeInv, MgrType, BeginTransfer
          <6>2. Head(mgr.todo) \in Collections \cup {NoOne}
            BY <1>2, <6>1 DEF Places
          <6> QED  BY <6>2, OwnMsgType
        <5> DEFINE cmd == IF mgr.dir = "left" THEN "OBTAIN_MIN" ELSE "OBTAIN_MAX"
                   m == OwnMsg("none", Head(mgr.todo))
        <5>2. Send(From, m, cmd, "obtain", NoOne)
          <6> HIDE DEF Send, From, OwnMsg
          <6>1. mgr.n \in Int /\ ~(mgr.n <= 0)
            BY <1>2, <4>1 DEF Places
          <6> QED  BY <3>1, <4>1, <6>1 DEF BeginTransfer
        <5>3. cmd \in Plain
          BY DEF Plain
        <5> HIDE DEF cmd, m
        <5> QED  BY <4>1, <5>1, <5>2, <5>3 DEF TransferWaits, m
      <4>2. CASE ~(mgr.n > 0)
        BY <3>1, <4>2 DEF BeginTransfer
      <4> QED  BY <4>1, <4>2
    <3>2. CASE TransferAnswer
      <4>1. Head(box["answer"]) \in Asking
        <5>1. box["answer"] \in Seq(Asking) /\ box["answer"] # <<>>
          BY <3>2 DEF TransferAnswer, TypeInv, MailType, Boxes
        <5> QED  BY <5>1
      <4>2. mgr.wait \in TransferWaits
        BY <3>2 DEF TransferAnswer, TransferWaits
      <4>3. inbox' = inbox \/ \E p \in {From, To}, cmd \in Plain, wait \in TransferWaits : \E sep :
               Send(p, Head(box["answer"]), cmd, wait, sep)
        <5>1. CASE mgr.wait = "dispose" /\ EndTransfer
          BY <5>1 DEF EndTransfer
        <5>2. CASE mgr.wait # "dispose" /\ Head(box["answer"]).status # "OK" /\ UNCHANGED inbox
          BY <5>2
        <5>3. CASE \E p \in {From, To} : \E cmd, wait, sep :
                     Send(p, Head(box["answer"]), cmd, wait, sep) /\ cmd \in {"OBTAIN_NEXT", "ADD", "DISPOSE"} /\ wait \in {"next", "add", "dispose"}
          BY <5>3 DEF Plain, DataChanges, TransferWaits
        <5> QED  BY <3>2, <4>2, <5>1, <5>2, <5>3 DEF TransferAnswer, TransferWaits
      <4> HIDE DEF Send
      <4> QED  BY <4>1, <4>2, <4>3
    <3>3. CASE TransferTimeout
      BY <3>3 DEF TransferTimeout, EndTransfer
    <3> QED  BY <1>9, <3>1, <3>2, <3>3
  <2>2. CASE inbox' # inbox
    <3>1. PICK p \in {From, To}, m \in Asking, cmd \in Plain, wait \in TransferWaits : \E sep : Send(p, m, cmd, wait, sep)
      BY <2>1, <2>2
    <3>2. Len(servers) = 2
      BY <2>1, <2>2 DEF TypeInv, MgrType, MaxServers
    <3>3. \E j \in DOMAIN servers : p = servers[j]
      BY <1>2, <3>1, <3>2 DEF From, To
    <3>4. inbox' = Post(inbox, p, [m EXCEPT !.cmd = cmd]) /\ [m EXCEPT !.cmd = cmd].cmd = cmd
      BY <3>1 DEF Send, Asking, Message
    <3> QED  BY <1>a, <1>2, <3>1, <3>3, <3>4
  <2> QED  BY <2>2
<1> QED  BY <1>4, <1>5, <1>6, <1>7, <1>8, <1>9 DEF Manager

IsServer(p) == \E j \in DOMAIN servers : servers[j] = p

(* What reaches an inbox is for a server that is there.                    *)
LEMMA ManagerSends ==
  ASSUME TypeInv, PidInv, BackInv, Manager, ~SetupTimeout
  PROVE  \A p \in Pids :
           \/ inbox'[p] = inbox[p]
           \/ /\ proc[p] = "up" /\ IsServer(p)
              /\ \E m : m.cmd \in Awake /\ inbox'[p] = Append(inbox[p], m)
<1>1. inbox \in [Pids -> Seq(Asking)] /\ Plain \subseteq Awake
  BY DEF TypeInv, MailType, Plain, Awake, Commands, DataChanges
<1>2. CASE inbox' = inbox
  BY <1>2
<1>3. CASE ForwardRequest
  <2> DEFINE part == [Head(requests) EXCEPT !.cnt = Cardinality(
                        Route(Head(requests).coll, Head(requests).key)
                          .. IF Head(requests).cmd = "OBTAIN_BETWEEN"
                             THEN Route(Head(requests).coll, Head(requests).hi)
                             ELSE Route(Head(requests).coll, Head(requests).key))]
  <2>1. part.cmd \in Plain
    <3>1. Head(requests) \in Asking /\ Head(requests).cmd \in Plain
      BY <1>3, RequestTaken DEF ForwardRequest, TypeInv, Plain
    <3> QED  BY <3>1 DEF Asking, Message
  <2>2. \A p \in Pids : inbox'[p] = inbox[p] \/ (proc[p] = "up" /\ IsServer(p) /\ inbox'[p] = Append(inbox[p], part))
    BY <1>1, <1>3 DEF ForwardRequest, IsServer
  <2> HIDE DEF part
  <2> QED  BY <1>1, <2>1, <2>2
<1>4. ASSUME NEW j \in DOMAIN servers, NEW m, m.cmd \in Awake, inbox' = Post(inbox, servers[j], m)
      PROVE  \A p \in Pids : inbox'[p] = inbox[p] \/ (proc[p] = "up" /\ IsServer(p) /\ inbox'[p] = Append(inbox[p], m))
  BY <1>1, <1>4 DEF Post, IsServer
<1> QED  BY <1>2, <1>3, <1>4, ManagerPosts

(* Who ends leaves nothing.                                                *)
LEMMA ServerGoes ==
  ASSUME TypeInv, NEW q \in Pids, Server(q)
  PROVE  /\ proc'[q] # "up" => Dies(q) /\ store'[q] = EmptyMap /\ inbox'[q] = <<>>
         /\ UNCHANGED <<spawned, requests, replies, servers, seps, changes, mgr, client, run>>
<1>1. proc \in [Pids -> {"unborn", "up", "gone"}] /\ store = [p \in Pids |-> store[p]]
      /\ inbox \in [Pids -> Seq(Asking)]
  BY DEF TypeInv, ServersType, MailType
<1>2. proc[q] = "up"
  BY ServerSteps DEF ServerStep
<1>3. UNCHANGED <<spawned, requests, replies, servers, seps, changes, mgr, client, run>>
  BY DEF Server, ServeSetup, ServeAddStruct, ServeDisposeStruct, ServeCount, ServeData, NoMemory,
         ServeRange, ServeEnd, LoseQueue, Elsewhere
<1>4. Dies(q) \/ proc' = proc
  BY DEF Server, ServeSetup, ServeAddStruct, ServeDisposeStruct, ServeCount, ServeData, NoMemory,
         ServeRange, ServeEnd, LoseQueue
<1> QED  BY <1>1, <1>2, <1>3, <1>4 DEF Dies

-----------------------------------------------------------------------------
(* Who is not there has nothing and is sent nothing, and nobody is told to *)
(* end with the manager before the terminal says so.                       *)
ThereInv ==
  \A p \in Pids : /\ proc[p] # "up" => DOMAIN store[p] = {} /\ inbox[p] = <<>>
                  /\ run => None(inbox[p], {"SHUTDOWN"})

(* Whatever happens, that is so.                                           *)
LEMMA ThereStep ==
  ASSUME TypeInv, PidInv, BackInv, ThereInv, [Next]_vars
  PROVE  ThereInv'
<1>1. /\ proc \in [Pids -> {"unborn", "up", "gone"}] /\ store = [p \in Pids |-> store[p]]
      /\ inbox \in [Pids -> Seq(Asking)] /\ run \in BOOLEAN /\ spawned \in Pids
  BY DEF TypeInv, ServersType, MailType, HistoryType
<1>2. CASE UNCHANGED <<proc, store, inbox, run>>
  BY <1>2 DEF ThereInv
<1>3. CASE \E q \in Pids : Server(q)
  <2>1. PICK q \in Pids : Server(q)
    BY <1>3
  <2>2. SUFFICES ASSUME NEW p \in Pids
                 PROVE  /\ proc'[p] # "up" => DOMAIN store'[p] = {} /\ inbox'[p] = <<>>
                        /\ run' => None(inbox'[p], {"SHUTDOWN"})
    BY DEF ThereInv
  <2>3. CASE p # q
    BY <2>1, <2>3, ServerSteps, ServerGoes DEF ServerStep, ThereInv
  <2>4. CASE p = q
    <3>1. proc'[q] # "up" => DOMAIN store'[q] = {} /\ inbox'[q] = <<>>
      BY <2>1, ServerGoes DEF EmptyMap
    <3>2. run' => None(inbox'[q], {"SHUTDOWN"})
      <4>1. CASE Goes(q)
        BY <4>1, NothingThere DEF Goes
      <4>2. CASE Stays(q)
        BY <2>1, <4>2, AsleepGoes, ServerGoes DEF ThereInv
      <4> QED  BY <2>1, <4>1, <4>2, ServerSteps DEF ServerStep
    <3> QED  BY <2>4, <3>1, <3>2
  <2> QED  BY <2>3, <2>4
<1>4. CASE Manager /\ ~SetupTimeout
  <2>1. UNCHANGED <<proc, store, run>>
    BY <1>4, ManagerPosts
  <2>2. SUFFICES ASSUME NEW p \in Pids, inbox'[p] # inbox[p]
                 PROVE  proc[p] = "up" /\ (run => None(inbox'[p], {"SHUTDOWN"}))
    BY <2>1 DEF ThereInv
  <2>3. PICK m : proc[p] = "up" /\ m.cmd \in Awake /\ inbox'[p] = Append(inbox[p], m)
    BY <1>4, <2>2, ManagerSends
  <2>4. m.cmd \notin {"SHUTDOWN"}
    BY <2>3 DEF Awake
  <2>5. PICK s \in Seq(Asking) : s = inbox[p]
    BY <1>1
  <2>6. Kept(s, Append(s, m), {"SHUTDOWN"})
    BY <2>4, AppendKeeps
  <2> QED  BY <2>3, <2>5, <2>6 DEF Kept, ThereInv
<1>5. CASE SetupTimeout
  <2>1. /\ UNCHANGED <<store, run>> /\ proc' = [proc EXCEPT ![spawned] = "gone"]
        /\ inbox' = [inbox EXCEPT ![spawned] = <<>>] /\ mgr.wait = "setup"
    BY <1>5 DEF SetupTimeout, data
  <2>2. DOMAIN store[spawned] = {}
    BY <2>1 DEF PidInv
  <2> QED  BY <1>1, <2>1, <2>2, NothingThere DEF ThereInv
<1>6. CASE HandleRun
  <2>1. PICK q : /\ UNCHANGED <<store, run>> /\ proc' = [proc EXCEPT ![q] = "up"]
                 /\ inbox' = [inbox EXCEPT ![q] = <<SetUp>>]
    BY <1>6 DEF HandleRun, data, SetUp
  <2>2. None(<<SetUp>>, {"SHUTDOWN"})
    BY SetUpAlone
  <2> QED  BY <1>1, <2>1, <2>2 DEF ThereInv
<1>7. CASE HandleTerminate
  BY <1>2, <1>7 DEF HandleTerminate, Outside, mail, data
<1>8. CASE TypeShutdown
  <2>1. /\ UNCHANGED <<proc, store>> /\ run' = FALSE
        /\ \A p \in Pids : proc[p] # "up" => inbox'[p] = inbox[p]
    BY <1>8 DEF TypeShutdown, data
  <2> QED  BY <1>1, <2>1 DEF ThereInv
<1>9. CASE UNCHANGED vars \/ \E c \in Clients : Request(c) \/ Client(c)
  <2>1. UNCHANGED <<proc, store, inbox, run>>
    BY <1>9 DEF vars, mail, data, Request, Client, TakeReply, TakeRangeReply, ClientTimeout
  <2> QED  BY <1>2, <2>1
<1> QED  BY <1>3, <1>4, <1>5, <1>6, <1>7, <1>8, <1>9 DEF Next, Terminal

-----------------------------------------------------------------------------
Nothing(p) == \A c \in DOMAIN store[p] : store[p][c] = {}

(* Who is up and not a server is about to be one, or is told to end and    *)
(* has no key.                                                             *)
HomeInv ==
  Settled => \A p \in Pids : ~IsServer(p) =>
    /\ Nothing(p)
    /\ proc[p] = "up" => (mgr.wait = "setup" /\ p = spawned) \/ ~None(inbox[p], {"TERMINATE"})

(* A server that is no more, or none yet, does not get keys.               *)
LEMMA HomeServed ==
  ASSUME TypeInv, PidInv, EndInv, ThereInv, HomeInv, NEW q \in Pids, Server(q), Settled' => Settled
  PROVE  HomeInv'
<1>1. ServerStep(q) /\ UNCHANGED <<spawned, servers, mgr, run>>
  BY ServerSteps, ServerGoes
<1>2. SUFFICES ASSUME Settled, NEW p \in Pids, ~IsServer(p)
               PROVE  /\ Nothing(p)'
                      /\ proc'[p] = "up" => (mgr.wait = "setup" /\ p = spawned) \/ ~None(inbox'[p], {"TERMINATE"})
  BY <1>1 DEF HomeInv, IsServer, Nothing
<1>3. CASE p # q
  BY <1>1, <1>2, <1>3 DEF ServerStep, HomeInv, Nothing
<1>4. CASE p = q /\ proc'[q] # "up"
  BY <1>4, ServerGoes DEF Nothing, EmptyMap
<1>5. CASE p = q /\ proc'[q] = "up"
  <2>1. Stays(q) /\ proc[q] = "up"
    BY <1>1, <1>5 DEF ServerStep, Goes
  <2>2. inbox[q] \in Seq(Asking) /\ inbox[q] # <<>> /\ inbox'[q] = Tail(inbox[q])
    BY <2>1 DEF Stays, TypeInv, MailType
  <2>3. \A C : None(inbox[q], C) => Head(inbox[q]).cmd \notin C
    BY <2>2, TailAt DEF None
  <2>4. Nothing(q) /\ ((mgr.wait = "setup" /\ q = spawned) \/ ~None(inbox[q], {"TERMINATE"}))
    BY <1>2, <1>5, <2>1 DEF HomeInv
  <2>5. Head(inbox[q]).cmd \notin AddStruct /\ (Head(inbox[q]).cmd = "ADD" => DOMAIN store[q] = {})
    <3>1. CASE mgr.wait = "setup" /\ q = spawned
      <4>1. Head(inbox[q]).cmd \notin Commands \ {"SET_IN_MEMORY_CACHE_MODE"}
        BY <2>3, <3>1 DEF PidInv
      <4> QED  BY <4>1 DEF Commands, AddStruct, DataChanges
    <3>2. CASE ~None(inbox[q], {"TERMINATE"})
      <4>1. Bequeathed(q)
        BY <1>2, <2>1, <3>2 DEF EndInv, GoneInv, Still, Settled, Orderly
      <4> QED  BY <2>3, <4>1 DEF Bequeathed
    <3> QED  BY <2>4, <3>1, <3>2
  <2>6. Shrinks(q)
    BY <2>1, <2>5, ServerShrinks
  <2>7. Nothing(q)'
    BY <2>4, <2>6 DEF Nothing, Shrinks
  <2>8. ~None(inbox[q], {"TERMINATE"}) => ~None(inbox'[q], {"TERMINATE"})
    <3>1. Head(inbox[q]).cmd \notin {"TERMINATE"}
      BY <2>1 DEF Stays
    <3>2. PICK s \in Seq(Asking) : s = inbox[q]
      BY <2>2
    <3>3. s # <<>> /\ Head(s).cmd \notin {"TERMINATE"}
      BY <2>2, <3>1, <3>2
    <3>4. None(Tail(s), {"TERMINATE"}) => None(s, {"TERMINATE"})
      <4>1. /\ s[1] = Head(s)
            /\ \A k \in DOMAIN s : k # 1 => k - 1 \in DOMAIN Tail(s) /\ Tail(s)[k - 1] = s[k]
        BY <3>3, TailAt
      <4> QED  BY <3>3, <4>1 DEF None
    <3> QED  BY <2>2, <3>2, <3>4
  <2> QED  BY <1>5, <2>4, <2>7, <2>8
<1> QED  BY <1>3, <1>4, <1>5

(* The server that is let go is told to end, and has no key.               *)
LEMMA HomeLetGo ==
  ASSUME TypeInv, PidInv, EndInv, ThereInv, HomeInv, NextPath, mgr.todo = <<>>, mgr.job = "terminate",
         Settled' => Settled
  PROVE  HomeInv'
<1>1. /\ UNCHANGED <<proc, store, spawned>> /\ mgr.wait = "path" /\ LetGo
  BY DEF NextPath, Outside, data
<1>2. /\ servers' = Front(servers)
      /\ inbox' = Post(inbox, servers[Len(servers)], OwnMsg("TERMINATE", NoOne))
  BY <1>1 DEF LetGo
<1>3. /\ servers \in Seq(Pids) /\ Len(servers) = 2 /\ inbox \in [Pids -> Seq(Asking)]
      /\ servers[2] \in Pids /\ Ending
  <2>1. Ending
    BY DEF Ending
  <2> QED  BY <2>1, BothThere DEF TypeInv, MailType, KnownType, Ender
<1>4. OwnMsg("TERMINATE", NoOne).cmd = "TERMINATE"
  BY OwnMsgType
<1>5. DOMAIN servers' = 1 .. 1 /\ servers'[1] = servers[1]
  BY <1>2, <1>3 DEF Front
<1>6. SUFFICES ASSUME Settled, NEW p \in Pids, p # servers[1]
               PROVE  Nothing(p) /\ (proc[p] = "up" => ~None(inbox'[p], {"TERMINATE"}))
  <2>1. servers'[1] = servers[1] /\ 1 \in DOMAIN servers'
    BY <1>5
  <2> QED  BY <1>1, <1>6, <2>1 DEF HomeInv, IsServer, Nothing
<1>7. CASE p # servers[2]
  <2>1. ~IsServer(p) /\ inbox'[p] = inbox[p]
    BY <1>2, <1>3, <1>6, <1>7 DEF IsServer, Post
  <2> QED  BY <1>1, <1>6, <2>1 DEF HomeInv
<1>8. CASE p = servers[2]
  <2>1. CASE proc[p] # "up"
    BY <2>1 DEF ThereInv, Nothing
  <2>2. CASE proc[p] = "up"
    <3>1. Untouched \/ Emptied
      BY <1>3, <1>6, <1>8, <2>2 DEF EndInv, LeftInv, Still, Settled, Orderly, Ender
    <3>2. ToSet(mgr.todo) = {}
      BY DEF ToSet
    <3>3. Nothing(p)
      BY <1>8, <3>1, <3>2 DEF Untouched, Emptied, Nothing, Ender
    <3>4. PICK s \in Seq(Asking) : s = inbox[p]
      BY <1>3
    <3>5. inbox'[p] = Append(s, OwnMsg("TERMINATE", NoOne))
      BY <1>2, <1>3, <1>8, <2>2, <3>4 DEF Post
    <3> QED  BY <1>4, <3>3, <3>5, AppendAt DEF None
  <2> QED  BY <2>1, <2>2
<1> QED  BY <1>7, <1>8

(* Whatever happens, that is so.                                           *)
LEMMA HomeStep ==
  ASSUME TypeInv, PidInv, EndInv, ThereInv, HomeInv, [Next]_vars
  PROVE  HomeInv'
<1>0. Settled' => Settled
  BY TimeGoesOn
<1>1. /\ proc \in [Pids -> {"unborn", "up", "gone"}] /\ store = [p \in Pids |-> store[p]]
      /\ inbox \in [Pids -> Seq(Asking)] /\ run \in BOOLEAN /\ spawned \in Pids
      /\ servers \in Seq(Pids)
  BY DEF TypeInv, ServersType, MailType, HistoryType, KnownType
<1>2. CASE UNCHANGED <<proc, spawned, store, inbox, servers>> /\ (mgr.wait = "setup" => mgr'.wait = "setup")
  BY <1>0, <1>2 DEF HomeInv, IsServer, Nothing
<1>3. CASE \E q \in Pids : Server(q)
  BY <1>0, <1>3, HomeServed
<1>4. CASE UNCHANGED servers /\ Manager /\ mgr.wait # "setup"
  <2>1. ~SetupTimeout /\ UNCHANGED <<proc, store, spawned>>
    BY <1>4, ManagerPosts DEF SetupTimeout, EndInv
  <2>2. \A p \in Pids : ~IsServer(p) => inbox'[p] = inbox[p]
    BY <1>4, <2>1, ManagerSends DEF EndInv
  <2> QED  BY <1>0, <1>4, <2>1, <2>2 DEF HomeInv, IsServer, Nothing
<1>5. CASE NextPath /\ mgr.todo = <<>> /\ mgr.job = "terminate"
  BY <1>0, <1>5, HomeLetGo
<1>6. CASE SetupAnswer
  <2>1. /\ UNCHANGED <<proc, store, spawned, inbox>> /\ servers' = Append(servers, spawned)
    BY <1>6 DEF SetupAnswer, Outside, data
  <2>2. \A p \in Pids : ~IsServer(p)' => ~IsServer(p) /\ p # spawned
    <3>1. /\ \A j \in DOMAIN servers : j \in DOMAIN servers' /\ servers'[j] = servers[j]
          /\ Len(servers) + 1 \in DOMAIN servers' /\ servers'[Len(servers) + 1] = spawned
      BY <1>1, <2>1, AppendAt
    <3> QED  BY <3>1 DEF IsServer
  <2> QED  BY <1>0, <2>1, <2>2 DEF HomeInv, Nothing
<1>7. CASE SetupTimeout
  <2>1. /\ UNCHANGED <<store, spawned, servers>> /\ proc' = [proc EXCEPT ![spawned] = "gone"]
        /\ inbox' = [inbox EXCEPT ![spawned] = <<>>]
    BY <1>7 DEF SetupTimeout, data
  <2> QED  BY <1>0, <1>1, <2>1 DEF HomeInv, Nothing, IsServer
<1>8. CASE HandleRun
  <2> DEFINE q == spawned + 1
  <2>1. /\ UNCHANGED <<store, servers>> /\ proc' = [proc EXCEPT ![q] = "up"] /\ spawned' = q
        /\ inbox' = [inbox EXCEPT ![q] = <<SetUp>>] /\ mgr' = At("setup") /\ mgr.wait = "main"
    BY <1>8 DEF HandleRun, data, SetUp
  <2>2. mgr'.wait = "setup"
    BY <2>1, AtType DEF Waits
  <2> HIDE DEF q
  <2> QED  BY <1>0, <1>1, <2>1, <2>2 DEF HomeInv, Nothing, IsServer
<1>9. CASE HandleTerminate
  <2>1. UNCHANGED <<proc, spawned, store, inbox, servers>> /\ mgr.wait = "main"
    BY <1>9 DEF HandleTerminate, Outside, mail, data
  <2> QED  BY <1>2, <2>1
<1>10. CASE TypeShutdown
  BY <1>1, <1>10 DEF TypeShutdown, HomeInv, Settled
<1>11. CASE UNCHANGED vars \/ \E c \in Clients : Request(c) \/ Client(c)
  <2>1. UNCHANGED <<proc, spawned, store, inbox, servers, mgr>>
    BY <1>11 DEF vars, mail, data, Request, Client, TakeReply, TakeRangeReply, ClientTimeout
  <2> QED  BY <1>2, <2>1
<1>12. CASE Manager /\ ~SetupAnswer /\ ~SetupTimeout /\ ~(NextPath /\ mgr.todo = <<>> /\ mgr.job = "terminate")
  <2>1. UNCHANGED servers
    BY <1>12 DEF Manager, ForwardAnswer, ForwardRequest, HandleStruct, AddStructGoesOn, RollbackGoesOn,
       DisposeStructGoesOn, NextPath, CountAnswer, CountTimeout, BeginTransfer, TransferAnswer,
       TransferTimeout, HandleShutdown
  <2>2. mgr.wait # "setup"
    BY <1>12 DEF Manager, ForwardAnswer, ForwardRequest, HandleStruct, Asked, AddStructGoesOn, RollbackGoesOn,
       DisposeStructGoesOn, NextPath, CountAnswer, CountTimeout, BeginTransfer, TransferAnswer,
       TransferTimeout, HandleShutdown
  <2> QED  BY <1>4, <1>12, <2>1, <2>2
<1> QED  BY <1>3, <1>5, <1>6, <1>7, <1>8, <1>9, <1>10, <1>11, <1>12 DEF Next, Terminal

-----------------------------------------------------------------------------
(* A server that joined when collections were known has none of them, and  *)
(* dies when it is counted.                                                *)
Late ==
  /\ mgr.job = "redistribute" /\ mgr.todo # <<>>
  /\ \/ mgr.wait = "path"
     \/ mgr.wait = "count" /\ (mgr.i = 1 \/ box["count"] = <<>>)

HasAll(j) == DOMAIN store[servers[j]] = IF Passed(j) THEN Renewed ELSE DOMAIN seps

Blank ==
  /\ DOMAIN store[servers[2]] = {}
  /\ proc[servers[1]] = "up" => Late
  /\ mgr.wait = "struct_add" => mgr.i = 1 /\ box["added"] = <<>>

(* What is added is not known yet.                                         *)
AddsNew ==
  mgr.wait = "struct_add" /\ mgr.msg.cmd = "ADD_COLLECTION" /\ Passed(1) =>
    mgr.msg.coll \notin DOMAIN seps

FullInv ==
  Settled /\ mgr.wait # "rollback" =>
    /\ \A j \in DOMAIN servers : proc[servers[j]] = "up" => HasAll(j) \/ (j = 2 /\ Blank)
    /\ AddsNew

(* With nothing late or taken back, the broadcasts are sound.              *)
LEMMA SettledSound == Settled /\ mgr.wait # "rollback" => Sound
  BY DEF Settled, Orderly, Sound

(* A step that leaves the broadcasts alone.                                *)
LEMMA FullKept ==
  ASSUME TypeInv', FullInv, Calm, Remain, DOMAIN seps' = DOMAIN seps, Settled' => Settled,
         mgr'.wait # "rollback" => mgr.wait # "rollback",
         Settled' /\ Late /\ Blank /\ 2 \in DOMAIN servers /\ proc'[servers[1]] = "up"
           /\ proc'[servers[2]] = "up" => Late',
         proc'[servers[1]] = "up" => proc[servers[1]] = "up"
  PROVE  FullInv'
<1>1. SUFFICES ASSUME Settled', mgr'.wait # "rollback"
               PROVE  /\ \A j \in DOMAIN servers' :
                           proc'[servers'[j]] = "up" => HasAll(j)' \/ (j = 2 /\ Blank')
                      /\ AddsNew'
  BY DEF FullInv
<1>2. /\ \A j \in DOMAIN servers : proc[servers[j]] = "up" => HasAll(j) \/ (j = 2 /\ Blank)
      /\ AddsNew /\ Settled
  BY <1>1 DEF FullInv
<1>3. \A j \in DOMAIN servers' : proc'[servers'[j]] = "up" =>
        /\ j \in DOMAIN servers /\ servers'[j] = servers[j] /\ proc[servers[j]] = "up"
        /\ DOMAIN store'[servers'[j]] = DOMAIN store[servers[j]]
  BY DEF Remain
<1>4. 2 \in DOMAIN servers' => 2 \in DOMAIN servers /\ servers'[2] = servers[2]
  BY DEF Remain
<1>5. CASE mgr' = mgr /\ servers' = servers
  <2>1. /\ Broadcasting' <=> Broadcasting
        /\ Back' = Back /\ box'[Back] = box[Back] /\ box'["added"] = box["added"]
    BY <1>5 DEF Broadcasting, Back, Calm
  <2>2. (\A j : Passed(j)' <=> Passed(j)) /\ Renewed' = Renewed
    BY <1>5, <2>1 DEF Passed, Renewed
  <2>3. AddsNew'
    BY <1>2, <1>5, <2>2 DEF AddsNew
  <2>4. ASSUME NEW j \in DOMAIN servers', proc'[servers'[j]] = "up"
        PROVE  HasAll(j)' \/ (j = 2 /\ Blank')
    <3>1. /\ j \in DOMAIN servers /\ servers'[j] = servers[j] /\ proc[servers[j]] = "up"
          /\ DOMAIN store'[servers'[j]] = DOMAIN store[servers[j]]
      BY <1>3, <2>4
    <3>2. CASE HasAll(j)
      BY <2>2, <3>1, <3>2 DEF HasAll
    <3>3. CASE j = 2 /\ Blank
      BY <1>1, <1>5, <2>1, <2>4, <3>1, <3>3 DEF Blank
    <3> QED  BY <1>2, <3>1, <3>2, <3>3
  <2> QED  BY <2>3, <2>4
<1>6. CASE mgr.wait \notin Elsewise /\ mgr'.wait \notin Elsewise
  <2>1. \A j : ~Passed(j) /\ ~Passed(j)'
    BY <1>6 DEF Passed, Broadcasting, Elsewise
  <2>2. AddsNew'
    BY <2>1 DEF AddsNew
  <2>3. ASSUME NEW j \in DOMAIN servers', proc'[servers'[j]] = "up"
        PROVE  HasAll(j)' \/ (j = 2 /\ Blank')
    <3>1. /\ j \in DOMAIN servers /\ servers'[j] = servers[j] /\ proc[servers[j]] = "up"
          /\ DOMAIN store'[servers'[j]] = DOMAIN store[servers[j]]
      BY <1>3, <2>3
    <3>2. CASE HasAll(j)
      BY <2>1, <3>1, <3>2 DEF HasAll
    <3>3. CASE j = 2 /\ Blank
      <4>1. proc'[servers'[1]] = "up" => proc'[servers[1]] = "up" /\ proc[servers[1]] = "up"
        <5>1. servers' \in Seq(Pids) /\ 2 \in DOMAIN servers'
          BY <2>3, <3>3 DEF TypeInv, KnownType
        <5>2. 1 \in DOMAIN servers'
          BY <5>1
        <5> QED  BY <1>3, <5>2 DEF Remain
      <4> QED  BY <1>1, <1>6, <2>3, <3>1, <3>3, <4>1 DEF Blank, Elsewise
    <3> QED  BY <1>2, <3>1, <3>2, <3>3
  <2> QED  BY <2>2, <2>3
<1> QED  BY <1>5, <1>6 DEF Calm

(* A server's step leaves a late server where it is, or ends it.           *)
LEMMA LateServed ==
  ASSUME TypeInv, PidInv, CountInv, NEW p \in Pids, Server(p), Settled, Late, Blank,
         2 \in DOMAIN servers, proc'[servers[2]] = "up"
  PROVE  Late'
<1>1. UNCHANGED mgr
  BY ServerGoes
<1>2. CASE box'["count"] = box["count"] \/ mgr.wait = "path" \/ mgr.i = 1
  BY <1>1, <1>2 DEF Late
<1>3. CASE box'["count"] # box["count"] /\ mgr.wait = "count" /\ mgr.i # 1
  <2>1. ServeCount(p) /\ proc' = proc
    BY <1>3, ServerSteps DEF ServerStep, Goes, Stays
  <2>2. Serves(p, {"GET_RECORDS_CNT"}) /\ Sound
    BY <1>3, <2>1, SettledSound DEF ServeCount
  <2>3. Counting(p) /\ Head(inbox[p]) = OwnMsg("GET_RECORDS_CNT", Head(mgr.todo))
    BY <2>2, CountAwaited
  <2>4. p = servers[2]
    <3>1. mgr.i = 2
      BY <1>3 DEF TypeInv, MgrType, Places, MaxServers
    <3> QED  BY <2>3, <3>1 DEF Counting
  <2>5. DOMAIN store[p] = {} /\ proc[p] = "up"
    BY <2>3, <2>4 DEF Blank, Counting
  <2>6. Dies(p)
    BY <2>1, <2>5 DEF ServeCount
  <2>7. proc'[p] = "gone"
    BY <2>6 DEF Dies, TypeInv, ServersType
  <2> QED  BY <2>4, <2>7
<1>4. mgr.wait \in {"path", "count"}
  BY DEF Late
<1> QED  BY <1>2, <1>3, <1>4

(* A server's step that is not about a broadcast.                          *)
LEMMA FullServes ==
  ASSUME TypeInv, TypeInv', PidInv, CountInv, FullInv, NEW p \in Pids, Server(p), ServesAside(p),
         Settled' => Settled
  PROVE  FullInv'
<1>1. /\ spawned \in Pids /\ proc \in [Pids -> {"unborn", "up", "gone"}]
      /\ has \in [Pids -> SUBSET {"pool", "schema"}] /\ store = [q \in Pids |-> store[q]]
      /\ servers \in Seq(Pids)
  <2>1. servers \in Seq(Pids)
    BY DEF TypeInv, KnownType
  <2> QED  BY <2>1 DEF TypeInv, ServersType
<1>2. /\ UNCHANGED <<spawned, requests, servers, seps, mgr, run>>
      /\ past \subseteq past' /\ (faults' = 0 => faults = 0) /\ proc[p] = "up"
      /\ box'["added"] = box["added"] /\ box'["disposed"] = box["disposed"]
  BY DEF ServesAside
<1>3. \A j \in DOMAIN servers : servers[j] \in Pids
  BY <1>1
<1>4. \A q \in Pids : proc'[q] = "up" => /\ proc[q] = "up" /\ has'[q] = has[q]
                                         /\ DOMAIN store'[q] = DOMAIN store[q]
  BY <1>1 DEF ServesAside, Dies
<1>5. Calm /\ Remain
  BY <1>2, <1>3, <1>4 DEF Calm, Remain
<1>6. 2 \in DOMAIN servers => 1 \in DOMAIN servers
  BY <1>1
<1>7. Settled /\ Late /\ Blank /\ 2 \in DOMAIN servers /\ proc'[servers[2]] = "up" => Late'
  BY LateServed
<1>8. 1 \in DOMAIN servers /\ proc'[servers[1]] = "up" => proc[servers[1]] = "up"
  BY <1>3, <1>4
<1>9. CASE 1 \in DOMAIN servers
  BY <1>2, <1>5, <1>7, <1>8, <1>9, FullKept
<1>10. CASE 1 \notin DOMAIN servers
  <2>1. DOMAIN servers = {}
    BY <1>1, <1>10
  <2> QED  BY <1>2, <2>1 DEF FullInv, AddsNew, Passed, Broadcasting, Back, Calm
<1> QED  BY <1>9, <1>10

(* What the manager does besides, as long as it leaves who is late so.     *)
LEMMA FullAside ==
  ASSUME TypeInv', FullInv, Aside, Settled' => Settled,
         Settled' /\ Late /\ Blank /\ 2 \in DOMAIN servers /\ proc[servers[1]] = "up"
           /\ proc[servers[2]] = "up" => Late'
  PROVE  FullInv'
<1>1. /\ UNCHANGED <<proc, has, store, servers>> /\ DOMAIN seps' = DOMAIN seps
      /\ past \subseteq past' /\ (faults' = 0 => faults = 0)
      /\ box'["added"] = box["added"] /\ box'["disposed"] = box["disposed"]
      /\ mgr.wait \notin Elsewise /\ mgr'.wait \notin Elsewise
  BY DEF Aside, Turns
<1>2. Calm /\ Remain
  BY <1>1 DEF Calm, Remain
<1>3. mgr.wait # "rollback"
  BY <1>1 DEF Elsewise
<1> QED  BY <1>1, <1>2, <1>3, FullKept

(* A server that is late is counted after the first, and ends then.        *)
LEMMA LateAside ==
  ASSUME TypeInv, PidInv, CountInv, Aside, Settled' => Settled, Settled', Late, 2 \in DOMAIN servers,
         proc[servers[1]] = "up", proc[servers[2]] = "up", Manager \/ HandleTerminate,
         ~(NextPath /\ mgr.todo = <<>>)
  PROVE  Late'
<1>1. /\ mgr.job = "redistribute" /\ mgr.todo # <<>> /\ mgr.wait \in {"path", "count"}
      /\ mgr.wait = "count" => mgr.i = 1 \/ box["count"] = <<>>
      /\ faults = 0 /\ faults' = 0 /\ mgr.wait # "rollback" /\ Sound
  BY SettledSound DEF Late, Settled, Orderly
<1>2. /\ servers \in Seq(Pids) /\ Len(servers) \in Nat /\ Len(servers) <= 2 /\ DOMAIN servers = 1 .. Len(servers)
      /\ box \in [Boxes -> Seq(Asking)] /\ mgr \in Places /\ MailType
  BY DEF TypeInv, KnownType, MaxServers, MailType, MgrType
<1>3. Len(servers) = 2 /\ servers[1] \in Pids /\ servers[2] \in Pids
  BY <1>2
<1>4. CASE NextPath
  <2>1. AskCount(1)
    BY <1>1, <1>4 DEF NextPath
  <2> QED  BY <1>1, <1>2, <2>1 DEF AskCount, Late, Places
<1>5. CASE CountAnswer
  <2>1. mgr.wait = "count" /\ box["count"] # <<>> /\ mgr.i = 1
    BY <1>1, <1>5 DEF CountAnswer
  <2>2. mgr'.i = 2 /\ mgr'.job = mgr.job /\ mgr'.todo = mgr.todo /\ mgr'.wait = mgr.wait
    <3> DEFINE cnts == [mgr.cnts EXCEPT ![mgr.i - 1] = Head(box["count"]).cnt]
    <3>1. mgr.job # "terminate" /\ mgr.i < Len(servers)
      BY <1>1, <1>3, <2>1
    <3>2. mgr' = [mgr EXCEPT !.i = @ + 1, !.cnts = cnts]
      BY <1>1, <1>5, <3>1 DEF CountAnswer, CountedTo
    <3> HIDE DEF cnts
    <3> QED  BY <1>2, <2>1, <3>2 DEF Places
  <2>3. box'["count"] = <<>>
    <3> DEFINE s == box["count"]
    <3>1. Len(s) <= 1 /\ s # <<>> /\ s \in Seq(Asking) /\ box'["count"] = Tail(s)
      BY <1>1, <1>2, <1>5, <2>1 DEF CountInv, CountAnswer, Boxes
    <3> HIDE DEF s
    <3>4. Len(s) # 0
      BY <3>1, SequenceEmpty
    <3>2. Tail(s) \in Seq(Asking)
      BY <3>1, TailType
    <3>3. Len(Tail(s)) = 0
      <4> DEFINE l == Len(s)
      <4>1. l \in Nat /\ Len(Tail(s)) = l - 1
        BY <3>1, <3>4
      <4>2. l <= 1 /\ l # 0
        BY <3>1, <3>4
      <4> HIDE DEF l
      <4>3. l = 1
        BY <4>1, <4>2
      <4> QED  BY <4>1, <4>3
    <3> QED  BY <3>1, <3>2, <3>3, SequenceEmpty
  <2> QED  BY <1>1, <2>1, <2>2, <2>3 DEF Late
<1>6. CASE CountTimeout
  <2>1. mgr.wait = "count" /\ RunsOut("count")
    BY <1>6 DEF CountTimeout
  <2>2. box["count"] = <<>> /\ \A p \in Pids : inbox[p] = <<>>
    BY <1>1, <2>1 DEF RunsOut
  <2>3. mgr.i \in 1 .. 2 /\ Counting(servers[mgr.i])
    <3>1. mgr.i \in DOMAIN servers
      BY <2>1 DEF PidInv
    <3>2. mgr.i \in 1 .. 2
      BY <1>2, <1>3, <3>1
    <3>3. mgr.i = 1 \/ mgr.i = 2
      BY <3>2
    <3> QED  BY <2>1, <2>2, <3>2, <3>3 DEF Counting
  <2>4. servers[mgr.i] \in Pids
    BY <1>3, <2>3
  <2>5. ~None(inbox[servers[mgr.i]], {"GET_RECORDS_CNT"})
    BY <1>1, <2>3, <2>4, OneNotNone DEF CountInv
  <2> QED  BY <2>2, <2>4, <2>5, NothingThere
<1>7. CASE ~NextPath /\ ~CountAnswer /\ ~CountTimeout
  <2>1. mgr.wait \notin {"path", "count"}
    BY <1>7 DEF Manager, ForwardAnswer, ForwardRequest, HandleStruct, Asked, AddStructGoesOn, RollbackGoesOn,
       DisposeStructGoesOn, BeginTransfer, TransferAnswer, TransferTimeout, SetupAnswer,
       SetupTimeout, HandleShutdown, HandleTerminate
  <2> QED  BY <1>1, <2>1
<1> QED  BY <1>4, <1>5, <1>6, <1>7

(* The steps of the manager that are not about a broadcast.                *)
LEMMA FullManager ==
  ASSUME TypeInv, TypeInv', PidInv, CountInv, FullInv, Manager \/ HandleTerminate, Aside, Settled' => Settled
  PROVE  FullInv'
<1>1. CASE NextPath /\ mgr.todo = <<>>
  BY <1>1, FullAside DEF Late
<1>2. CASE ~(NextPath /\ mgr.todo = <<>>)
  BY <1>2, LateAside, FullAside
<1> QED  BY <1>1, <1>2

(* A server is started, or ended before it answers, or let go.             *)
LEMMA FullFewer ==
  ASSUME TypeInv, TypeInv', PidInv, FullInv, Settled' => Settled,
         HandleRun \/ SetupTimeout \/ (NextPath /\ mgr.todo = <<>> /\ mgr.job = "terminate")
  PROVE  FullInv'
<1>1. /\ UNCHANGED <<store, has, seps>> /\ box'["added"] = box["added"] /\ box'["disposed"] = box["disposed"]
      /\ past \subseteq past' /\ mgr.wait \in {"main", "setup", "path"} /\ ~Late
      /\ faults' = 0 => faults = 0
  <2>1. faults \in Nat
    BY ClusterAssumption DEF TypeInv, HistoryType
  <2>2. /\ UNCHANGED <<store, has, seps>> /\ box'["added"] = box["added"] /\ box'["disposed"] = box["disposed"]
        /\ past \subseteq past' /\ mgr.wait \in {"main", "setup", "path"} /\ ~Late
    BY DEF HandleRun, SetupTimeout, NextPath, Outside, data, Late
  <2>3. CASE SetupTimeout
    BY <2>1, <2>2, <2>3 DEF SetupTimeout, RunsOut
  <2>4. CASE ~SetupTimeout
    BY <2>2, <2>4 DEF HandleRun, NextPath
  <2> QED  BY <2>2, <2>3, <2>4
<1>2. /\ servers \in Seq(Pids) /\ spawned \in Pids /\ MaxSpawned \in Nat /\ Pids \subseteq Nat
      /\ proc \in [Pids -> {"unborn", "up", "gone"}] /\ KnownType /\ run \in BOOLEAN
  <2>1. MaxSpawned \in Nat /\ Pids \subseteq Nat
    BY ClusterAssumption DEF Pids
  <2>2. servers \in Seq(Pids)
    BY DEF TypeInv, KnownType
  <2> QED  BY <2>1, <2>2 DEF TypeInv, ServersType, HistoryType
<1>3. mgr'.wait \notin Elsewise
  <2>1. CASE HandleRun
    <3>1. "setup" \in Waits /\ mgr' = At("setup")
      BY <2>1 DEF Waits, HandleRun
    <3> HIDE DEF At
    <3>2. mgr'.wait = "setup"
      BY <3>1, AtType
    <3> QED  BY <3>2 DEF Elsewise
  <2>2. CASE SetupTimeout
    <3>1. Return
      BY <2>2 DEF SetupTimeout
    <3> QED  BY <1>2, <3>1, BodyTurns DEF Return, Elsewise
  <2>3. CASE NextPath /\ mgr.todo = <<>> /\ mgr.job = "terminate"
    <3>1. mgr' = Over("redistribute", Paths)
      BY <2>3 DEF NextPath, LetGo
    <3>2. Paths \in Seq(Collections)
      BY <1>2, PathsType
    <3> HIDE DEF Over, Paths
    <3>3. mgr'.wait = "path"
      BY <3>1, <3>2, OverType
    <3> QED  BY <3>3 DEF Elsewise
  <2> QED  BY <2>1, <2>2, <2>3
<1>4. \A j \in DOMAIN servers' : j \in DOMAIN servers /\ servers'[j] = servers[j]
  <2>1. CASE UNCHANGED servers
    BY <2>1
  <2>2. CASE NextPath /\ mgr.todo = <<>> /\ mgr.job = "terminate"
    <3>1. Len(servers) = 2 /\ servers' = Front(servers)
      BY <2>2 DEF TypeInv, MgrType, NextPath, LetGo, MaxServers
    <3>2. servers' = [j \in 1 .. 1 |-> servers[j]] /\ DOMAIN servers = 1 .. 2
      BY <1>2, <3>1 DEF Front
    <3> QED  BY <3>2
  <2>3. CASE HandleRun \/ SetupTimeout
    BY <2>1, <2>3 DEF HandleRun, SetupTimeout
  <2> QED  BY <2>2, <2>3
<1>5. \A j \in DOMAIN servers : proc'[servers[j]] = "up" => proc[servers[j]] = "up"
  <2>1. CASE SetupTimeout
    BY <1>2, <2>1 DEF SetupTimeout
  <2>2. CASE NextPath
    BY <2>2 DEF NextPath, Outside
  <2>3. CASE HandleRun
    <3> DEFINE q == spawned + 1
    <3>1. proc' = [proc EXCEPT ![q] = "up"] /\ q \in Nat /\ q > spawned
      BY <1>2, <2>3 DEF HandleRun
    <3> HIDE DEF q
    <3>2. \A j \in DOMAIN servers : servers[j] \in Nat /\ servers[j] <= spawned
      <4>1. \A j \in DOMAIN servers : servers[j] \in Pids
        BY <1>2
      <4>2. \A j \in DOMAIN servers : servers[j] <= spawned
        BY DEF PidInv
      <4> QED  BY <1>2, <4>1, <4>2
    <3>3. \A j \in DOMAIN servers : servers[j] # q
      BY <1>2, <3>1, <3>2
    <3> QED  BY <1>2, <3>1, <3>3
  <2> QED  BY <2>1, <2>2, <2>3
<1>6. Calm /\ Remain
  BY <1>1, <1>3, <1>4, <1>5 DEF Calm, Remain, Elsewise
<1>7. CASE 1 \in DOMAIN servers
  BY <1>1, <1>5, <1>6, <1>7, FullKept
<1>8. CASE 1 \notin DOMAIN servers
  <2>1. DOMAIN servers' = {}
    BY <1>2, <1>4, <1>8
  <2> QED  BY <1>3, <2>1 DEF FullInv, AddsNew, Elsewise
<1> QED  BY <1>7, <1>8

(* A server joins: the first one when nothing is known, the second one     *)
(* with nothing, and a redistribution begins.                              *)
LEMMA FullSetup ==
  ASSUME TypeInv, TypeInv', PidInv, FullInv, SetupAnswer, Settled' => Settled
  PROVE  FullInv'
<1>1. /\ UNCHANGED <<proc, store>> /\ mgr.wait = "setup" /\ servers' = Append(servers, spawned)
      /\ seps' = SepsGrown
  BY DEF SetupAnswer, Outside, data
<1> DEFINE l == Len(servers)
<1>2. /\ KnownType /\ run \in BOOLEAN /\ servers \in Seq(Pids) /\ spawned \in Pids
      /\ l \in 0 .. 1 /\ DOMAIN servers = 1 .. l
  <2>1. servers \in Seq(Pids) /\ l < 2
    BY <1>1 DEF TypeInv, KnownType, MgrType, MaxServers
  <2>2. l \in Nat /\ DOMAIN servers = 1 .. l
    BY <2>1
  <2> HIDE DEF l
  <2> QED  BY <2>1, <2>2 DEF TypeInv, HistoryType, ServersType
<1>3. /\ \A j \in DOMAIN servers' : (j \in DOMAIN servers /\ servers'[j] = servers[j])
                                    \/ (j = l + 1 /\ servers'[j] = spawned)
      /\ servers # <<>> => l = 1
  BY <1>1, <1>2
<1> HIDE DEF l
<1>4. /\ mgr'.wait \in {"main", "ended", "path"}
      /\ servers # <<>> => mgr' = Over("redistribute", Paths)
  <2>1. CASE servers = <<>>
    BY <1>2, <2>1, BodyTurns DEF SetupAnswer
  <2>2. CASE servers # <<>>
    <3>1. mgr' = Over("redistribute", Paths)
      BY <2>2 DEF SetupAnswer
    <3>2. Paths \in Seq(Collections)
      BY <1>2, PathsType
    <3> HIDE DEF Over, Paths
    <3>3. mgr'.wait = "path"
      BY <3>1, <3>2, OverType
    <3> QED  BY <2>2, <3>1, <3>3
  <2> QED  BY <2>1, <2>2
<1>5. \A j : ~Passed(j) /\ ~Passed(j)'
  BY <1>1, <1>4 DEF Passed, Broadcasting
<1>6. DOMAIN seps' = DOMAIN seps
  BY <1>1 DEF SepsGrown
<1>7. AddsNew'
  BY <1>5 DEF AddsNew
<1>8. SUFFICES ASSUME Settled', NEW j \in DOMAIN servers', proc'[servers'[j]] = "up"
               PROVE  HasAll(j)' \/ (j = 2 /\ Blank')
  BY <1>7 DEF FullInv
<1>9. CASE j \in DOMAIN servers /\ servers'[j] = servers[j]
  <2>1. j # 2
    BY <1>2, <1>9
  <2>2. HasAll(j)
    BY <1>1, <1>8, <1>9, <2>1 DEF FullInv
  <2> QED  BY <1>1, <1>5, <1>6, <1>9, <2>2 DEF HasAll
<1>10. CASE j = l + 1 /\ servers'[j] = spawned
  <2>1. DOMAIN store'[servers'[j]] = {}
    BY <1>1, <1>10 DEF PidInv
  <2>2. CASE DOMAIN seps = {}
    BY <1>5, <1>6, <2>1, <2>2 DEF HasAll
  <2>3. CASE DOMAIN seps # {}
    <3>1. servers # <<>> /\ l = 1 /\ j = 2
      BY <1>2, <1>3, <1>10, <2>3 DEF KnownType
    <3>2. Paths # <<>> /\ Paths \in Seq(Collections)
      <4>1. DOMAIN seps \subseteq ToSet(Paths) /\ Paths \in Seq(Collections)
        BY <1>2, PathsAll, PathsType
      <4> HIDE DEF Paths
      <4>2. Paths = <<>> => ToSet(Paths) = {}
        BY DEF ToSet
      <4> QED  BY <2>3, <4>1, <4>2
    <3> HIDE DEF Paths, Over
    <3>3. mgr'.job = "redistribute" /\ mgr'.todo = Paths /\ mgr'.wait = "path"
      BY <1>4, <3>1, <3>2, OverType
    <3>4. Blank'
      BY <2>1, <3>1, <3>2, <3>3 DEF Blank, Late
    <3> QED  BY <3>1, <3>4
  <2> QED  BY <2>2, <2>3
<1> QED  BY <1>3, <1>8, <1>9, <1>10

(* A broadcast begins with the first server.                               *)
LEMMA FullBegins ==
  ASSUME TypeInv, TypeInv', PidInv, BroadcastInv, FullInv, HandleStruct, servers # <<>>, Settled' => Settled
  PROVE  FullInv'
<1> DEFINE m    == Head(requests)
           wait == IF m.cmd \in AddStruct THEN "struct_add" ELSE "struct_dispose"
<1>1. /\ UNCHANGED <<proc, store, servers, box, seps>> /\ mgr.wait = "main" /\ SendStruct(1, m, wait)
  BY DEF HandleStruct, Asked, Outside, data
<1>2. mgr'.wait = wait /\ mgr'.i = 1
  BY <1>1, StructSent
<1>3. SUFFICES ASSUME Settled'
               PROVE  /\ \A j \in DOMAIN servers : proc[servers[j]] = "up" => HasAll(j)' \/ (j = 2 /\ Blank')
                      /\ AddsNew'
  BY <1>1 DEF FullInv
<1>4. Settled /\ mgr.wait # "rollback" /\ ~Broadcasting /\ ~Late
  BY <1>1, <1>3 DEF Broadcasting, Late
<1>5. box'["added"] = <<>> /\ box'["disposed"] = <<>>
  BY <1>1, <1>4, SettledSound DEF BroadcastInv
<1>6. \A j \in DOMAIN servers : ~Passed(j) /\ ~Passed(j)'
  <2>1. \A j \in DOMAIN servers : ~(j < 1)
    BY DEF TypeInv, KnownType
  <2>2. box'[Back'] = <<>>
    BY <1>5 DEF Back
  <2> QED  BY <1>2, <1>4, <2>1, <2>2 DEF Passed
<1>7. 1 \in DOMAIN servers
  BY DEF TypeInv, KnownType
<1> HIDE DEF m, wait
<1>8. AddsNew'
  BY <1>1, <1>6, <1>7 DEF AddsNew
<1>9. ASSUME NEW j \in DOMAIN servers, proc[servers[j]] = "up"
      PROVE  HasAll(j)' \/ (j = 2 /\ Blank')
  <2>1. HasAll(j) \/ (j = 2 /\ Blank)
    BY <1>4, <1>9 DEF FullInv
  <2>2. HasAll(j) => HasAll(j)'
    BY <1>1, <1>6 DEF HasAll
  <2>3. Blank => Blank'
    BY <1>1, <1>2, <1>4, <1>5 DEF Blank
  <2> QED  BY <2>1, <2>2, <2>3
<1> QED  BY <1>8, <1>9

(* A server carries out what is broadcast, or says why not.                *)
LEMMA FullServed ==
  ASSUME TypeInv, TypeInv', PidInv, NestInv, BroadcastInv, FullInv, Settled' => Settled,
         NEW p \in Pids, NEW m, NEW b \in {"added", "disposed"}, ServesStruct(p, m, b)
  PROVE  FullInv'
<1>1. SUFFICES ASSUME Settled', mgr'.wait # "rollback"
               PROVE  /\ \A j \in DOMAIN servers' :
                           proc'[servers'[j]] = "up" => HasAll(j)' \/ (j = 2 /\ Blank')
                      /\ AddsNew'
  BY DEF FullInv
<1>2. /\ UNCHANGED <<mgr, servers, proc, seps>> /\ Settled /\ faults' = 0 /\ proc[p] = "up"
      /\ mgr.wait # "rollback" /\ Sound /\ "dropped_above" \notin past'
  BY <1>1, SettledSound DEF ServesStruct, Settled, Orderly
<1>3. /\ Broadcasting /\ m = mgr.msg /\ b = Back /\ box[Back] = <<>> /\ p = servers[mgr.i]
  BY <1>2, StructTaken
<1>4. PICK a : box' = [box EXCEPT ![b] = Append(@, a)] /\ AnswersStruct(m, p, a)
  BY DEF ServesStruct
<1>5. Back' = Back /\ Broadcasting' /\ (mgr.wait = "struct_add" => Back = "added") /\ Renewed' = Renewed
      /\ ~Late /\ ~Late'
  BY <1>2, <1>3 DEF Back, Broadcasting, Renewed, Late
<1>6. box'[Back'] # <<>> /\ (mgr.wait = "struct_add" => box'["added"][1] = a)
  <2>1. box \in [Boxes -> Seq(Asking)] /\ Back \in Boxes
    BY DEF TypeInv, MailType, Boxes, Back
  <2>2. Append(<<>>, a) = <<a>> /\ <<a>> # <<>> /\ <<a>>[1] = a
    OBVIOUS
  <2>3. box'[Back] = <<a>>
    BY <1>3, <1>4, <2>1, <2>2
  <2> QED  BY <1>5, <2>2, <2>3
<1>7. \/ Works(m, p) /\ a.status = "OK" /\ Does(m, p)
      \/ ~Works(m, p) /\ a.status # "OK" /\ DoesNot
  BY <1>2, <1>4 DEF AnswersStruct
<1>8. /\ mgr.i \in DOMAIN servers /\ mgr.i \in 1 .. 2 /\ servers \in Seq(Pids)
      /\ \A j \in DOMAIN servers : j \in 1 .. 2 /\ servers[j] \in Pids
  <2>1. servers \in Seq(Pids) /\ Len(servers) <= 2 /\ mgr.i \in DOMAIN servers
    BY <1>3 DEF TypeInv, KnownType, MaxServers, PidInv
  <2>2. \A j \in DOMAIN servers : j \in 1 .. 2 /\ servers[j] \in Pids
    BY <2>1
  <2> QED  BY <2>1, <2>2
<1>9. \A j \in DOMAIN servers : proc[servers[j]] = "up" => HasAll(j) \/ (j = 2 /\ Blank)
  BY <1>2 DEF FullInv
<1>10. DOMAIN store'[p] = IF Works(m, p) THEN DomainAfter(m, DOMAIN store[p]) ELSE DOMAIN store[p]
  BY <1>7 DEF Does, DoesNot
<1>11. /\ m.cmd \in (IF mgr.wait = "struct_add" THEN AddStruct ELSE DropStruct)
       /\ m.named \/ m.cmd \in {"DISPOSE_POOL", "DISPOSE_SCHEMA"}
  BY <1>2, <1>3 DEF BroadcastInv
<1>12. ~Passed(mgr.i)
  BY <1>3, <1>8 DEF Passed
<1>13. \A j : j = mgr.i => (Passed(j)' <=> (mgr.wait = "struct_add" => a.status = "OK"))
  BY <1>2, <1>3, <1>5, <1>6, <1>8 DEF Passed
<1>14. AddsNew'
  <2>1. SUFFICES ASSUME mgr.wait = "struct_add", m.cmd = "ADD_COLLECTION", Passed(1)'
                 PROVE  m.coll \notin DOMAIN seps
    BY <1>2, <1>3 DEF AddsNew
  <2>2. CASE mgr.i = 2
    <3>1. Passed(1)
      BY <1>3, <2>2 DEF Passed
    <3> QED  BY <1>2, <1>3, <2>1, <3>1 DEF FullInv, AddsNew
  <2>3. CASE mgr.i = 1
    <3>1. Works(m, p)
      BY <1>7, <1>13, <2>1, <2>3
    <3>2. m.coll \notin DOMAIN store[p]
      BY <2>1, <3>1 DEF Works, Exists, AddStruct
    <3>3. DOMAIN store[p] = DOMAIN seps
      BY <1>2, <1>3, <1>8, <1>9, <1>12, <2>3 DEF HasAll
    <3> QED  BY <3>2, <3>3
  <2> QED  BY <1>8, <2>2, <2>3
<1>15. ASSUME NEW j \in DOMAIN servers, proc[servers[j]] = "up"
       PROVE  HasAll(j)' \/ (j = 2 /\ Blank')
  <2>1. CASE j # mgr.i
    <3>1. servers[j] # p
      BY <1>3, <1>8, <1>15, <2>1 DEF PidInv
    <3>2. DOMAIN store'[servers[j]] = DOMAIN store[servers[j]]
      BY <1>7, <1>8, <3>1 DEF Does, DoesNot
    <3>3. Passed(j)' <=> Passed(j)
      BY <1>2, <1>3, <1>5, <2>1 DEF Passed
    <3>4. HasAll(j)
      <4>1. SUFFICES ASSUME j = 2, Blank  PROVE FALSE
        BY <1>9, <1>15
      <4>2. mgr.i = 1
        BY <1>8, <2>1, <4>1
      <4> QED  BY <1>2, <1>3, <1>5, <4>1, <4>2 DEF Blank
    <3> QED  BY <1>2, <1>5, <3>2, <3>3, <3>4 DEF HasAll
  <2>2. CASE j = mgr.i /\ Blank /\ j = 2
    <3>1. mgr.wait # "struct_add" /\ DOMAIN store[p] = {}
      BY <1>3, <2>2 DEF Blank
    <3>2. m.cmd \in DropStruct
      BY <1>11, <3>1
    <3>3. DOMAIN store'[p] = {}
      BY <1>10, <3>1, <3>2 DEF DomainAfter, DropStruct
    <3> QED  BY <1>2, <1>3, <1>5, <2>2, <3>1, <3>3 DEF Blank
  <2>3. CASE j = mgr.i /\ HasAll(j)
    <3> DEFINE d == DOMAIN store[p]
    <3>1. d = DOMAIN seps
      BY <1>3, <1>12, <2>3 DEF HasAll
    <3>2. SUFFICES DOMAIN store'[p] = IF Passed(j)' THEN Renewed ELSE DOMAIN seps
      BY <1>2, <1>3, <1>5, <2>3 DEF HasAll
    <3>3. Renewed = CASE m.cmd = "ADD_COLLECTION" -> DOMAIN seps \cup {m.coll}
                      [] m.cmd = "DISPOSE_COLLECTION" -> DOMAIN seps \ {m.coll}
                      [] OTHER -> DOMAIN seps
      BY <1>3 DEF Renewed
    <3>4. CASE mgr.wait = "struct_add"
      <4>1. m.cmd \in AddStruct /\ (Passed(j)' <=> Works(m, p))
        BY <1>7, <1>11, <1>13, <2>3, <3>4
      <4>2. m.cmd = "ADD_COLLECTION" =>
              DomainAfter(m, d) = d \cup {m.coll} /\ Renewed = DOMAIN seps \cup {m.coll}
        BY <3>3 DEF DomainAfter
      <4>3. m.cmd # "ADD_COLLECTION" => DomainAfter(m, d) = d /\ Renewed = DOMAIN seps
        BY <3>3, <4>1 DEF DomainAfter, AddStruct
      <4> HIDE DEF d
      <4> QED  BY <1>10, <3>1, <4>1, <4>2, <4>3 DEF d
    <3>5. CASE mgr.wait # "struct_add"
      <4>1. m.cmd \in DropStruct /\ Passed(j)'
        BY <1>11, <1>13, <2>3, <3>5
      <4>2. CASE m.cmd = "DISPOSE_COLLECTION"
        <5>1. Renewed = DOMAIN seps \ {m.coll} /\ DomainAfter(m, d) = d \ {m.coll}
          BY <3>3, <4>2 DEF DomainAfter
        <5>2. ~Works(m, p) => m.coll \notin d
          BY <1>11, <4>2 DEF Works, AboveExists, Exists, NestInv, AddStruct
        <5> HIDE DEF d
        <5> QED  BY <1>10, <3>1, <4>1, <5>1, <5>2 DEF d
      <4>3. CASE m.cmd # "DISPOSE_COLLECTION"
        <5>1. m.cmd \in {"DISPOSE_POOL", "DISPOSE_SCHEMA"} /\ Renewed = DOMAIN seps
              /\ DomainAfter(m, d) = {}
          BY <3>3, <4>1, <4>3 DEF DomainAfter, DropStruct
        <5>2. Works(m, p) => d = {}
          BY <1>2, <5>1 DEF ServesStruct
        <5> HIDE DEF d
        <5> QED  BY <1>10, <3>1, <4>1, <5>1, <5>2 DEF d
      <4> QED  BY <4>2, <4>3
    <3> QED  BY <3>4, <3>5
  <2> QED  BY <1>9, <1>15, <2>1, <2>2, <2>3
<1> QED  BY <1>2, <1>14, <1>15

(* The broadcast goes on to the second server, which has to have what the  *)
(* first one had.                                                          *)
LEMMA FullAdvances ==
  ASSUME TypeInv, TypeInv', PidInv, BroadcastInv, FullInv, Settled' => Settled, Broadcasting,
         NEW m, Received(Back, m),
         UNCHANGED <<proc, store, servers, seps>>,
         mgr.i < Len(servers), SendStruct(mgr.i + 1, m, mgr.wait),
         mgr.wait = "struct_add" => box["added"] # <<>> /\ m.status = "OK"
  PROVE  FullInv'
<1> DEFINE l == Len(servers)
<1>1. /\ servers \in Seq(Pids) /\ l \in Nat /\ l <= 2 /\ DOMAIN servers = 1 .. l
      /\ mgr.i \in DOMAIN servers
  <2>1. servers \in Seq(Pids) /\ l <= 2
    BY DEF TypeInv, KnownType, MaxServers
  <2>2. mgr.i \in DOMAIN servers
    BY DEF PidInv
  <2> QED  BY <2>1, <2>2
<1>2. l = 2 /\ mgr.i = 1 /\ mgr.i + 1 = 2 /\ DOMAIN servers = {1, 2}
  <2> HIDE DEF l
  <2>1. mgr.i \in 1 .. l /\ mgr.i < l /\ l \in Nat /\ l <= 2
    BY <1>1 DEF l
  <2>2. l = 2 /\ mgr.i = 1
    BY <2>1
  <2> QED  BY <1>1, <2>2
<1>3. mgr'.wait = mgr.wait /\ mgr'.i = 2 /\ mgr'.msg = m
  BY <1>2, StructSent
<1>4. /\ Broadcasting' /\ Back' = Back /\ mgr.wait # "rollback" /\ ~Late
      /\ mgr.wait = "struct_add" => Back = "added"
  BY <1>3 DEF Broadcasting, Back, Late
<1>5. SUFFICES ASSUME Settled'
               PROVE  /\ \A j \in DOMAIN servers : proc[servers[j]] = "up" => HasAll(j)' \/ (j = 2 /\ Blank')
                      /\ AddsNew'
  BY DEF FullInv
<1>6. Settled /\ Heard(m)
  BY <1>5, StructHeard DEF Settled, Orderly
<1>7. Renewed' = Renewed
  BY <1>3, <1>6 DEF Renewed, Heard
<1>8. box'[Back'] = <<>>
  BY <1>6 DEF Heard, Back
<1>9. Passed(1)' /\ ~Passed(2)' /\ ~Passed(2)
  BY <1>2, <1>3, <1>4, <1>8 DEF Passed
<1>10. box[Back] # <<>> => Passed(1)
  BY <1>2, <1>4, <1>6 DEF Passed, Heard
<1>11. AddsNew'
  BY <1>3, <1>4, <1>6, <1>10 DEF FullInv, AddsNew, Heard
<1>12. \A j \in DOMAIN servers : proc[servers[j]] = "up" => HasAll(j) \/ (j = 2 /\ Blank)
  BY <1>4, <1>6 DEF FullInv
<1>13. ASSUME proc[servers[1]] = "up"  PROVE HasAll(1)'
  <2>1. Passed(1)
    BY <1>2, <1>6, <1>10, <1>13 DEF Heard
  <2>2. HasAll(1)
    BY <1>2, <1>12, <1>13
  <2> QED  BY <1>7, <1>9, <2>1, <2>2 DEF HasAll
<1>14. ASSUME proc[servers[2]] = "up"  PROVE HasAll(2)' \/ Blank'
  <2>1. HasAll(2) => HasAll(2)'
    BY <1>9 DEF HasAll
  <2>2. Blank => Blank'
    BY <1>3, <1>4 DEF Blank
  <2> QED  BY <1>2, <1>12, <1>14, <2>1, <2>2
<1> QED  BY <1>2, <1>11, <1>13, <1>14

(* The broadcast is over: every server has what the manager knows now.     *)
LEMMA FullOver ==
  ASSUME TypeInv, TypeInv', PidInv, BroadcastInv, FullInv, Settled' => Settled, Broadcasting,
         NEW m, Received(Back, m), UNCHANGED <<proc, store, servers>>, Return,
         \/ /\ mgr.i = Len(servers)
            /\ mgr.wait = "struct_add" => box["added"] # <<>> /\ m.status = "OK"
            /\ m.cmd = mgr.msg.cmd /\ m.coll = mgr.msg.coll /\ Sound => DOMAIN seps' = Renewed
         \/ /\ mgr.i = 1 /\ mgr.wait = "struct_add"
            /\ ~(box["added"] # <<>> /\ m.status = "OK")
            /\ DOMAIN seps' = DOMAIN seps
  PROVE  FullInv'
<1> DEFINE l == Len(servers)
           all == /\ mgr.i = Len(servers)
                  /\ mgr.wait = "struct_add" => box["added"] # <<>> /\ m.status = "OK"
                  /\ m.cmd = mgr.msg.cmd /\ m.coll = mgr.msg.coll /\ Sound => DOMAIN seps' = Renewed
           nothing == /\ mgr.i = 1 /\ mgr.wait = "struct_add"
                      /\ ~(box["added"] # <<>> /\ m.status = "OK")
                      /\ DOMAIN seps' = DOMAIN seps
<1>1. /\ KnownType /\ run \in BOOLEAN /\ servers \in Seq(Pids) /\ l \in Nat
      /\ DOMAIN servers = 1 .. l /\ mgr.i \in DOMAIN servers
  <2>1. servers \in Seq(Pids) /\ KnownType /\ run \in BOOLEAN
    BY DEF TypeInv, KnownType, HistoryType
  <2>2. mgr.i \in DOMAIN servers
    BY DEF PidInv
  <2> QED  BY <2>1, <2>2
<1>2. mgr'.wait \in {"main", "ended", "path"}
  BY <1>1, BodyTurns DEF Return
<1>3. ~Broadcasting' /\ (mgr.wait = "struct_add" => Back = "added") /\ mgr.wait # "rollback" /\ ~Late
  BY <1>2 DEF Broadcasting, Back, Late
<1>5. all \/ nothing
  OBVIOUS
<1> HIDE DEF all, nothing
<1>6. SUFFICES ASSUME Settled', NEW j \in DOMAIN servers, proc[servers[j]] = "up"
               PROVE  HasAll(j)' \/ (j = 2 /\ Blank')
  BY <1>3 DEF FullInv, AddsNew, Passed
<1>7. Settled /\ Sound /\ Heard(m)
  BY <1>6, StructHeard DEF Settled, Orderly
<1>8. HasAll(j) \/ (j = 2 /\ Blank)
  BY <1>3, <1>6, <1>7 DEF FullInv
<1>9. mgr.i = j => box[Back] # <<>> /\ m = box[Back][1]
  BY <1>6, <1>7 DEF Heard
<1>10. CASE j = 2 /\ Blank
  <2>1. mgr.wait # "struct_add" \/ proc[servers[1]] # "up"
    BY <1>3, <1>10 DEF Blank
  <2>2. proc[servers[1]] # "up"
    BY <1>3, <1>10 DEF Blank
  <2> QED  BY <1>2, <1>10, <2>2 DEF Blank
<1>11. CASE HasAll(j) /\ all
  <2>1. DOMAIN seps' = Renewed
    BY <1>7, <1>11 DEF all, Heard
  <2>2. j < mgr.i \/ j = mgr.i
    <3>1. mgr.i = l
      BY <1>11 DEF all
    <3> HIDE DEF l
    <3> QED  BY <1>1, <3>1
  <2>3. Passed(j)
    BY <1>3, <1>9, <1>11, <2>2 DEF Passed, all
  <2> QED  BY <1>3, <1>11, <2>1, <2>3 DEF HasAll, Passed
<1>12. CASE HasAll(j) /\ nothing
  <2>1. mgr.i = 1 /\ mgr.wait = "struct_add" /\ DOMAIN seps' = DOMAIN seps
    BY <1>12 DEF nothing
  <2>2. ~(j < mgr.i)
    BY <1>1, <2>1
  <2>3. ~Passed(j)
    BY <1>3, <1>9, <1>12, <2>1, <2>2 DEF Passed, nothing
  <2> QED  BY <1>3, <1>12, <2>1, <2>3 DEF HasAll, Passed
<1> QED  BY <1>5, <1>8, <1>10, <1>11, <1>12

(* The steps of a broadcast.                                               *)
LEMMA FullBroadcasts ==
  ASSUME TypeInv, TypeInv', PidInv, BroadcastInv, FullInv, Settled' => Settled,
         AddStructGoesOn \/ RollbackGoesOn \/ DisposeStructGoesOn
  PROVE  FullInv'
<1>1. UNCHANGED <<proc, store, servers>>
  BY DEF AddStructGoesOn, RollbackGoesOn, DisposeStructGoesOn, Outside, data
<1>2. ASSUME NEW i, NEW m, SendStruct(i, m, "rollback")  PROVE FullInv'
  BY <1>2, StructSent DEF FullInv
<1>3. CASE RollbackGoesOn
  BY <1>2, <1>3 DEF RollbackGoesOn
<1>4. CASE AddStructGoesOn
  <2> DEFINE ok(m) == box["added"] # <<>> /\ m.status = "OK"
  <2>1. PICK m, back :
          /\ Received("added", m)
          /\ \/ /\ ~ok(m) /\ mgr.i = 1 /\ Return /\ UNCHANGED <<inbox, seps>>
             \/ /\ ~ok(m) /\ mgr.i > 1 /\ SendStruct(mgr.i - 1, back, "rollback")
             \/ /\ ok(m) /\ mgr.i < Len(servers) /\ SendStruct(mgr.i + 1, m, "struct_add")
                /\ UNCHANGED seps
             \/ /\ ok(m) /\ mgr.i = Len(servers) /\ Return /\ UNCHANGED inbox
                /\ seps' = IF m.cmd = "ADD_COLLECTION" THEN SepsWith(m.coll) ELSE seps
    BY <1>4, AddGoesOn
  <2>2. mgr.wait = "struct_add" /\ Broadcasting /\ Back = "added"
    BY <1>4, AddGoesOn
  <2>3. CASE ~ok(m) /\ mgr.i = 1 /\ Return /\ UNCHANGED <<inbox, seps>>
    BY <1>1, <2>1, <2>2, <2>3, FullOver
  <2>4. CASE ~ok(m) /\ mgr.i > 1 /\ SendStruct(mgr.i - 1, back, "rollback")
    BY <1>2, <2>4
  <2>5. CASE /\ ok(m) /\ mgr.i < Len(servers) /\ SendStruct(mgr.i + 1, m, "struct_add")
             /\ UNCHANGED seps
    BY <1>1, <2>1, <2>2, <2>5, FullAdvances
  <2>6. CASE /\ ok(m) /\ mgr.i = Len(servers) /\ Return /\ UNCHANGED inbox
             /\ seps' = IF m.cmd = "ADD_COLLECTION" THEN SepsWith(m.coll) ELSE seps
    <3>1. m.cmd = mgr.msg.cmd /\ m.coll = mgr.msg.coll /\ Sound => DOMAIN seps' = Renewed
      <4>1. SUFFICES ASSUME m.cmd = mgr.msg.cmd, m.coll = mgr.msg.coll, Sound
                     PROVE  DOMAIN seps' = Renewed
        OBVIOUS
      <4>2. m.cmd \in AddStruct
        BY <2>2, <4>1 DEF BroadcastInv
      <4>3. m.cmd # "DISPOSE_COLLECTION"
        BY <4>2 DEF AddStruct
      <4> QED  BY <2>6, <4>1, <4>3 DEF SepsWith, Renewed
    <3> QED  BY <1>1, <2>1, <2>2, <2>6, <3>1, FullOver
  <2> QED  BY <2>1, <2>3, <2>4, <2>5, <2>6
<1>5. CASE DisposeStructGoesOn
  <2>1. PICK m : /\ Received("disposed", m)
                 /\ \/ /\ mgr.i < Len(servers) /\ SendStruct(mgr.i + 1, m, "struct_dispose")
                       /\ UNCHANGED seps
                    \/ /\ ~(mgr.i < Len(servers)) /\ Return /\ UNCHANGED inbox
                       /\ seps' = IF m.cmd = "DISPOSE_COLLECTION"
                                  THEN [c \in DOMAIN seps \ {m.coll} |-> seps[c]] ELSE seps
    BY <1>5 DEF DisposeStructGoesOn
  <2>2. mgr.wait = "struct_dispose" /\ Broadcasting /\ Back = "disposed"
    BY <1>5 DEF DisposeStructGoesOn, Broadcasting, Back
  <2>3. CASE /\ mgr.i < Len(servers) /\ SendStruct(mgr.i + 1, m, "struct_dispose")
             /\ UNCHANGED seps
    BY <1>1, <2>1, <2>2, <2>3, FullAdvances
  <2>4. CASE /\ ~(mgr.i < Len(servers)) /\ Return /\ UNCHANGED inbox
             /\ seps' = IF m.cmd = "DISPOSE_COLLECTION"
                        THEN [c \in DOMAIN seps \ {m.coll} |-> seps[c]] ELSE seps
    <3>1. m.cmd = mgr.msg.cmd /\ m.coll = mgr.msg.coll /\ Sound => DOMAIN seps' = Renewed
      <4>1. SUFFICES ASSUME m.cmd = mgr.msg.cmd, m.coll = mgr.msg.coll, Sound
                     PROVE  DOMAIN seps' = Renewed
        OBVIOUS
      <4>2. m.cmd \in DropStruct
        BY <2>2, <4>1 DEF BroadcastInv
      <4>3. m.cmd # "ADD_COLLECTION"
        BY <4>2 DEF DropStruct
      <4> QED  BY <2>4, <4>1, <4>3 DEF Renewed
    <3>2. mgr.i = Len(servers)
      <4> DEFINE l == Len(servers)
      <4>1. servers \in Seq(Pids) /\ mgr.i \in DOMAIN servers
        BY <2>2 DEF TypeInv, KnownType, PidInv
      <4>2. l \in Nat /\ mgr.i \in 1 .. l /\ ~(mgr.i < l)
        BY <2>4, <4>1
      <4> HIDE DEF l
      <4>3. mgr.i = l
        BY <4>2
      <4> QED  BY <4>3 DEF l
    <3> QED  BY <1>1, <2>1, <2>2, <2>4, <3>1, <3>2, FullOver
  <2> QED  BY <2>1, <2>3, <2>4
<1> QED  BY <1>3, <1>4, <1>5

(* Every step keeps it.                                                    *)
LEMMA FullStep ==
  ASSUME TypeInv, TypeInv', StructInv, CountInv, FullInv, [Next]_vars
  PROVE  FullInv'
<1>0. PidInv /\ NestInv /\ BroadcastInv /\ (Settled' => Settled)
  BY TimeGoesOn DEF StructInv
<1>1. CASE UNCHANGED vars \/ \E c \in Clients : Request(c) \/ Client(c)
  <2>1. UNCHANGED <<proc, store, servers, seps, mgr, has>> /\ UNCHANGED <<past, faults>>
        /\ UNCHANGED box
    BY <1>1 DEF vars, mail, data, Request, Client, TakeReply, TakeRangeReply, ClientTimeout
  <2>2. Calm /\ Remain /\ (Late' <=> Late)
    BY <2>1 DEF Calm, Remain, Late
  <2> QED  BY <1>0, <2>1, <2>2, FullKept
<1>2. CASE \E p \in Pids : Server(p)
  <2>1. PICK p \in Pids : Server(p)
    BY <1>2
  <2>2. CASE ServeAddStruct(p) \/ ServeDisposeStruct(p)
    BY <1>0, <2>2, AddShape, DropShape, FullServed
  <2>3. CASE ~(ServeAddStruct(p) \/ ServeDisposeStruct(p))
    <3>1. ServesAside(p)
      BY <2>1, <2>3, ServerAside DEF Server
    <3> QED  BY <1>0, <2>1, <3>1, FullServes
  <2> QED  BY <2>2, <2>3
<1>3. CASE ForwardAnswer \/ ForwardRequest \/ CountAnswer \/ CountTimeout
           \/ BeginTransfer \/ TransferAnswer \/ TransferTimeout \/ HandleShutdown \/ HandleTerminate
  <2>1. Aside
    BY <1>3, AsideForward, AsideCount, AsideBegin, AsideTransfer, AsideTyped
  <2>2. Manager \/ HandleTerminate
    BY <1>3 DEF Manager
  <2> QED  BY <1>0, <2>1, <2>2, FullManager
<1>4. CASE HandleStruct
  <2>1. CASE servers = <<>>
    <3>1. Aside /\ Manager
      BY <1>4, <2>1, AsideStruct DEF Manager
    <3> QED  BY <1>0, <3>1, FullManager
  <2>2. CASE servers # <<>>
    BY <1>0, <1>4, <2>2, FullBegins
  <2> QED  BY <2>1, <2>2
<1>5. CASE AddStructGoesOn \/ RollbackGoesOn \/ DisposeStructGoesOn
  BY <1>0, <1>5, FullBroadcasts
<1>6. CASE NextPath
  <2>1. CASE mgr.todo = <<>> /\ mgr.job = "terminate"
    BY <1>0, <1>6, <2>1, FullFewer
  <2>2. CASE ~(mgr.todo = <<>> /\ mgr.job = "terminate")
    <3>1. Aside /\ Manager
      BY <1>6, <2>2, AsideNextPath DEF Manager
    <3> QED  BY <1>0, <3>1, FullManager
  <2> QED  BY <2>1, <2>2
<1>7. CASE SetupAnswer
  BY <1>0, <1>7, FullSetup
<1>8. CASE SetupTimeout \/ HandleRun
  BY <1>0, <1>8, FullFewer
<1>9. CASE TypeShutdown
  BY <1>9 DEF TypeShutdown, FullInv, Settled
<1> QED  BY <1>1, <1>2, <1>3, <1>4, <1>5, <1>6, <1>7, <1>8, <1>9 DEF Next, Manager, Terminal

-----------------------------------------------------------------------------
(* Two servers share the keys of a collection at its first separator; the  *)
(* others are the greatest, for there were never more than two.            *)
SepsInv ==
  \A c \in DOMAIN seps :
    /\ \A i \in DOMAIN seps[c] : i > 1 => seps[c][i] = Top
    /\ Len(servers) <= Len(seps[c]) + 1

(* The separators after a transfer.                                        *)
LEMMA SepsEnded ==
  ASSUME TypeInv, SepsInv, EndTransfer, mgr.wait = "dispose"
  PROVE  /\ DOMAIN seps' = DOMAIN seps /\ Head(mgr.todo) \in DOMAIN seps
         /\ \A c \in DOMAIN seps : /\ c # Head(mgr.todo) => seps'[c] = seps[c]
                                   /\ DOMAIN seps'[c] = DOMAIN seps[c] /\ Len(seps'[c]) = Len(seps[c])
                                   /\ \A i \in DOMAIN seps[c] : i > 1 => seps'[c][i] = seps[c][i]
         /\ 1 \in DOMAIN seps[Head(mgr.todo)] /\ seps'[Head(mgr.todo)] # <<>>
         /\ seps'[Head(mgr.todo)][1] = mgr.newsep
<1> DEFINE h == Head(mgr.todo)
<1>1. /\ seps \in [DOMAIN seps -> Seq(Keys \cup {Top})] /\ mgr.newsep \in Keys \cup {Top}
      /\ h \in DOMAIN seps /\ Len(servers) = 2
  <2>1. mgr.todo \in Seq(DOMAIN seps) /\ mgr.todo # <<>> /\ mgr.newsep \in Keys /\ Len(servers) = 2
    BY DEF TypeInv, MgrType, TransferWaits, MaxServers
  <2> QED  BY <2>1 DEF TypeInv, KnownType, IsMap
<1> HIDE DEF h
<1>2. seps' = [seps EXCEPT ![h][1] = mgr.newsep]
  BY DEF EndTransfer, h
<1> DEFINE s == seps[h]
           t == [s EXCEPT ![1] = mgr.newsep]
<1>3. s \in Seq(Keys \cup {Top}) /\ seps' = [seps EXCEPT ![h] = t]
  BY <1>1, <1>2
<1>4. Len(s) \in Nat /\ 2 <= Len(s) + 1 /\ DOMAIN s = 1 .. Len(s)
  BY <1>1, <1>3 DEF SepsInv
<1>5. /\ t \in Seq(Keys \cup {Top}) /\ DOMAIN t = DOMAIN s
      /\ \A i \in DOMAIN s : i # 1 => t[i] = s[i]
  BY <1>1, <1>3, ChangedType
<1>6. 1 \in DOMAIN s
  <2> DEFINE l == Len(s)
  <2> HIDE DEF l, s, t
  <2> QED  BY <1>4 DEF l
<1>7. t[1] = mgr.newsep /\ Len(t) = Len(s) /\ t # <<>>
  <2>1. t[1] = mgr.newsep
    BY <1>6
  <2>2. DOMAIN t = 1 .. Len(t) /\ Len(t) \in Nat
    BY <1>5
  <2> HIDE DEF s, t
  <2> QED  BY <1>4, <1>5, <1>6, <2>1, <2>2
<1> HIDE DEF t
<1>8. /\ DOMAIN seps' = DOMAIN seps /\ seps'[h] = t
      /\ \A c \in DOMAIN seps : c # h => seps'[c] = seps[c]
  BY <1>1, <1>3
<1>9. ASSUME NEW c \in DOMAIN seps
      PROVE  /\ c # h => seps'[c] = seps[c]
             /\ DOMAIN seps'[c] = DOMAIN seps[c] /\ Len(seps'[c]) = Len(seps[c])
             /\ \A i \in DOMAIN seps[c] : i > 1 => seps'[c][i] = seps[c][i]
  <2>1. CASE c # h
    BY <1>8, <2>1
  <2>2. CASE c = h
    <3>1. \A i : i > 1 => i # 1
      OBVIOUS
    <3> QED  BY <1>5, <1>7, <1>8, <2>2, <3>1
  <2> QED  BY <2>1, <2>2
<1>10. 1 \in DOMAIN seps[h] /\ seps'[h] # <<>> /\ seps'[h][1] = mgr.newsep
  BY <1>6, <1>7, <1>8
<1>11. DOMAIN seps' = DOMAIN seps /\ h \in DOMAIN seps
  BY <1>1, <1>8
<1> HIDE DEF s
<1> QED  BY <1>9, <1>10, <1>11 DEF h

(* Every step keeps the separators so.                                     *)
LEMMA SepsStep ==
  ASSUME TypeInv, TypeInv', SepsInv, [Next]_vars
  PROVE  SepsInv'
<1>1. CASE UNCHANGED <<servers, seps>>
  BY <1>1 DEF SepsInv
<1>2. /\ seps \in [DOMAIN seps -> Seq(Keys \cup {Top})] /\ servers \in Seq(Pids)
      /\ Len(servers) \in Nat
  <2>1. servers \in Seq(Pids)
    BY DEF TypeInv, KnownType
  <2> QED  BY <2>1 DEF TypeInv, KnownType, IsMap
<1>3. CASE SetupAnswer
  <2>1. servers' = Append(servers, spawned) /\ seps' = SepsGrown /\ spawned \in Pids
    BY <1>3 DEF SetupAnswer, TypeInv, ServersType
  <2>2. CASE servers = <<>>
    <3>1. DOMAIN seps' = {}
      BY <2>1, <2>2 DEF SepsGrown, TypeInv, KnownType
    <3> QED  BY <3>1 DEF SepsInv
  <2>3. CASE servers # <<>>
    <3>1. SUFFICES ASSUME NEW c \in DOMAIN seps
                   PROVE  LET t == Append(seps[c], Top)
                          IN  /\ \A i \in DOMAIN t : i > 1 => t[i] = Top
                              /\ Len(servers') <= Len(t) + 1
      BY <2>1, <2>3 DEF SepsInv, SepsGrown
    <3> DEFINE s == seps[c]
               l == Len(servers)
    <3>2. s \in Seq(Keys \cup {Top}) /\ l <= Len(s) + 1 /\ \A i \in DOMAIN s : i > 1 => s[i] = Top
      BY <1>2 DEF SepsInv
    <3>3. Len(servers') = l + 1
      BY <1>2, <2>1
    <3> HIDE DEF s, l
    <3>4. /\ \A i \in DOMAIN Append(s, Top) : i > 1 => Append(s, Top)[i] = Top
          /\ Len(Append(s, Top)) = Len(s) + 1 /\ Len(s) \in Nat
      <4>1. \A i \in DOMAIN Append(s, Top) : i \in DOMAIN s \/ i = Len(s) + 1
        BY <3>2
      <4> QED  BY <3>2, <4>1
    <3>5. l + 1 <= Len(s) + 1 + 1
      BY <1>2, <3>2, <3>4 DEF l
    <3> QED  BY <3>3, <3>4, <3>5 DEF s
  <2> QED  BY <2>2, <2>3
<1>4. CASE AddStructGoesOn
  <2>1. UNCHANGED servers /\ \E m : seps' = seps \/ seps' = SepsWith(m.coll)
    BY <1>4 DEF AddStructGoesOn
  <2>2. PICK m : seps' = seps \/ seps' = SepsWith(m.coll)
    BY <2>1
  <2>3. CASE seps' = SepsWith(m.coll)
    <3>1. SUFFICES ASSUME NEW c \in DOMAIN seps'
                   PROVE  /\ \A i \in DOMAIN seps'[c] : i > 1 => seps'[c][i] = Top
                          /\ Len(servers) <= Len(seps'[c]) + 1
      BY <2>1 DEF SepsInv
    <3>2. CASE c = m.coll
      <4> DEFINE n == Len(servers) - 1
                 t == [i \in 1 .. n |-> Top]
      <4>1. seps'[c] = t
        BY <2>3, <3>1, <3>2 DEF SepsWith
      <4>2. n \in Int /\ Len(servers) = n + 1 /\ servers # <<>>
        BY <1>2, <1>4 DEF AddStructGoesOn, TypeInv, MgrType
      <4>3. n \in Nat
        BY <1>2, <4>2
      <4> HIDE DEF n
      <4>4. t \in Seq({Top}) /\ Len(t) = n /\ DOMAIN t = 1 .. n
        BY <4>3
      <4> QED  BY <4>1, <4>2, <4>3, <4>4
    <3>3. CASE c # m.coll
      BY <2>3, <3>1, <3>3 DEF SepsWith, SepsInv
    <3> QED  BY <3>2, <3>3
  <2> QED  BY <1>1, <2>1, <2>2, <2>3
<1>5. CASE DisposeStructGoesOn
  BY <1>5 DEF DisposeStructGoesOn, SepsInv
<1>6. CASE TransferAnswer \/ TransferTimeout
  <2>1. UNCHANGED servers /\ (seps' = seps \/ (EndTransfer /\ mgr.wait = "dispose"))
    BY <1>6 DEF TransferAnswer, TransferTimeout
  <2>2. CASE EndTransfer /\ mgr.wait = "dispose"
    BY <2>1, <2>2, SepsEnded DEF SepsInv
  <2> QED  BY <1>1, <2>1, <2>2
<1>7. CASE NextPath
  <2>1. UNCHANGED seps /\ (servers' = servers \/ (mgr.job = "terminate" /\ servers' = Front(servers)))
    BY <1>7 DEF NextPath, LetGo
  <2>2. CASE mgr.job = "terminate" /\ servers' = Front(servers)
    <3>1. Len(servers) = 2
      BY <2>2 DEF TypeInv, MgrType, MaxServers
    <3>2. Len(servers') = 1
      BY <1>2, <2>2, <3>1 DEF Front
    <3>3. \A c \in DOMAIN seps : Len(seps[c]) \in Nat
      BY <1>2
    <3> QED  BY <2>1, <3>2, <3>3 DEF SepsInv
  <2> QED  BY <1>1, <2>1, <2>2
<1>8. CASE ~SetupAnswer /\ ~AddStructGoesOn /\ ~DisposeStructGoesOn /\ ~TransferAnswer /\ ~TransferTimeout /\ ~NextPath
  <2>1. ASSUME NEW p \in Pids, Server(p)  PROVE UNCHANGED <<servers, seps>>
    BY <2>1, ServerGoes
  <2>2. UNCHANGED vars \/ (\E c \in Clients : Request(c) \/ Client(c)) => UNCHANGED <<servers, seps>>
    BY DEF vars, Request, Client, TakeReply, TakeRangeReply, ClientTimeout
  <2>3. Terminal => UNCHANGED <<servers, seps>>
    BY DEF Terminal, HandleRun, HandleTerminate, TypeShutdown
  <2>4. ForwardAnswer \/ ForwardRequest \/ HandleStruct \/ RollbackGoesOn \/ CountAnswer =>
          UNCHANGED <<servers, seps>>
    BY DEF ForwardAnswer, ForwardRequest, HandleStruct, RollbackGoesOn, CountAnswer
  <2>5. CountTimeout \/ BeginTransfer \/ SetupTimeout \/ HandleShutdown => UNCHANGED <<servers, seps>>
    BY DEF CountTimeout, BeginTransfer, SetupTimeout, HandleShutdown
  <2>6. Manager => UNCHANGED <<servers, seps>>
    BY <1>8, <2>4, <2>5 DEF Manager
  <2> QED  BY <1>1, <2>1, <2>2, <2>3, <2>6 DEF Next
<1> QED  BY <1>3, <1>4, <1>5, <1>6, <1>7, <1>8

=============================================================================
