---------------------------- MODULE RangeProofs -----------------------------
(***************************************************************************)
(* A range that a client of Cluster was given is the range there was, for  *)
(* any number of keys, collections and servers started, at most two of     *)
(* them at a time, and one client (RangesAreExact).                        *)
(*                                                                         *)
(* First where the keys are: a key that moves is with its giver, with its  *)
(* taker, or in the one command between them (RightInv), and every other   *)
(* key is stored, and is added, only where its separators send commands    *)
(* for it (NewInv, ApartInv, AddedInv).                                    *)
(*                                                                         *)
(* Then where the one command of the client is: asked, with a server,      *)
(* answered, or back in part, and for a range what the servers have of it  *)
(* is what it still has to be given (Stage). A range over two servers is   *)
(* never given, because the one of them that has not its least key goes:   *)
(* the client waits until it gives up. Nor is one whose bounds are the     *)
(* wrong way round: a server refuses it, or no server is sent it. So when  *)
(* the last record is read the range is whole.                             *)
(*                                                                         *)
(* RangeInv is all of it together. TLC checked each part as an invariant   *)
(* first.                                                                  *)
(***************************************************************************)
EXTENDS EndedProofs

-----------------------------------------------------------------------------
(* A key moves from the first server to the second.                        *)
Busy  == mgr.wait \in TransferWaits
Path  == Head(mgr.todo)
Giver == servers[1]
Taker == servers[2]

Serving == IF mgr.wait = "add" THEN Taker ELSE Giver

RightCommand ==
  CASE mgr.wait = "obtain" -> "OBTAIN_MAX" [] mgr.wait = "add" -> "ADD" [] OTHER -> "DISPOSE"

Holds(p, k) == Path \in DOMAIN store[p] /\ k \in store[p][Path]

Largest(k) == Holds(Giver, k) /\ \A l \in store[Giver][Path] : l <= k

RightLost == box["answer"] = <<>> /\ inbox[Serving] = <<>> /\ proc[Serving] # "up"

RightAsked ==
  /\ box["answer"] = <<>> /\ Len(inbox[Serving]) = 1
  /\ inbox[Serving][1].cmd = RightCommand /\ inbox[Serving][1].coll = Path
  /\ mgr.wait # "obtain" => inbox[Serving][1].key = mgr.newsep /\ Largest(mgr.newsep)
  /\ mgr.wait = "dispose" => Holds(Taker, mgr.newsep)

RightAnswered ==
  /\ Len(box["answer"]) = 1 /\ inbox[Serving] = <<>>
  /\ mgr.wait = "obtain" /\ box["answer"][1].status = "OK" =>
       box["answer"][1].coll = Path /\ Largest(box["answer"][1].key)
  /\ mgr.wait = "add" =>
       /\ Largest(mgr.newsep)
       /\ box["answer"][1].status = "OK" =>
            /\ box["answer"][1].coll = Path /\ box["answer"][1].key = mgr.newsep
            /\ Holds(Taker, mgr.newsep)
  /\ mgr.wait = "dispose" =>
       /\ Holds(Taker, mgr.newsep) /\ Path \in DOMAIN store[Giver]
       /\ \A l \in store[Giver][Path] : l < mgr.newsep

RightInv ==
  Settled /\ Busy =>
  /\ mgr.dir # "left" /\ mgr.wait # "next"
  /\ \A p \in Pids : p # Serving => inbox[p] = <<>>
  /\ mgr.wait \in {"add", "dispose"} => proc[Giver] = "up" /\ mgr.newsep < seps[Path][1]
  /\ (mgr.wait # "dispose" /\ RightLost) \/ RightAsked \/ RightAnswered

(* What a server does with a command on a key.                             *)
Given(q, m, a) ==
  /\ box' = [box EXCEPT !["answer"] = Append(@, a)]
  /\ a.pid = m.pid /\ a.cmd = m.cmd /\ a.coll = m.coll
  /\ \/ a.status # "OK" /\ store' = store
     \/ /\ a.status = "OK" /\ m.coll \in DOMAIN store[q] /\ Succeeds(m, store[q][m.coll])
        /\ a.key = Named(m, store[q][m.coll])
        /\ \A p \in Pids : p # q => store'[p] = store[p]
        /\ DOMAIN store'[q] = DOMAIN store[q]
        /\ store'[q][m.coll] = Effect(m, store[q][m.coll])
        /\ \A c \in DOMAIN store[q] : c # m.coll => store'[q][c] = store[q][c]

(* A server that does a command on a key answers it as the key is there.   *)
LEMMA DataGiven ==
  ASSUME TypeInv, NEW q \in Pids, ServeData(q), NEW m, m = Head(inbox[q])
  PROVE  /\ \E a \in Asking : Given(q, m, a)
         /\ m \in Asking /\ inbox[q] # <<>> /\ inbox' = Taken(q) /\ UNCHANGED <<proc, has, faults, past>>
         /\ UNCHANGED <<spawned, requests, replies, servers, seps, changes, mgr, client, run>>
<1>1. /\ store = [p \in Pids |-> store[p]] /\ store[q] \in [DOMAIN store[q] -> SUBSET Keys]
      /\ m \in Asking /\ inbox[q] # <<>>
      /\ m.cmd \in DataChanges \cup {"OBTAIN", "OBTAIN_MIN", "OBTAIN_MAX", "OBTAIN_NEXT"}
  <2>1. Serves(q, DataChanges \cup {"OBTAIN", "OBTAIN_MIN", "OBTAIN_MAX", "OBTAIN_NEXT"})
    BY DEF ServeData
  <2> QED  BY <2>1, ServesType DEF TypeInv, ServersType, IsMap, Serves
<1>2. \A status \in Statuses :
        /\ [m EXCEPT !.status = status].coll = m.coll /\ [m EXCEPT !.status = status].cmd = m.cmd
        /\ [m EXCEPT !.status = status].status = status /\ [m EXCEPT !.status = status].pid = m.pid
        /\ [m EXCEPT !.status = status] \in Asking
  BY <1>1, StatusType
<1>3. {"INVALID_PATH", "KEY", "OK"} \subseteq Statuses
  BY DEF Statuses
<1> DEFINE Goal == \E a \in Asking : Given(q, m, a)
<1>7. UNCHANGED <<proc, has, faults, past>> /\ inbox' = Taken(q)
  BY DEF ServeData, Answer
<1>8. UNCHANGED <<spawned, requests, replies, servers, seps, changes, mgr, client, run>>
  BY DEF ServeData, Elsewhere
<1> SUFFICES Goal
  BY <1>1, <1>7, <1>8
<1>0. ASSUME NEW a \in Asking, Given(q, m, a)  PROVE Goal
  BY <1>0
<1> HIDE DEF Goal
<1>4. CASE m.coll \notin DOMAIN store[q]
  <2> DEFINE a == [m EXCEPT !.status = "INVALID_PATH"]
  <2>1. /\ box' = [box EXCEPT !["answer"] = Append(@, a)] /\ store' = store
    BY <1>4 DEF ServeData, Answer
  <2>2. a \in Asking /\ a.pid = m.pid /\ a.cmd = m.cmd /\ a.coll = m.coll /\ a.status # "OK"
    BY <1>2, <1>3
  <2> HIDE DEF a
  <2> QED  BY <1>0, <2>1, <2>2 DEF Given
<1>5. CASE m.coll \in DOMAIN store[q] /\ ~Succeeds(m, store[q][m.coll])
  <2> DEFINE a == [m EXCEPT !.status = "KEY"]
  <2>1. /\ box' = [box EXCEPT !["answer"] = Append(@, a)] /\ store' = store
    BY <1>5 DEF ServeData, Answer
  <2>2. a \in Asking /\ a.pid = m.pid /\ a.cmd = m.cmd /\ a.coll = m.coll /\ a.status # "OK"
    BY <1>2, <1>3
  <2> HIDE DEF a
  <2> QED  BY <1>0, <2>1, <2>2 DEF Given
<1>6. CASE m.coll \in DOMAIN store[q] /\ Succeeds(m, store[q][m.coll])
  <2> DEFINE S == store[q][m.coll]
             a == [m EXCEPT !.status = "OK", !.key = Named(m, S)]
             E == Effect(m, S)
  <2>1. /\ box' = [box EXCEPT !["answer"] = Append(@, a)]
        /\ store' = [store EXCEPT ![q][m.coll] = E]
    BY <1>6 DEF ServeData, Answer
  <2>2. S \in SUBSET Keys
    BY <1>1, <1>6
  <2>3. Named(m, S) \in Keys
    BY <1>1, <1>6, <2>2, SucceedsNames
  <2>4. a \in Answering /\ a.key = Named(m, S) /\ a.cmd = m.cmd /\ a.pid = m.pid
    <3> DEFINE k == Named(m, S)
    <3>1. k \in Keys /\ "OK" \in Statuses
      BY <1>3, <2>3
    <3> HIDE DEF k
    <3>2. /\ [m EXCEPT !.status = "OK", !.key = k] \in Answering
          /\ [m EXCEPT !.status = "OK", !.key = k].key = k
          /\ [m EXCEPT !.status = "OK", !.key = k].cmd = m.cmd
          /\ [m EXCEPT !.status = "OK", !.key = k].pid = m.pid
      BY <1>1, <1>3, <3>1 DEF Asking, Answering, Message
    <3> QED  BY <3>2 DEF k
  <2>5. a.coll = m.coll /\ a.status = "OK"
    BY <1>1 DEF Asking, Message
  <2>6. /\ DOMAIN store'[q] = DOMAIN store[q] /\ store'[q][m.coll] = E
        /\ \A c \in DOMAIN store[q] : c # m.coll => store'[q][c] = store[q][c]
        /\ \A p \in Pids : p # q => store'[p] = store[p]
    <3> HIDE DEF E, a
    <3>0. store'[q] = [store[q] EXCEPT ![m.coll] = E] /\ \A p \in Pids : p # q => store'[p] = store[p]
      BY <1>1, <2>1
    <3> DEFINE f == store[q]
               g == store'[q]
               c0 == m.coll
    <3>2. g = [f EXCEPT ![c0] = E] /\ f \in [DOMAIN f -> SUBSET Keys] /\ c0 \in DOMAIN f
      BY <1>1, <1>6, <3>0
    <3> HIDE DEF f, g, c0, S
    <3>3. /\ DOMAIN g = DOMAIN f /\ g[c0] = E /\ \A c \in DOMAIN f : c # c0 => g[c] = f[c]
      BY <3>2
    <3> QED  BY <3>0, <3>3 DEF f, g, c0
  <2> HIDE DEF a
  <2> QED  BY <1>0, <1>6, <2>1, <2>4, <2>5, <2>6 DEF Given, Answering
<1> QED  BY <1>4, <1>5, <1>6

(* All the keys of a collection, wherever they are.                         *)
LEMMA StoredSame ==
  ASSUME NEW d,
         \A k : (\E p \in Pids : d \in DOMAIN store'[p] /\ k \in store'[p][d])
                  <=> (\E p \in Pids : d \in DOMAIN store[p] /\ k \in store[p][d])
  PROVE  StoredIn(d)' = StoredIn(d)
<1>1. \A k : k \in StoredIn(d) <=> \E p \in Pids : d \in DOMAIN store[p] /\ k \in store[p][d]
  BY DEF StoredIn
<1>2. \A k : k \in StoredIn(d)' <=> \E p \in Pids : d \in DOMAIN store'[p] /\ k \in store'[p][d]
  BY DEF StoredIn
<1> QED  BY <1>1, <1>2

(* Two servers that are not the same.                                      *)
LEMMA BusyPair ==
  ASSUME TypeInv, PidInv, Busy
  PROVE  /\ Len(servers) = 2 /\ Giver \in Pids /\ Taker \in Pids /\ Serving \in Pids /\ Giver # Taker
         /\ Path \in DOMAIN seps /\ mgr.todo # <<>> /\ mgr.newsep \in Keys \cup {NoOne}
         /\ mgr.wait \in {"add", "dispose"} => mgr.newsep \in Keys
         /\ 1 \in DOMAIN servers /\ 2 \in DOMAIN servers /\ DOMAIN servers = {1, 2}
<1>1. Len(servers) = 2 /\ servers \in Seq(Pids) /\ mgr.todo # <<>> /\ mgr.todo \in Seq(DOMAIN seps)
  BY DEF TypeInv, KnownType, MgrType, Busy, TransferWaits, MaxServers
<1>2. DOMAIN servers = {1, 2} /\ Giver \in Pids /\ Taker \in Pids
  <2>1. DOMAIN servers = 1 .. 2
    BY <1>1
  <2>2. 1 .. 2 = {1, 2}
    OBVIOUS
  <2>3. servers[1] \in Pids /\ servers[2] \in Pids
    <3>1. PICK l \in Seq(Pids) : l = servers
      BY <1>1
    <3>2. Len(l) = 2 /\ 1 \in DOMAIN l /\ 2 \in DOMAIN l
      BY <1>1, <2>1, <3>1
    <3> QED  BY <3>1, <3>2
  <2> QED  BY <2>1, <2>2, <2>3 DEF Giver, Taker
<1>3. mgr.newsep \in Keys \cup {NoOne} /\ (mgr.wait \in {"add", "dispose"} => mgr.newsep \in Keys)
  BY DEF TypeInv, MgrType, Places
<1> QED  BY <1>1, <1>2, <1>3 DEF Giver, Taker, Serving, Path, PidInv

(* What the stores gain when a key moves.                                  *)
Gains ==
  \A p \in Pids : \A c \in DOMAIN store'[p] :
    /\ c \in DOMAIN store[p]
    /\ \A k \in store'[p][c] :
         \/ k \in store[p][c]
         \/ /\ p = Taker /\ c = Path /\ k = mgr.newsep /\ mgr.wait = "add"
            /\ box'["answer"][1].status = "OK"

(* The server that is asked answers, and no key is lost.                   *)
LEMMA RightServed ==
  ASSUME TypeInv, PidInv, RightInv, Settled, Settled', Busy, NEW q \in Pids, Server(q)
  PROVE  /\ q = Serving /\ RightAsked /\ RightAnswered' /\ UNCHANGED <<proc, servers, mgr, seps, faults, past, run>>
         /\ \A p \in Pids : inbox'[p] = <<>>
         /\ Gains /\ \A d : StoredIn(d)' = StoredIn(d)
<1>1. /\ Len(servers) = 2 /\ Giver \in Pids /\ Taker \in Pids /\ Serving \in Pids /\ Giver # Taker
      /\ mgr.wait \in {"add", "dispose"} => mgr.newsep \in Keys
  BY BusyPair
<1>2. /\ mgr.dir # "left" /\ mgr.wait \in {"obtain", "add", "dispose"}
      /\ \A p \in Pids : p # Serving => inbox[p] = <<>>
      /\ (mgr.wait # "dispose" /\ RightLost) \/ RightAsked \/ RightAnswered
  BY DEF RightInv, Busy, TransferWaits
<1>3. inbox[q] # <<>>
  <2>1. mgr.wait # "ended"
    BY <1>2
  <2> QED  BY <2>1 DEF Server, ServeSetup, ServeAddStruct, ServeDisposeStruct, ServeCount, ServeData, NoMemory,
                       ServeRange, ServeEnd, LoseQueue, Serves
<1>4. q = Serving /\ RightAsked
  BY <1>2, <1>3 DEF RightLost, RightAnswered
<1> DEFINE m == Head(inbox[q])
<1>5. /\ inbox \in [Pids -> Seq(Asking)] /\ m = inbox[q][1] /\ Len(inbox[q]) = 1
      /\ box \in [Boxes -> Seq(Asking)] /\ "answer" \in Boxes /\ box["answer"] = <<>>
      /\ m.cmd = RightCommand /\ m.coll = Path
  BY <1>4 DEF TypeInv, MailType, Boxes, RightAsked
<1> HIDE DEF m
<1>6. m.cmd \in {"OBTAIN_MAX", "ADD", "DISPOSE"}
  BY <1>5 DEF RightCommand
<1>7. ServeData(q)
  <2>1. Head(inbox[q]).cmd \in {"OBTAIN_MAX", "ADD", "DISPOSE"} /\ mgr.wait # "ended"
    BY <1>2, <1>6 DEF m
  <2>2. ~NoMemory(q)
    BY NoMemoryUnsound DEF Settled, Orderly
  <2> QED  BY <2>1, <2>2 DEF Server, ServeSetup, ServeAddStruct, ServeDisposeStruct, ServeCount,
                       ServeRange, ServeEnd, LoseQueue, Serves, AddStruct, DropStruct
<1>8. PICK a \in Asking : Given(q, m, a)
  BY <1>7, DataGiven DEF m
<1>9. /\ inbox' = Taken(q) /\ UNCHANGED <<proc, servers, mgr, seps, faults, past, run>>
      /\ m \in Asking
  BY <1>7, DataGiven DEF m
<1>10. /\ Giver' = Giver /\ Taker' = Taker /\ Serving' = Serving /\ Path' = Path
  BY <1>9 DEF Giver, Taker, Serving, Path
<1>11. \A p \in Pids : inbox'[p] = <<>>
  <2>1. Tail(inbox[q]) \in Seq(Asking) /\ Len(Tail(inbox[q])) = 0
    BY <1>3, <1>5
  <2>2. Tail(inbox[q]) = <<>>
    BY <2>1, SequenceEmpty
  <2> QED  BY <1>2, <1>4, <1>5, <1>9, <2>2 DEF Taken
<1>12. Len(box'["answer"]) = 1 /\ box'["answer"][1] = a
  <2>1. box'["answer"] = Append(<<>>, a)
    BY <1>5, <1>8 DEF Given
  <2> QED  BY <2>1
<1>13. \A p \in Pids : IsMap(store[p], SUBSET Keys)
  BY DEF TypeInv, ServersType
<1> DEFINE S == store[q][Path]
<1>14. CASE mgr.wait = "obtain"
  <2>1. m.cmd = "OBTAIN_MAX" /\ q = Giver
    BY <1>4, <1>5, <1>14 DEF RightCommand, Serving
  <2>2. \A p \in Pids : DOMAIN store'[p] = DOMAIN store[p] /\ \A c \in DOMAIN store[p] : store'[p][c] = store[p][c]
    <3>1. a.status = "OK" => Effect(m, S) = S
      BY <2>1 DEF Effect
    <3> QED  BY <1>5, <1>8, <3>1 DEF Given
  <2>3. a.status = "OK" => a.coll = Path /\ Path \in DOMAIN store[Giver] /\ a.key \in S /\ \A l \in S : l <= a.key
    <3>1. SUFFICES ASSUME a.status = "OK"
                   PROVE  a.coll = Path /\ Path \in DOMAIN store[Giver] /\ a.key \in S /\ \A l \in S : l <= a.key
      OBVIOUS
    <3>2. /\ a.coll = Path /\ Path \in DOMAIN store[q] /\ Succeeds(m, S) /\ a.key = Named(m, S)
      BY <1>5, <1>8, <3>1 DEF Given
    <3>3. S # {} /\ a.key = Greatest(S)
      BY <2>1, <3>2 DEF Succeeds, Named
    <3>4. S \in SUBSET Keys
      BY <1>1, <1>13, <2>1, <3>2 DEF IsMap
    <3> HIDE DEF S
    <3> QED  BY <2>1, <3>2, <3>3, <3>4, GreatestMember
  <2>4. RightAnswered'
    BY <1>1, <1>4, <1>9, <1>10, <1>11, <1>12, <1>14, <2>1, <2>2, <2>3 DEF RightAnswered, Largest, Holds
  <2>5. Gains
    BY <2>2 DEF Gains
  <2>6. \A d : StoredIn(d)' = StoredIn(d)
    <3>1. TAKE d
    <3> QED  BY <2>2, StoredSame
  <2> QED  BY <1>4, <1>9, <1>11, <2>4, <2>5, <2>6
<1>15. CASE mgr.wait = "add"
  <2>1. m.cmd = "ADD" /\ q = Taker /\ m.key = mgr.newsep /\ Largest(mgr.newsep)
    BY <1>4, <1>5, <1>15 DEF RightCommand, Serving, RightAsked, m
  <2>2. /\ \A p \in Pids : DOMAIN store'[p] = DOMAIN store[p]
        /\ \A p \in Pids : \A c \in DOMAIN store[p] : p # q \/ c # Path => store'[p][c] = store[p][c]
        /\ a.status # "OK" => store' = store
        /\ a.status = "OK" => Path \in DOMAIN store[q] /\ store'[q][Path] = S \cup {mgr.newsep} /\ a.key = mgr.newsep
    <3>1. Effect(m, S) = S \cup {mgr.newsep} /\ Named(m, S) = mgr.newsep
      BY <2>1 DEF Effect, Named
    <3> QED  BY <1>5, <1>8, <3>1 DEF Given
  <2>3. Largest(mgr.newsep)'
    BY <1>1, <1>9, <1>10, <2>1, <2>2 DEF Largest, Holds
  <2>4. a.status = "OK" => a.coll = Path /\ Holds(Taker, mgr.newsep)'
    BY <1>5, <1>8, <1>9, <1>10, <2>1, <2>2 DEF Holds, Given
  <2>5. RightAnswered'
    BY <1>1, <1>4, <1>9, <1>10, <1>11, <1>12, <1>15, <2>2, <2>3, <2>4 DEF RightAnswered
  <2>6. Gains
    BY <1>12, <1>15, <2>1, <2>2 DEF Gains
  <2>7. \A d : StoredIn(d)' = StoredIn(d)
    <3>1. TAKE d
    <3>2. Path \in DOMAIN store[Giver] /\ mgr.newsep \in store[Giver][Path]
      BY <2>1 DEF Largest, Holds
    <3> QED  BY <1>1, <2>1, <2>2, <3>2, StoredSame
  <2> QED  BY <1>4, <1>9, <1>11, <2>5, <2>6, <2>7
<1>16. CASE mgr.wait = "dispose"
  <2>1. m.cmd = "DISPOSE" /\ q = Giver /\ m.key = mgr.newsep /\ Largest(mgr.newsep) /\ Holds(Taker, mgr.newsep)
    BY <1>4, <1>5, <1>16 DEF RightCommand, Serving, RightAsked, m
  <2>2. /\ \A p \in Pids : DOMAIN store'[p] = DOMAIN store[p]
        /\ \A p \in Pids : \A c \in DOMAIN store[p] : p # q \/ c # Path => store'[p][c] = store[p][c]
        /\ Path \in DOMAIN store[q] /\ store'[q][Path] = S \ {mgr.newsep}
    <3>1. Effect(m, S) = S \ {mgr.newsep} /\ Succeeds(m, S)
      BY <2>1 DEF Effect, Succeeds, Largest, Holds
    <3>2. Path \in DOMAIN store[q]
      BY <2>1 DEF Largest, Holds
    <3>3. a.status = "OK"
      <4>1. CASE m.coll \notin DOMAIN store[q]
        BY <1>5, <3>2, <4>1
      <4>2. CASE m.coll \in DOMAIN store[q]
        <5>1. box' = [box EXCEPT !["answer"] = Append(@, [m EXCEPT !.status = "OK", !.key = Named(m, S)])]
          BY <1>5, <1>7, <3>1, <4>2 DEF ServeData, Answer, m
        <5>2. box'["answer"][1].status = "OK"
          <6> DEFINE b == [m EXCEPT !.status = "OK", !.key = Named(m, S)]
          <6>1. b.status = "OK"
            BY <1>9 DEF Asking, Message
          <6> HIDE DEF b
          <6>2. box'["answer"] = Append(<<>>, b)
            BY <1>5, <5>1 DEF b
          <6> QED  BY <6>1, <6>2
        <5> QED  BY <1>12, <5>2
      <4> QED  BY <4>1, <4>2
    <3> QED  BY <1>5, <1>8, <3>1, <3>3 DEF Given
  <2>3. \A l \in store'[Giver][Path] : l < mgr.newsep
    <3>1. \A l \in S : l <= mgr.newsep
      BY <2>1 DEF Largest
    <3>2. S \subseteq Nat /\ mgr.newsep \in Nat
      BY <1>1, <1>13, <1>16, <2>1, <2>2, FiniteData DEF IsMap
    <3>3. store'[Giver][Path] = S \ {mgr.newsep}
      BY <2>1, <2>2
    <3> HIDE DEF S
    <3>4. \A l \in S \ {mgr.newsep} : l < mgr.newsep
      BY <3>1, <3>2
    <3> QED  BY <3>3, <3>4
  <2>4. Holds(Taker, mgr.newsep)'
    BY <1>1, <1>9, <1>10, <2>1, <2>2 DEF Holds
  <2>5. RightAnswered'
    BY <1>1, <1>4, <1>9, <1>10, <1>11, <1>12, <1>16, <2>1, <2>2, <2>3, <2>4 DEF RightAnswered
  <2>6. Gains
    BY <2>1, <2>2 DEF Gains
  <2>7. \A d : StoredIn(d)' = StoredIn(d)
    <3>1. TAKE d
    <3>2. Path \in DOMAIN store[Taker] /\ mgr.newsep \in store[Taker][Path]
      BY <2>1 DEF Holds
    <3> QED  BY <1>1, <2>1, <2>2, <3>2, StoredSame
  <2> QED  BY <1>4, <1>9, <1>11, <2>5, <2>6, <2>7
<1> QED  BY <1>2, <1>14, <1>15, <1>16

-----------------------------------------------------------------------------
(* Each key is with the server that the separators name, and so is a key   *)
(* that is to be added.                                                    *)
Running == Settled /\ mgr.wait \notin {"dead", "rollback"}

Belongs(j, c, k) ==
  IF j = 1 THEN seps[c] # <<>> => k < seps[c][1] ELSE seps[c] # <<>> /\ seps[c][1] <= k

Moved(j, c, k) ==
  /\ j = 2 /\ c = Path /\ k = mgr.newsep
  /\ \/ mgr.wait = "dispose"
     \/ mgr.wait = "add" /\ box["answer"] # <<>> /\ box["answer"][1].status = "OK"

ApartInv ==
  Running => \A j \in DOMAIN servers : \A c \in DOMAIN store[servers[j]] : c \in DOMAIN seps =>
    \A k \in store[servers[j]][c] : Belongs(j, c, k) \/ Moved(j, c, k)

NewInv ==
  Running => \A p \in Pids : \A c \in DOMAIN store[p] : c \in DOMAIN seps \/ store[p][c] = {}

Placed(j, m) ==
  IF m.coll \in DOMAIN seps THEN Belongs(j, m.coll, m.key)
  ELSE m.coll \notin DOMAIN store[servers[j]]

AddedInv ==
  Running /\ ~Busy => \A j \in DOMAIN servers : \A k \in DOMAIN inbox[servers[j]] :
    inbox[servers[j]][k].cmd = "ADD" => Placed(j, inbox[servers[j]][k])

-----------------------------------------------------------------------------
(* Where the command of a client is that has no other one under way.       *)
Halted == mgr.wait \in {"dead", "rollback"}
Cast   == Broadcasting \/ mgr.wait = "rollback"

Ranging(c) == client[c].cmd = "OBTAIN_BETWEEN"

(* What moves keys has inboxes and answers for itself.                     *)
Work(p) == IF Busy THEN <<>> ELSE inbox[p]
Way     == IF Busy THEN <<>> ELSE box["answer"]
NoWork  == \A p \in Pids : None(Work(p), Plain)

Free(c) == requests = <<>> /\ NoWork /\ Way = <<>> /\ ~Cast /\ replies[c] = <<>>

(* A message of its command, and one for a range of it.                    *)
Mine(c, m) ==
  /\ m.pid = c /\ m.cmd = client[c].cmd
  /\ Ranging(c) => m.req = client[c].ctr /\ m.coll = client[c].coll /\ m.hi = client[c].hi

Settles(c, m) == Mine(c, m) /\ (Ranging(c) => m.status \notin Success)

IsPart(c, m) == Mine(c, m) /\ m.key = client[c].lo

Requested(c) ==
  /\ Len(requests) = 1 /\ Mine(c, requests[1])
  /\ Ranging(c) => IsPart(c, requests[1])
  /\ NoWork /\ Way = <<>> /\ ~Cast /\ replies[c] = <<>> /\ client[c].at = "asked"

(* A structure command is broadcast; when it is taken back, for ever.      *)
Casting(c) ==
  /\ requests = <<>> /\ Cast /\ NoWork /\ Way = <<>> /\ replies[c] = <<>>
  /\ ~Ranging(c) /\ client[c].at = "asked"
  /\ Broadcasting =>
       /\ Mine(c, mgr.msg)
       /\ \A k \in DOMAIN box[Back] : Mine(c, box[Back][k])

(* The one part of a command, and where it is.                             *)
OnlyAt(p, m) == /\ One(Work(p), Plain, m)
                /\ \A q \in Pids : q # p => None(Work(q), Plain)

Posted(c) ==
  /\ ~Ranging(c) /\ client[c].at = "asked" /\ Way = <<>> /\ replies[c] = <<>>
  /\ \E p \in Pids, m \in Asking : OnlyAt(p, m) /\ Mine(c, m)

Answered(c) ==
  /\ NoWork /\ client[c].at = "asked"
  /\ Len(Way) = 1 /\ Settles(c, Way[1]) /\ replies[c] = <<>>

Replied(c) ==
  /\ NoWork /\ Way = <<>> /\ client[c].at = "asked"
  /\ Len(replies[c]) = 1 /\ Settles(c, replies[c][1])

(* No other server has a key of the range.                                 *)
Sole(c, p) ==
  \A q \in Pids : q # p /\ client[c].coll \in DOMAIN store[q] =>
    \A k \in store[q][client[c].coll] : ~(client[c].lo <= k /\ k <= client[c].hi)

(* A range for one server, or for one that will refuse it.                 *)
RangeAsked(c) ==
  /\ Ranging(c) /\ client[c].at = "asked" /\ Way = <<>> /\ replies[c] = <<>>
  /\ \E p \in Pids, m \in Asking :
       /\ OnlyAt(p, m) /\ IsPart(c, m)
       /\ client[c].coll \in DOMAIN store[p] => m.cnt = 1 /\ Sole(c, p)

(* Its records: those the client has, those it is sent, those on the way.  *)
Whole(c) == InRange(StoredIn(client[c].coll), client[c].lo, client[c].hi)

Record(c, m, x) ==
  /\ Mine(c, m) /\ m.cnt = 1 /\ m.key = Whole(c)[x]
  /\ m.status = IF x = Len(Whole(c)) THEN "END" ELSE "OK"

Records(c, g, r) ==
  /\ g = Len(client[c].got) /\ r = Len(replies[c])
  /\ g + r + Len(Way) = Len(Whole(c)) /\ g < Len(Whole(c))
  /\ IF g = 0 THEN client[c].at = "asked" ELSE client[c].at = "range" /\ client[c].due = 1
  /\ \A x \in 1 .. g : client[c].got[x] = Whole(c)[x]
  /\ \A x \in 1 .. r : Record(c, replies[c][x], g + x)
  /\ \A x \in 1 .. Len(Way) : Record(c, Way[x], g + r + x)

RangeAnswered(c) ==
  /\ NoWork /\ Ranging(c)
  /\ \E g, r \in Nat : Records(c, g, r)

(* Of a range for two servers the second part ends its server, and the     *)
(* client waits for an end that does not come.                             *)
Stray(c, p) ==
  \/ None(Work(p), Plain)
  \/ /\ client[c].coll \in DOMAIN store[p] /\ client[c].lo \notin store[p][client[c].coll]
     /\ \E m \in Asking : One(Work(p), Plain, m) /\ IsPart(c, m)

Half(c, m, last) == Mine(c, m) /\ m.cnt = 2 /\ m.status = IF last THEN "END" ELSE "OK"

HalfAsked(c, p) ==
  /\ client[c].at = "asked" /\ replies[c] = <<>> /\ Way = <<>> /\ client[c].lo <= client[c].hi
  /\ client[c].coll \in DOMAIN store[p]
  /\ \E m \in Asking : One(Work(p), Plain, m) /\ IsPart(c, m) /\ m.cnt = 2

HalfAnswered(c) ==
  /\ client[c].at = "range" => client[c].due = 2
  /\ \E r \in Nat :
       /\ r = Len(replies[c])
       /\ \A x \in 1 .. r : Half(c, replies[c][x], x = r + Len(Way))
       /\ \A x \in 1 .. Len(Way) : Half(c, Way[x], x = Len(Way))

RangeHalved(c) ==
  /\ Ranging(c)
  /\ \E left \in Pids :
       /\ \A p \in Pids : p # left => Stray(c, p)
       /\ \/ HalfAsked(c, left)
          \/ None(Work(left), Plain) /\ HalfAnswered(c)
          \/ None(Work(left), Plain) /\ Way = <<>> /\ replies[c] = <<>>

UnderWay(c) ==
  /\ requests = <<>> /\ ~Cast
  /\ \/ Posted(c) \/ Answered(c) \/ Replied(c)
     \/ RangeAsked(c) \/ RangeAnswered(c) \/ RangeHalved(c)

Stage(c) ==
  \/ Free(c)
  \/ client[c].at # "idle" /\ (Requested(c) \/ Casting(c) \/ UnderWay(c))

StageInv == Settled => \A c \in Clients : (client[c].at = "idle" /\ Halted) \/ Stage(c)

(* A client that has not begun to read a range has none of it.             *)
GotInv == \A c \in Clients : client[c].at # "range" => client[c].got = <<>>

(* The next command of a transfer, when nothing else is there.             *)
LEMMA RightPosted ==
  ASSUME TypeInv, Len(servers) = 2, mgr.dir # "left", UNCHANGED <<proc, store, servers, seps>>,
         \A p \in Pids : inbox[p] = <<>>, box'["answer"] = <<>>,
         NEW wait \in {"obtain", "add", "dispose"}, NEW sep, NEW h, NEW m,
         mgr' = [mgr EXCEPT !.wait = wait, !.newsep = sep], inbox' = Post(inbox, h, m),
         h = (IF wait = "add" THEN Taker ELSE Giver), m.coll = Path,
         m.cmd = CASE wait = "obtain" -> "OBTAIN_MAX" [] wait = "add" -> "ADD" [] OTHER -> "DISPOSE",
         wait # "obtain" => m.key = sep /\ Largest(sep) /\ proc[Giver] = "up" /\ sep < seps[Path][1],
         wait = "dispose" => Holds(Taker, sep)
  PROVE  RightInv'
<1>1. /\ mgr'.wait = wait /\ mgr'.newsep = sep /\ mgr'.todo = mgr.todo /\ mgr'.dir = mgr.dir
  BY DEF TypeInv, MgrType, Places
<1>2. Giver' = Giver /\ Taker' = Taker /\ Path' = Path /\ Serving' = h
  BY <1>1 DEF Giver, Taker, Path, Serving
<1>3. h \in Pids
  <2>1. PICK l \in Seq(Pids) : l = servers
    BY DEF TypeInv, KnownType
  <2>2. l[1] \in Pids /\ l[2] \in Pids
    BY <2>1
  <2> QED  BY <2>1, <2>2 DEF Giver, Taker
<1>4. inbox \in [Pids -> Seq(Asking)]
  BY DEF TypeInv, MailType
<1>5. \A p \in Pids : p # h => inbox'[p] = <<>>
  BY <1>4 DEF Post
<1>6. RightCommand' = m.cmd
  BY <1>1 DEF RightCommand
<1>7. \A k : (Largest(k) => Largest(k)') /\ (Holds(Taker, k) => Holds(Taker, k)')
  BY <1>2 DEF Largest, Holds
<1>8. CASE proc[h] = "up"
  <2>1. inbox'[h] = <<m>>
    <3>1. inbox'[h] = Append(<<>>, m)
      BY <1>3, <1>4, <1>8 DEF Post
    <3> QED  BY <3>1
  <2>2. Serving' = h /\ Len(inbox'[h]) = 1 /\ inbox'[h][1] = m
    <3>1. Len(<<m>>) = 1 /\ <<m>>[1] = m
      OBVIOUS
    <3> QED  BY <1>2, <2>1, <3>1, Zenon
  <2>3. RightAsked'
    <3>1. Len(inbox[Serving])' = 1 /\ inbox[Serving][1]' = m
      BY <2>2
    <3>2. inbox[Serving][1].cmd' = RightCommand' /\ inbox[Serving][1].coll' = Path'
      BY <1>2, <1>6, <3>1
    <3>3. mgr'.wait # "obtain" => inbox[Serving][1].key' = mgr'.newsep /\ Largest(mgr.newsep)'
      BY <1>1, <1>7, <3>1
    <3>4. mgr'.wait = "dispose" => Holds(Taker, mgr.newsep)'
      BY <1>1, <1>2, <1>7
    <3> QED  BY <3>1, <3>2, <3>3, <3>4 DEF RightAsked
  <2> QED  BY <1>1, <1>2, <1>5, <2>3 DEF RightInv
<1>9. CASE proc[h] # "up"
  <2>1. inbox'[h] = <<>> /\ wait # "dispose"
    BY <1>3, <1>9 DEF Post
  <2>2. RightLost'
    BY <1>1, <1>2, <1>9, <2>1 DEF RightLost
  <2> QED  BY <1>1, <1>2, <1>5, <2>1, <2>2 DEF RightInv
<1> QED  BY <1>8, <1>9

(* A transfer begins with nothing in its way.                              *)
LEMMA RightBegins ==
  ASSUME TypeInv, BeginTransfer
  PROVE  RightInv'
<1>1. SUFFICES ASSUME Settled', Busy'
               PROVE  RightInv'
  BY DEF RightInv
<1>2. mgr.n > 0
  <2>1. mgr.n \in Int /\ mgr.job \in {"none", "terminate", "redistribute"} /\ mgr.todo \in Seq(DOMAIN seps)
        /\ mgr.todo # <<>> /\ mgr.job # "none"
    BY DEF TypeInv, MgrType, Places, BeginTransfer
  <2>2. Tail(mgr.todo) \in Seq(Collections)
    <3>1. Tail(mgr.todo) \in Seq(DOMAIN seps)
      BY <2>1, TailType
    <3>2. DOMAIN seps \subseteq Collections
      BY DEF TypeInv, KnownType, IsMap
    <3> DEFINE t == Tail(mgr.todo)
    <3>3. t \in Seq(DOMAIN seps)
      BY <3>1
    <3> HIDE DEF t
    <3>4. t \in Seq(Collections)
      BY <3>2, <3>3
    <3> QED  BY <3>4 DEF t
  <2>3. Over(mgr.job, Tail(mgr.todo)).wait = "path"
    <3> DEFINE t == Tail(mgr.todo)
               j == mgr.job
    <3>1. t \in Seq(Collections) /\ j \in {"terminate", "redistribute"}
      BY <2>1, <2>2
    <3> HIDE DEF t, j
    <3>2. Over(j, t).wait = "path"
      BY <3>1, OverType
    <3> QED  BY <3>2 DEF t, j
  <2>4. ~(mgr.n <= 0)
    <3> SUFFICES ASSUME mgr.n <= 0  PROVE FALSE
      OBVIOUS
    <3>1. ~(mgr.n > 0)
      BY <2>1
    <3>2. mgr' = Over(mgr.job, Tail(mgr.todo))
      BY <3>1 DEF BeginTransfer
    <3> QED  BY <1>1, <2>3, <3>2 DEF Busy, TransferWaits
  <2> QED  BY <2>1, <2>4
<1> DEFINE cmd == IF mgr.dir = "left" THEN "OBTAIN_MIN" ELSE "OBTAIN_MAX"
           own == OwnMsg("none", Head(mgr.todo))
<1>3. /\ Send(From, own, cmd, "obtain", NoOne)
      /\ past' = past \cup (IF mgr.dir = "left" THEN {"moved_left"} ELSE {})
             \cup (IF box["answer"] # <<>> \/ \E p \in Pids : inbox[p] # <<>>
                   THEN {"crossed"} ELSE {})
      /\ UNCHANGED <<proc, store, box, servers, seps>>
  <2> HIDE DEF Send, From, own
  <2>1. mgr.n \in Int
    BY DEF TypeInv, MgrType, Places
  <2>2. ~(mgr.n <= 0)
    BY <1>2, <2>1
  <2> QED  BY <2>2 DEF BeginTransfer, Outside, data, own
<1>4. mgr.dir # "left" /\ box["answer"] = <<>> /\ \A p \in Pids : inbox[p] = <<>>
  BY <1>1, <1>3 DEF Settled, Orderly
<1> DEFINE m == [own EXCEPT !.cmd = cmd]
<1>5. /\ inbox' = Post(inbox, Giver, m) /\ mgr' = [mgr EXCEPT !.wait = "obtain", !.newsep = NoOne]
  BY <1>3, <1>4 DEF Send, From, Giver
<1>6. m.coll = Path /\ m.cmd = "OBTAIN_MAX"
  BY <1>4 DEF OwnMsg, Msg, Path
<1>7. Len(servers) = 2
  BY <1>2 DEF TypeInv, MgrType, MaxServers
<1> HIDE DEF m, own, cmd
<1> QED  BY <1>3, <1>4, <1>5, <1>6, <1>7, RightPosted

(* What is under way when the manager has waited: nothing, in time.        *)
LEMMA RightTimesOut ==
  ASSUME TypeInv, PidInv, RightInv, TransferTimeout, Settled', Settled
  PROVE  RightLost /\ mgr.wait # "dispose" /\ (\A p \in Pids : inbox[p] = <<>>) /\ GiveUp
         /\ UNCHANGED <<inbox, box, seps, servers, store, proc, requests, replies, client>>
<1>1. Busy /\ RunsOut("answer")
  BY DEF TransferTimeout, Busy, TransferWaits
<1>2. box["answer"] = <<>> /\ \A p \in Pids : inbox[p] = <<>>
  <2>1. faults' = 0 /\ faults \in Nat
    BY ClusterAssumption DEF TypeInv, HistoryType, Settled, Orderly
  <2> QED  BY <1>1, <2>1 DEF RunsOut
<1>3. Serving \in Pids
  BY <1>1, BusyPair
<1>4. RightLost /\ mgr.wait # "dispose"
  <2>1. ~RightAnswered
    BY <1>2 DEF RightAnswered
  <2>2. ~RightAsked
    BY <1>2, <1>3 DEF RightAsked
  <2> QED  BY <1>1, <2>1, <2>2 DEF RightInv
<1>5. GiveUp /\ UNCHANGED <<inbox, box, seps, servers, store, proc, requests, replies, client>>
  BY <1>4 DEF TransferTimeout, Outside, data
<1> QED  BY <1>2, <1>4, <1>5

(* What the manager waits for has come.                                    *)
LEMMA RightComes ==
  ASSUME TypeInv, PidInv, RightInv, TransferAnswer, Settled
  PROVE  /\ RightAnswered /\ Busy /\ (\A p \in Pids : inbox[p] = <<>>) /\ box'["answer"] = <<>>
         /\ Head(box["answer"]) = box["answer"][1] /\ box["answer"][1] \in Asking
         /\ mgr.wait \in {"obtain", "add", "dispose"} /\ mgr.dir # "left"
         /\ UNCHANGED <<proc, spawned, store, servers, run, requests, replies, client, faults, past>>
<1>1. Busy /\ box["answer"] # <<>> /\ box' = [box EXCEPT !["answer"] = Tail(@)]
  BY DEF TransferAnswer, Busy, TransferWaits
<1>2. RightAnswered
  BY <1>1 DEF RightInv, RightLost, RightAsked
<1>3. \A p \in Pids : inbox[p] = <<>>
  BY <1>1, <1>2 DEF RightInv, RightAnswered
<1>4. box["answer"] \in Seq(Asking) /\ Len(box["answer"]) = 1 /\ box \in [Boxes -> Seq(Asking)]
  BY <1>2 DEF RightAnswered, TypeInv, MailType, Boxes
<1>5. box'["answer"] = <<>>
  <2>1. Tail(box["answer"]) \in Seq(Asking) /\ Len(Tail(box["answer"])) = 0
    BY <1>1, <1>4
  <2>2. Tail(box["answer"]) = <<>>
    BY <2>1, SequenceEmpty
  <2> QED  BY <1>1, <1>4, <2>2 DEF Boxes
<1>6. Head(box["answer"]) = box["answer"][1] /\ box["answer"][1] \in Asking
  BY <1>4
<1>7. mgr.wait \in {"obtain", "add", "dispose"} /\ mgr.dir # "left"
  BY <1>1 DEF RightInv, Busy, TransferWaits
<1>8. UNCHANGED <<proc, spawned, store, servers, run, requests, replies, client, faults, past>>
  BY DEF TransferAnswer, Outside, data
<1> QED  BY <1>1, <1>2, <1>3, <1>5, <1>6, <1>7, <1>8

(* The manager goes on with a transfer, or ends it.                        *)
LEMMA RightGoesOn ==
  ASSUME TypeInv, PidInv, ThereInv, SepsInv, ApartInv, RightInv, TransferAnswer, Settled
  PROVE  RightInv'
<1>1. /\ RightAnswered /\ Busy /\ (\A p \in Pids : inbox[p] = <<>>) /\ box'["answer"] = <<>>
      /\ Head(box["answer"]) = box["answer"][1] /\ box["answer"][1] \in Asking
      /\ mgr.wait \in {"obtain", "add", "dispose"} /\ mgr.dir # "left"
      /\ UNCHANGED <<proc, spawned, store, servers, run, requests, replies, client, faults, past>>
  BY RightComes
<1>2. /\ Len(servers) = 2 /\ Giver \in Pids /\ Taker \in Pids /\ Giver # Taker /\ Path \in DOMAIN seps
      /\ DOMAIN servers = {1, 2}
  BY <1>1, BusyPair
<1> DEFINE a == Head(box["answer"])
<1>3. CASE ~Busy'
  BY <1>3 DEF RightInv
<1>4. CASE mgr.wait = "dispose" /\ EndTransfer
  <2>1. mgr'.wait = "move"
    BY <1>4 DEF EndTransfer, TypeInv, MgrType, Places
  <2> QED  BY <1>3, <2>1 DEF Busy, TransferWaits
<1>5. CASE GiveUp
  <2>1. mgr'.wait \in {"main", "ended", "path"}
    BY <1>1, <1>5, GiveUpTurns DEF Busy
  <2> QED  BY <1>3, <2>1 DEF Busy, TransferWaits
<1>6. CASE a.status = "OK" /\ mgr.wait = "obtain" /\ Send(To, a, "ADD", "add", a.key) /\ UNCHANGED seps
  <2> DEFINE m == [a EXCEPT !.cmd = "ADD"]
  <2>1. inbox' = Post(inbox, Taker, m) /\ mgr' = [mgr EXCEPT !.wait = "add", !.newsep = a.key]
    BY <1>1, <1>2, <1>6 DEF Send, To, Taker
  <2>2. m.cmd = "ADD" /\ m.coll = a.coll /\ m.key = a.key
    BY <1>1 DEF Asking, Message
  <2>3. a.coll = Path /\ Largest(a.key)
    BY <1>1, <1>6 DEF RightAnswered
  <2>4. proc[Giver] = "up"
    BY <1>2, <2>3 DEF ThereInv, Largest, Holds
  <2>5. a.key < seps[Path][1]
    <3>1. Running
      BY <1>1 DEF Running
    <3>2. Belongs(1, Path, a.key) \/ Moved(1, Path, a.key)
      BY <1>2, <2>3, <3>1 DEF ApartInv, Largest, Holds, Giver
    <3>3. seps[Path] # <<>>
      BY <1>2 DEF SepsInv
    <3> QED  BY <3>2, <3>3 DEF Belongs, Moved
  <2> HIDE DEF m, a
  <2> QED  BY <1>1, <1>2, <1>6, <2>1, <2>2, <2>3, <2>4, <2>5, RightPosted
<1>7. CASE a.status = "OK" /\ mgr.wait = "add" /\ Send(From, a, "DISPOSE", "dispose", mgr.newsep) /\ UNCHANGED seps
  <2> DEFINE m == [a EXCEPT !.cmd = "DISPOSE"]
  <2>1. inbox' = Post(inbox, Giver, m) /\ mgr' = [mgr EXCEPT !.wait = "dispose", !.newsep = mgr.newsep]
    BY <1>1, <1>7 DEF Send, From, Giver
  <2>2. m.cmd = "DISPOSE" /\ m.coll = a.coll /\ m.key = a.key
    BY <1>1 DEF Asking, Message
  <2>3. a.coll = Path /\ a.key = mgr.newsep /\ Largest(mgr.newsep) /\ Holds(Taker, mgr.newsep)
    BY <1>1, <1>7 DEF RightAnswered
  <2>4. proc[Giver] = "up" /\ mgr.newsep < seps[Path][1]
    BY <1>1, <1>7 DEF RightInv
  <2> HIDE DEF m, a
  <2> QED  BY <1>1, <1>2, <1>7, <2>1, <2>2, <2>3, <2>4, RightPosted
<1> QED  BY <1>1, <1>4, <1>5, <1>6, <1>7 DEF TransferAnswer

(* Only a transfer brings the manager to where it waits for one.           *)
LEMMA NotBusied ==
  ASSUME TypeInv, ~BeginTransfer, ~TransferAnswer, ~TransferTimeout, Manager \/ HandleRun \/ HandleTerminate
  PROVE  ~Busy /\ ~Busy'
<1>1. \A wait \in Waits : At(wait).wait = wait
  BY AtType
<1>2. KnownType /\ run \in BOOLEAN
  BY DEF TypeInv, HistoryType
<1>3. \A changed, n : EndBody(changed, n) => mgr'.wait \in {"main", "ended", "path"}
  BY <1>2, BodyTurns
<1>4. CASE ForwardAnswer \/ ForwardRequest
  <2>1. mgr.wait = "main" /\ (mgr' = At("dead") \/ \E changed, n : EndBody(changed, n))
    BY <1>4 DEF ForwardAnswer, ForwardRequest, Aborts, Asked
  <2> QED  BY <1>1, <1>3, <2>1 DEF Busy, TransferWaits, Waits
<1>5. CASE HandleStruct \/ AddStructGoesOn \/ RollbackGoesOn \/ DisposeStructGoesOn
  <2>1. /\ mgr.wait \in {"main", "struct_add", "rollback", "struct_dispose"}
        /\ Return \/ \E i, m : \E wait \in Elsewise : SendStruct(i, m, wait)
    BY <1>5 DEF HandleStruct, AddStructGoesOn, RollbackGoesOn, DisposeStructGoesOn, Asked, Elsewise
  <2>2. CASE Return
    BY <1>3, <2>1, <2>2 DEF Busy, TransferWaits, Return
  <2>3. CASE \E i, m : \E wait \in Elsewise : SendStruct(i, m, wait)
    BY <2>1, <2>3, StructSent DEF Busy, TransferWaits, Elsewise
  <2> QED  BY <2>1, <2>2, <2>3
<1>6. CASE NextPath
  <2>1. mgr.wait = "path" /\ (Return \/ mgr' = Over("redistribute", Paths) \/ \E i : AskCount(i))
    BY <1>6 DEF NextPath, LetGo
  <2>2. Over("redistribute", Paths).wait = "path"
    BY <1>2, PathsType, OverType
  <2>3. \A i : AskCount(i) => mgr'.wait = "count"
    BY DEF AskCount, TypeInv, MgrType, Places
  <2> QED  BY <1>3, <2>1, <2>2, <2>3 DEF Busy, TransferWaits, Return
<1>7. CASE CountAnswer
  BY <1>7, CountsOn DEF Busy, TransferWaits, CountAnswer
<1>8. CASE CountTimeout
  <2>1. GiveUp /\ mgr.wait = "count"
    BY <1>8 DEF CountTimeout
  <2>2. mgr'.wait \in {"main", "ended", "path"}
    BY <2>1, GiveUpTurns
  <2> QED  BY <2>1, <2>2 DEF Busy, TransferWaits
<1>9. CASE SetupAnswer
  <2>1. mgr.wait = "setup" /\ (mgr' = Over("redistribute", Paths) \/ \E changed, n : EndBody(changed, n))
    BY <1>9 DEF SetupAnswer
  <2>2. Over("redistribute", Paths).wait = "path"
    BY <1>2, PathsType, OverType
  <2> QED  BY <1>3, <2>1, <2>2 DEF Busy, TransferWaits
<1>10. CASE SetupTimeout \/ HandleShutdown \/ HandleRun
  <2>1. mgr.wait \in {"setup", "main"} /\ (Return \/ mgr' = At("ended") \/ mgr' = At("setup"))
    BY <1>10 DEF SetupTimeout, HandleShutdown, HandleRun
  <2> QED  BY <1>1, <1>3, <2>1 DEF Busy, TransferWaits, Waits, Return
<1>11. CASE HandleTerminate
  BY <1>11, AsideTyped DEF Busy, TransferWaits
<1> QED  BY <1>4, <1>5, <1>6, <1>7, <1>8, <1>9, <1>10, <1>11 DEF Manager

(* Whatever happens, that is so.                                           *)
LEMMA RightStep ==
  ASSUME TypeInv, PidInv, ThereInv, SepsInv, ApartInv, RightInv, [Next]_vars
  PROVE  RightInv'
<1>1. SUFFICES ASSUME Settled', Settled, Busy'
               PROVE  RightInv'
  BY TimeGoesOn DEF RightInv
<1>2. CASE UNCHANGED <<proc, inbox, box, store, servers, seps, mgr>>
  <2>1. /\ Giver' = Giver /\ Taker' = Taker /\ Path' = Path /\ Serving' = Serving /\ Busy' = Busy
        /\ RightCommand' = RightCommand /\ \A p, k : Holds(p, k)' = Holds(p, k)
    BY <1>2 DEF Giver, Taker, Path, Serving, Busy, RightCommand, Holds
  <2>2. \A k : Largest(k)' = Largest(k)
    BY <1>2, <2>1 DEF Largest
  <2>3. (RightLost => RightLost') /\ (RightAsked => RightAsked') /\ (RightAnswered => RightAnswered')
    BY <1>2, <2>1, <2>2 DEF RightLost, RightAsked, RightAnswered
  <2> QED  BY <1>1, <1>2, <2>1, <2>3 DEF RightInv
<1>3. CASE \E q \in Pids : Server(q)
  <2>1. PICK q \in Pids : Server(q)
    BY <1>3
  <2>2. UNCHANGED <<mgr, servers, seps>>
    BY <2>1, ServerGoes
  <2>3. Busy
    BY <1>1, <2>2 DEF Busy
  <2>4. /\ RightAnswered' /\ UNCHANGED proc /\ \A p \in Pids : inbox'[p] = <<>>
    BY <1>1, <2>1, <2>3, RightServed
  <2>5. Giver' = Giver /\ Path' = Path
    BY <2>2 DEF Giver, Path
  <2> QED  BY <1>1, <2>2, <2>3, <2>4, <2>5 DEF RightInv
<1>4. CASE BeginTransfer
  BY <1>4, RightBegins
<1>5. CASE TransferAnswer
  BY <1>1, <1>5, RightGoesOn
<1>6. CASE TransferTimeout
  <2>1. GiveUp /\ mgr.wait \in TransferWaits
    BY <1>1, <1>6, RightTimesOut DEF TransferTimeout, TransferWaits
  <2>2. mgr'.wait \in {"main", "ended", "path"}
    BY <2>1, GiveUpTurns
  <2> QED  BY <1>1, <2>2 DEF Busy, TransferWaits
<1>7. CASE UNCHANGED vars \/ \E c \in Clients : Request(c) \/ Client(c)
  <2>1. UNCHANGED <<proc, inbox, box, store, servers, seps, mgr>>
    BY <1>7 DEF vars, mail, data, Request, Client, TakeReply, TakeRangeReply, ClientTimeout
  <2> QED  BY <1>2, <2>1
<1>8. CASE TypeShutdown
  BY <1>1, <1>8 DEF TypeShutdown, Settled
<1>9. CASE ~BeginTransfer /\ ~TransferAnswer /\ ~TransferTimeout /\ (Manager \/ HandleRun \/ HandleTerminate)
  BY <1>1, <1>9, NotBusied DEF Busy
<1> QED  BY <1>3, <1>4, <1>5, <1>6, <1>7, <1>8, <1>9 DEF Next, Terminal

(* A manager that is aborted or undoes a broadcast stays so.                *)
LEMMA RunningGoesOn ==
  ASSUME TypeInv, [Next]_vars
  PROVE  Running' => Running
<1>1. Settled' => Settled
  BY TimeGoesOn
<1>2. SUFFICES ASSUME mgr.wait \in {"dead", "rollback"}
               PROVE  mgr'.wait \in {"dead", "rollback"}
  BY <1>1 DEF Running
<1>3. CASE Manager
  <2>1. RollbackGoesOn
    BY <1>2, <1>3 DEF Manager, ForwardAnswer, ForwardRequest, HandleStruct, Asked, AddStructGoesOn,
                      DisposeStructGoesOn, NextPath, CountAnswer, CountTimeout, BeginTransfer,
                      TransferAnswer, TransferTimeout, SetupAnswer, SetupTimeout, HandleShutdown
  <2>2. \E i, m : SendStruct(i, m, "rollback")
    BY <2>1 DEF RollbackGoesOn
  <2>3. mgr'.wait = "rollback"
    BY <2>2, StructSent
  <2> QED  BY <2>3
<1>4. CASE Terminal
  BY <1>2, <1>4 DEF Terminal, HandleRun, HandleTerminate, TypeShutdown
<1>5. CASE \E p \in Pids : Server(p)
  BY <1>2, <1>5, ServerGoes
<1>6. CASE UNCHANGED vars \/ \E c \in Clients : Request(c) \/ Client(c)
  BY <1>2, <1>6 DEF vars, Request, Client, TakeReply, TakeRangeReply, ClientTimeout
<1> QED  BY <1>3, <1>4, <1>5, <1>6 DEF Next

(* A key comes to a server only by the command that adds it.                *)
LEMMA ServerGrows ==
  ASSUME TypeInv, NEW q \in Pids, Server(q)
  PROVE  /\ \A p \in Pids : p # q => store'[p] = store[p]
         /\ \A c \in DOMAIN store'[q] : \A k \in store'[q][c] :
              /\ c \in DOMAIN store[q]
              /\ k \in store[q][c] \/ (/\ ServeData(q) /\ inbox[q] # <<>> /\ Head(inbox[q]).cmd = "ADD"
                                       /\ Head(inbox[q]).coll = c /\ Head(inbox[q]).key = k)
<1>1. store = [p \in Pids |-> store[p]] /\ store[q] \in [DOMAIN store[q] -> SUBSET Keys]
  BY DEF TypeInv, ServersType, IsMap
<1>2. CASE UNCHANGED store
  BY <1>1, <1>2
<1>3. CASE Dies(q)
  <2>1. store' = [store EXCEPT ![q] = EmptyMap]
    BY <1>3 DEF Dies
  <2>2. DOMAIN store'[q] = {} /\ \A p \in Pids : p # q => store'[p] = store[p]
    BY <1>1, <2>1 DEF EmptyMap
  <2> QED  BY <2>2
<1>4. CASE ServeAddStruct(q)
  <2>1. SUFFICES ASSUME store' # store
                 PROVE  /\ \A p \in Pids : p # q => store'[p] = store[p]
                        /\ \A c \in DOMAIN store'[q] : \A k \in store'[q][c] :
                             c \in DOMAIN store[q] /\ k \in store[q][c]
    BY <1>2
  <2> DEFINE d == Head(inbox[q]).coll
             f == store[q]
             g == [c \in DOMAIN f \cup {d} |-> IF c = d THEN {} ELSE f[c]]
  <2>2. store' = [store EXCEPT ![q] = g]
    BY <1>4, <2>1 DEF ServeAddStruct, data
  <2>3. \A c \in DOMAIN g : \A k \in g[c] : c \in DOMAIN f /\ k \in f[c]
    OBVIOUS
  <2> HIDE DEF g
  <2>4. store'[q] = g /\ \A p \in Pids : p # q => store'[p] = store[p]
    BY <1>1, <2>2
  <2> QED  BY <2>3, <2>4
<1>5. CASE ServeDisposeStruct(q)
  <2>1. SUFFICES ASSUME store' # store
                 PROVE  /\ \A p \in Pids : p # q => store'[p] = store[p]
                        /\ \A c \in DOMAIN store'[q] : \A k \in store'[q][c] :
                             c \in DOMAIN store[q] /\ k \in store[q][c]
    BY <1>2
  <2> DEFINE m == Head(inbox[q])
             f == store[q]
             g == IF m.cmd = "DISPOSE_COLLECTION" THEN [c \in DOMAIN f \ {m.coll} |-> f[c]] ELSE EmptyMap
  <2>2. store' = [store EXCEPT ![q] = g]
    BY <1>5, <2>1 DEF ServeDisposeStruct, data
  <2>3. \A c \in DOMAIN g : \A k \in g[c] : c \in DOMAIN f /\ k \in f[c]
    BY DEF EmptyMap
  <2> HIDE DEF g
  <2>4. store'[q] = g /\ \A p \in Pids : p # q => store'[p] = store[p]
    BY <1>1, <2>2
  <2> QED  BY <2>3, <2>4
<1>6. CASE ServeData(q)
  <2> DEFINE m == Head(inbox[q])
  <2>1. PICK a \in Asking : Given(q, m, a)
    BY <1>6, DataGiven
  <2>2. inbox[q] # <<>>
    BY <1>6, DataGiven
  <2>3. CASE a.status # "OK"
    BY <1>2, <2>1, <2>3 DEF Given
  <2>4. CASE a.status = "OK"
    <3> HIDE DEF m
    <3>1. /\ \A p \in Pids : p # q => store'[p] = store[p]
          /\ DOMAIN store'[q] = DOMAIN store[q]
          /\ store'[q][m.coll] = Effect(m, store[q][m.coll])
          /\ \A c \in DOMAIN store[q] : c # m.coll => store'[q][c] = store[q][c]
      BY <2>1, <2>4 DEF Given
    <3>2. \A k \in Effect(m, store[q][m.coll]) : k \in store[q][m.coll] \/ (m.cmd = "ADD" /\ k = m.key)
      BY DEF Effect
    <3> QED  BY <1>6, <2>2, <3>1, <3>2 DEF m
  <2> QED  BY <2>3, <2>4
<1>7. UNCHANGED store \/ Dies(q) \/ ServeAddStruct(q) \/ ServeDisposeStruct(q) \/ ServeData(q)
  BY DEF Server, ServeSetup, ServeCount, NoMemory, ServeRange, ServeEnd, LoseQueue, data
<1> QED  BY <1>2, <1>3, <1>4, <1>5, <1>6, <1>7

(* When nothing is broadcast, what the servers have is known.               *)
LEMMA KnownAtRest ==
  ASSUME FullInv', ThereInv', HomeInv', Running', ~Broadcasting'
  PROVE  NewInv'
<1>1. SUFFICES ASSUME NEW p \in Pids, NEW c \in DOMAIN store'[p]
               PROVE  c \in DOMAIN seps' \/ store'[p][c] = {}
  BY DEF NewInv
<1>2. CASE ~IsServer(p)'
  BY <1>2 DEF HomeInv, Nothing, Running
<1>3. CASE IsServer(p)'
  <2>1. PICK j \in DOMAIN servers' : servers'[j] = p
    BY <1>3 DEF IsServer
  <2>2. proc'[p] = "up"
    BY DEF ThereInv
  <2>3. HasAll(j)' \/ (j = 2 /\ Blank')
    BY <2>1, <2>2 DEF FullInv, Running
  <2> QED  BY <2>1, <2>3 DEF HasAll, Blank, Passed
<1> QED  BY <1>2, <1>3

(* What else happens leaves the stores, and no separators are lost but by   *)
(* the end of a broadcast.                                                  *)
LEMMA OnlyServersStore ==
  ASSUME TypeInv, [Next]_vars, ~\E q \in Pids : Server(q)
  PROVE  /\ UNCHANGED store
         /\ Broadcasting' => DOMAIN seps \subseteq DOMAIN seps'
<1>1. KnownType /\ run \in BOOLEAN
  BY DEF TypeInv, HistoryType
<1>2. Return => ~Broadcasting'
  <2>1. Return => mgr'.wait \in {"main", "ended", "path"}
    BY <1>1, BodyTurns DEF Return
  <2> QED  BY <2>1 DEF Broadcasting
<1>3. CASE TransferAnswer \/ TransferTimeout
  <2>1. Aside
    BY <1>3, AsideTransfer
  <2> QED  BY <2>1 DEF Aside
<1>4. CASE SetupAnswer
  <2>1. DOMAIN seps' = DOMAIN seps
    BY <1>4 DEF SetupAnswer, SepsGrown
  <2> QED  BY <1>4, <2>1 DEF SetupAnswer, Outside, data
<1>5. CASE AddStructGoesOn
  <2>1. DOMAIN seps \subseteq DOMAIN seps'
    <3>1. \A d : DOMAIN SepsWith(d) = DOMAIN seps \cup {d}
      BY DEF SepsWith
    <3>2. seps' = seps \/ \E d : seps' = SepsWith(d)
      BY <1>5, AddGoesOn DEF AddStructGoesOn
    <3> QED  BY <3>1, <3>2
  <2> QED  BY <1>5, <2>1 DEF AddStructGoesOn, Outside, data
<1>6. CASE DisposeStructGoesOn
  <2>1. Broadcasting' => UNCHANGED seps
    BY <1>2, <1>6 DEF DisposeStructGoesOn
  <2> QED  BY <1>6, <2>1 DEF DisposeStructGoesOn, Outside, data
<1>7. CASE ForwardAnswer \/ ForwardRequest \/ HandleStruct \/ RollbackGoesOn
  BY <1>7 DEF ForwardAnswer, ForwardRequest, HandleStruct, RollbackGoesOn, Outside, data
<1>8. CASE NextPath \/ CountAnswer \/ CountTimeout \/ BeginTransfer
  BY <1>8 DEF NextPath, CountAnswer, CountTimeout, BeginTransfer, Outside, data
<1>9. CASE SetupTimeout \/ HandleShutdown \/ Terminal
  BY <1>9 DEF SetupTimeout, HandleShutdown, Terminal, HandleRun, HandleTerminate, TypeShutdown, Outside, data
<1>10. CASE UNCHANGED vars \/ \E c \in Clients : Request(c) \/ Client(c)
  BY <1>10 DEF vars, data, Request, Client, TakeReply, TakeRangeReply, ClientTimeout
<1> QED  BY <1>3, <1>4, <1>5, <1>6, <1>7, <1>8, <1>9, <1>10 DEF Next, Manager

(* A key that a server takes in without a transfer is where it belongs.     *)
LEMMA PlacedComes ==
  ASSUME TypeInv, Running, ~Busy, AddedInv, NEW q \in Pids, Server(q),
         NEW j \in DOMAIN servers, servers[j] = q,
         NEW c \in DOMAIN store'[q], NEW k \in store'[q][c]
  PROVE  c \in DOMAIN store[q] /\ (k \in store[q][c] \/ (c \in DOMAIN seps /\ Belongs(j, c, k)))
<1>1. /\ c \in DOMAIN store[q]
      /\ k \in store[q][c] \/ (/\ ServeData(q) /\ inbox[q] # <<>> /\ Head(inbox[q]).cmd = "ADD"
                               /\ Head(inbox[q]).coll = c /\ Head(inbox[q]).key = k)
  BY ServerGrows
<1>2. SUFFICES ASSUME inbox[q] # <<>>, Head(inbox[q]).cmd = "ADD",
                      Head(inbox[q]).coll = c, Head(inbox[q]).key = k
               PROVE  c \in DOMAIN seps /\ Belongs(j, c, k)
  BY <1>1
<1>3. inbox[q] \in Seq(Asking)
  BY DEF TypeInv, MailType
<1>4. 1 \in DOMAIN inbox[q] /\ inbox[q][1] = Head(inbox[q])
  BY <1>2, <1>3, TailAt
<1>5. Placed(j, Head(inbox[q]))
  BY <1>2, <1>4 DEF AddedInv
<1> QED  BY <1>1, <1>2, <1>5 DEF Placed

(* A collection that is not known is empty.                                 *)
LEMMA NewStep ==
  ASSUME TypeInv, FullInv', ThereInv', HomeInv', NewInv, AddedInv, [Next]_vars
  PROVE  NewInv'
<1>1. SUFFICES ASSUME Running', Running, Broadcasting'
               PROVE  NewInv'
  BY RunningGoesOn, KnownAtRest DEF NewInv
<1>2. CASE \E q \in Pids : Server(q)
  <2>1. PICK q \in Pids : Server(q)
    BY <1>2
  <2>2. UNCHANGED <<mgr, servers, seps>>
    BY <2>1, ServerGoes
  <2>3. ~Busy
    BY <1>1, <2>2 DEF Busy, Broadcasting, TransferWaits
  <2>4. \A p \in Pids : p # q => store'[p] = store[p]
    BY <2>1, ServerGrows
  <2>5. SUFFICES ASSUME NEW p \in Pids, NEW c \in DOMAIN store'[p], c \notin DOMAIN seps, NEW k \in store'[p][c]
                 PROVE  FALSE
    BY <2>2 DEF NewInv
  <2>6. CASE p # q
    BY <1>1, <2>4, <2>5, <2>6 DEF NewInv
  <2>7. CASE p = q /\ ~IsServer(p)
    BY <1>1, <2>2, <2>5, <2>7 DEF HomeInv, IsServer, Nothing, Running
  <2>8. CASE p = q /\ IsServer(p)
    <3>1. PICK j \in DOMAIN servers : servers[j] = q
      BY <2>8 DEF IsServer
    <3>2. c \in DOMAIN store[q] /\ k \in store[q][c]
      BY <1>1, <2>1, <2>3, <2>5, <2>8, <3>1, PlacedComes
    <3> QED  BY <1>1, <2>5, <2>8, <3>2 DEF NewInv
  <2> QED  BY <2>6, <2>7, <2>8
<1>3. CASE ~\E q \in Pids : Server(q)
  <2>1. UNCHANGED store /\ DOMAIN seps \subseteq DOMAIN seps'
    BY <1>1, <1>3, OnlyServersStore
  <2> QED  BY <1>1, <2>1 DEF NewInv
<1> QED  BY <1>2, <1>3

(* The servers that are known have pids.                                    *)
LEMMA ServerPids ==
  ASSUME TypeInv
  PROVE  /\ servers \in Seq(Pids) /\ \A j \in DOMAIN servers : servers[j] \in Pids /\ j \in Nat
         /\ Len(servers) <= 2 /\ DOMAIN servers \subseteq {1, 2}
<1>1. servers \in Seq(Pids) /\ Len(servers) <= 2
  BY DEF TypeInv, KnownType, MaxServers
<1>2. \A j \in DOMAIN servers : servers[j] \in Pids /\ j \in Nat /\ j \in {1, 2}
  BY <1>1
<1> QED  BY <1>1, <1>2

(* A step that moves no key and no separator.                               *)
LEMMA ApartKept ==
  ASSUME TypeInv, Running, ~Busy, ApartInv, NewInv, UNCHANGED store,
         \A j \in DOMAIN servers' : j \in DOMAIN servers /\ servers'[j] = servers[j],
         \A c \in DOMAIN seps' : c \in DOMAIN seps => seps'[c] = seps[c]
  PROVE  ApartInv'
<1>1. SUFFICES ASSUME NEW j \in DOMAIN servers', NEW c \in DOMAIN store'[servers'[j]], c \in DOMAIN seps',
                      NEW k \in store'[servers'[j]][c]
               PROVE  Belongs(j, c, k)'
  BY DEF ApartInv
<1>2. servers[j] \in Pids /\ c \in DOMAIN store[servers[j]] /\ k \in store[servers[j]][c]
      /\ j \in DOMAIN servers
  BY <1>1, ServerPids
<1>3. c \in DOMAIN seps
  BY <1>2 DEF NewInv
<1>4. seps'[c] = seps[c]
  BY <1>1, <1>3
<1>5. Belongs(j, c, k)
  <2>1. ~Moved(j, c, k)
    BY DEF Moved, Busy, TransferWaits
  <2> QED  BY <1>2, <1>3, <2>1 DEF ApartInv
<1> QED  BY <1>4, <1>5 DEF Belongs

(* A server does what it is told.                                           *)
LEMMA ApartServed ==
  ASSUME TypeInv, PidInv, RightInv, ApartInv, AddedInv, Running, NEW q \in Pids, Server(q)
  PROVE  ApartInv'
<1>1. UNCHANGED <<mgr, servers, seps>>
  BY ServerGoes
<1>2. SUFFICES ASSUME NEW j \in DOMAIN servers, NEW c \in DOMAIN store'[servers[j]], c \in DOMAIN seps,
                      NEW k \in store'[servers[j]][c], Running'
               PROVE  Belongs(j, c, k)' \/ Moved(j, c, k)'
  BY <1>1 DEF ApartInv
<1>3. servers[j] \in Pids
  BY ServerPids
<1>4. Belongs(j, c, k) => Belongs(j, c, k)'
  BY <1>1 DEF Belongs
<1>5. CASE ~Busy
  <2>1. CASE servers[j] = q
    <3>1. c \in DOMAIN store[q] /\ (k \in store[q][c] \/ (c \in DOMAIN seps /\ Belongs(j, c, k)))
      BY <1>2, <1>5, <2>1, PlacedComes
    <3>2. ~Moved(j, c, k)
      BY <1>5 DEF Moved, Busy, TransferWaits
    <3> QED  BY <1>2, <1>4, <2>1, <3>1, <3>2 DEF ApartInv
  <2>2. CASE servers[j] # q
    <3>1. store'[servers[j]] = store[servers[j]]
      BY <1>3, <2>2, ServerGrows
    <3>2. ~Moved(j, c, k)
      BY <1>5 DEF Moved, Busy, TransferWaits
    <3> QED  BY <1>2, <1>4, <3>1, <3>2 DEF ApartInv
  <2> QED  BY <2>1, <2>2
<1>6. CASE Busy
  <2>1. RightAsked /\ RightAnswered' /\ Gains
    BY <1>2, <1>6, RightServed DEF Running
  <2>2. Path' = Path
    BY <1>1 DEF Path
  <2>3. c \in DOMAIN store[servers[j]]
        /\ \/ k \in store[servers[j]][c]
           \/ servers[j] = Taker /\ c = Path /\ k = mgr.newsep /\ mgr.wait = "add" /\ box'["answer"][1].status = "OK"
    BY <1>2, <1>3, <2>1 DEF Gains
  <2>4. CASE k \in store[servers[j]][c]
    <3>1. Belongs(j, c, k) \/ Moved(j, c, k)
      BY <1>2, <2>3, <2>4 DEF ApartInv
    <3>2. Moved(j, c, k) => Moved(j, c, k)'
      BY <1>1, <2>1, <2>2 DEF Moved, RightAsked
    <3> QED  BY <1>4, <3>1, <3>2
  <2>5. CASE servers[j] = Taker /\ c = Path /\ k = mgr.newsep /\ mgr.wait = "add" /\ box'["answer"][1].status = "OK"
    <3>1. j = 2
      BY <1>6, <2>5, BusyPair DEF Taker, PidInv
    <3>2. box'["answer"] # <<>>
      BY <2>1 DEF RightAnswered
    <3> QED  BY <1>1, <2>2, <2>5, <3>1, <3>2 DEF Moved
  <2> QED  BY <2>3, <2>4, <2>5
<1> QED  BY <1>5, <1>6

(* The key that moved belongs where it is when its separator follows.       *)
LEMMA ApartMoves ==
  ASSUME TypeInv, PidInv, SepsInv, RightInv, ApartInv, Running, TransferAnswer
  PROVE  ApartInv'
<1>1. /\ RightAnswered /\ Busy
      /\ Head(box["answer"]) = box["answer"][1] /\ box["answer"][1] \in Asking
      /\ mgr.wait \in {"obtain", "add", "dispose"} /\ mgr.dir # "left"
      /\ UNCHANGED <<store, servers>>
  BY RightComes DEF Running
<1>2. /\ Len(servers) = 2 /\ Giver \in Pids /\ Taker \in Pids /\ Giver # Taker /\ Path \in DOMAIN seps
      /\ DOMAIN servers = {1, 2} /\ (mgr.wait \in {"add", "dispose"} => mgr.newsep \in Keys)
  BY <1>1, BusyPair
<1>3. SUFFICES ASSUME NEW j \in {1, 2}, NEW c \in DOMAIN store[servers[j]], c \in DOMAIN seps',
                      NEW k \in store[servers[j]][c]
               PROVE  Belongs(j, c, k)' \/ Moved(j, c, k)'
  BY <1>1, <1>2 DEF ApartInv
<1>4. CASE mgr.wait = "dispose" /\ EndTransfer
  <2>1. /\ DOMAIN seps' = DOMAIN seps
        /\ \A d \in DOMAIN seps : d # Path => seps'[d] = seps[d]
        /\ seps'[Path] # <<>> /\ seps'[Path][1] = mgr.newsep
    BY <1>4, SepsEnded DEF Path
  <2>2. Belongs(j, c, k) \/ Moved(j, c, k)
    BY <1>2, <1>3, <2>1 DEF ApartInv
  <2>3. CASE c # Path
    BY <1>3, <2>1, <2>2, <2>3 DEF Belongs, Moved
  <2>4. CASE c = Path /\ j = 1
    <3>1. k < mgr.newsep
      BY <1>1, <1>3, <1>4, <2>4 DEF RightAnswered, Giver
    <3> QED  BY <2>1, <2>4, <3>1 DEF Belongs
  <2>5. CASE c = Path /\ j = 2
    <3>1. k \in Nat /\ mgr.newsep \in Nat
      <4>1. k \in Keys
        BY <1>2, <1>3, <2>5 DEF TypeInv, ServersType, IsMap, Taker
      <4> QED  BY <1>2, <1>4, <4>1, FiniteData
    <3>2. mgr.newsep < seps[Path][1]
      BY <1>1, <1>4 DEF RightInv, Running
    <3>3. seps[Path][1] \in Nat
      <4>1. seps[Path] \in Seq(Keys \cup {Top}) /\ seps[Path] # <<>>
        BY <1>2 DEF TypeInv, KnownType, IsMap, SepsInv
      <4>2. seps[Path][1] \in Keys \cup {Top}
        BY <4>1
      <4>3. Top \in Nat
        <5>1. NKeys \in Nat
          BY ClusterAssumption
        <5> QED  BY <5>1 DEF Top
      <4>4. Keys \subseteq Nat
        BY FiniteData
      <4> QED  BY <4>2, <4>3, <4>4
    <3>4. mgr.newsep <= k
      <4>1. CASE Moved(j, c, k)
        BY <3>1, <4>1 DEF Moved
      <4>2. CASE Belongs(j, c, k)
        BY <2>5, <3>1, <3>2, <3>3, <4>2 DEF Belongs
      <4> QED  BY <2>2, <4>1, <4>2
    <3> QED  BY <2>1, <2>5, <3>4 DEF Belongs
  <2> QED  BY <1>3, <2>3, <2>4, <2>5
<1>5. CASE ~(mgr.wait = "dispose" /\ EndTransfer)
  <2>1. UNCHANGED seps
    BY <1>5 DEF TransferAnswer
  <2>2. Belongs(j, c, k) \/ Moved(j, c, k)
    BY <1>2, <1>3, <2>1 DEF ApartInv
  <2>3. CASE Belongs(j, c, k)
    BY <2>1, <2>3 DEF Belongs
  <2>4. CASE Moved(j, c, k)
    <3>1. mgr.wait = "add" /\ Head(box["answer"]).status = "OK" /\ j = 2 /\ c = Path /\ k = mgr.newsep
      <4>1. mgr.wait # "dispose"
        BY <1>5 DEF TransferAnswer
      <4> QED  BY <1>1, <2>4, <4>1 DEF Moved
    <3>2. \E p, m : Send(p, m, "DISPOSE", "dispose", mgr.newsep)
      BY <3>1 DEF TransferAnswer
    <3>3. mgr'.wait = "dispose" /\ mgr'.newsep = mgr.newsep /\ mgr'.todo = mgr.todo
      BY <3>2 DEF Send, TypeInv, MgrType, Places
    <3> QED  BY <3>1, <3>3 DEF Moved, Path
  <2> QED  BY <2>2, <2>3, <2>4
<1> QED  BY <1>4, <1>5

(* A new server is empty, and its separators are above all keys.            *)
LEMMA ApartSetUp ==
  ASSUME TypeInv, PidInv, SepsInv, ApartInv, Running, SetupAnswer
  PROVE  ApartInv'
<1>1. /\ mgr.wait = "setup" /\ servers' = Append(servers, spawned) /\ seps' = SepsGrown /\ UNCHANGED store
  BY DEF SetupAnswer, Outside, data
<1>2. DOMAIN store[spawned] = {} /\ spawned \in Pids
  BY <1>1 DEF PidInv, TypeInv, ServersType
<1>3. SUFFICES ASSUME NEW j \in DOMAIN servers', NEW c \in DOMAIN store[servers'[j]], c \in DOMAIN seps',
                      NEW k \in store[servers'[j]][c]
               PROVE  Belongs(j, c, k)'
  BY <1>1 DEF ApartInv
<1>4. j \in DOMAIN servers /\ servers'[j] = servers[j]
  <2>1. j \in DOMAIN servers \/ servers'[j] = spawned
    BY <1>1, ServerPids, AppendAt
  <2>2. j \in DOMAIN servers
    BY <1>2, <1>3, <2>1
  <2> QED  BY <1>1, <2>2, ServerPids, AppendAt
<1>5. /\ j = 1 /\ servers # <<>>
  <2>1. Len(servers) < 2
    BY <1>1 DEF TypeInv, MgrType, MaxServers
  <2>2. j \in 1 .. Len(servers) /\ Len(servers) \in Nat
    BY <1>4, ServerPids
  <2> QED  BY <2>1, <2>2, ServerPids
<1>6. c \in DOMAIN seps /\ seps'[c] = Append(seps[c], Top)
  BY <1>1, <1>3, <1>5 DEF SepsGrown
<1>7. k \in Keys /\ seps[c] \in Seq(Keys \cup {Top})
  BY <1>3, <1>4, <1>6, ServerPids DEF TypeInv, ServersType, KnownType, IsMap
<1>8. Belongs(1, c, k)
  <2>1. ~Moved(1, c, k)
    BY DEF Moved
  <2> QED  BY <1>3, <1>4, <1>5, <1>6, <2>1 DEF ApartInv
<1>9. CASE seps[c] = <<>>
  <2>1. seps'[c] = <<Top>>
    BY <1>6, <1>9
  <2>2. seps'[c][1] = Top
    BY <2>1
  <2>3. k < Top
    BY <1>7, ClusterAssumption DEF Keys, Top
  <2> QED  BY <1>5, <2>2, <2>3 DEF Belongs
<1>10. CASE seps[c] # <<>>
  <2>1. seps'[c][1] = seps[c][1]
    BY <1>6, <1>7, <1>10
  <2> QED  BY <1>5, <1>8, <1>10, <2>1 DEF Belongs
<1> QED  BY <1>9, <1>10

(* A collection that comes to be known was not.                             *)
LEMMA NewlyKnown ==
  ASSUME TypeInv, PidInv, BroadcastInv, FullInv, Settled', AddStructGoesOn, [Next]_vars
  PROVE  \A c \in DOMAIN seps' : c \in DOMAIN seps => seps'[c] = seps[c]
<1>1. Settled /\ Broadcasting /\ Back = "added" /\ mgr.wait = "struct_add"
  BY TimeGoesOn, AddGoesOn
<1>2. PICK m, back :
              /\ Received("added", m)
              /\ \/ /\ ~(box["added"] # <<>> /\ m.status = "OK") /\ mgr.i = 1
                    /\ Return /\ UNCHANGED <<inbox, seps>>
                 \/ /\ ~(box["added"] # <<>> /\ m.status = "OK") /\ mgr.i > 1
                    /\ SendStruct(mgr.i - 1, back, "rollback")
                 \/ /\ box["added"] # <<>> /\ m.status = "OK" /\ mgr.i < Len(servers)
                    /\ SendStruct(mgr.i + 1, m, "struct_add") /\ UNCHANGED seps
                 \/ /\ box["added"] # <<>> /\ m.status = "OK" /\ mgr.i = Len(servers)
                    /\ Return /\ UNCHANGED inbox
                    /\ seps' = IF m.cmd = "ADD_COLLECTION" THEN SepsWith(m.coll) ELSE seps
  BY AddGoesOn
<1>3. SUFFICES ASSUME seps' # seps
               PROVE  \A c \in DOMAIN seps' : c \in DOMAIN seps => seps'[c] = seps[c]
  OBVIOUS
<1>4. CASE /\ box["added"] # <<>> /\ m.status = "OK" /\ mgr.i = Len(servers)
           /\ m.cmd = "ADD_COLLECTION" /\ seps' = SepsWith(m.coll)
  <2>1. faults' = 0
    BY DEF Settled, Orderly
  <2>2. Heard(m)
    BY <1>1, <1>2, <2>1, StructHeard
  <2>3. mgr.msg.cmd = "ADD_COLLECTION" /\ m.coll = mgr.msg.coll /\ m = box["added"][1]
    BY <1>1, <1>4, <2>2 DEF Heard
  <2>4. Passed(1)
    <3>1. mgr.i \in {1, 2}
      BY <1>1, ServerPids DEF PidInv
    <3>2. box[Back] # <<>> /\ box["added"][1].status = "OK"
      BY <1>1, <1>4, <2>3
    <3>3. CASE mgr.i = 1
      BY <1>1, <3>2, <3>3 DEF Passed
    <3>4. CASE mgr.i = 2
      BY <1>1, <3>4 DEF Passed
    <3> QED  BY <3>1, <3>3, <3>4
  <2>5. m.coll \notin DOMAIN seps
    BY <1>1, <2>3, <2>4 DEF FullInv, AddsNew
  <2> QED  BY <1>4, <2>5 DEF SepsWith
<1>5. CASE ~(mgr.i > 1 /\ SendStruct(mgr.i - 1, back, "rollback"))
  BY <1>2, <1>3, <1>4, <1>5
<1>6. CASE mgr.i > 1 /\ SendStruct(mgr.i - 1, back, "rollback") /\ ~(box["added"] # <<>> /\ m.status = "OK")
  <2>1. mgr'.wait = "rollback"
    BY <1>6, StructSent
  <2>2. Return => mgr'.wait # "rollback"
    <3>1. Return => mgr'.wait \in {"main", "ended", "path"}
      BY BodyTurns DEF Return, TypeInv, HistoryType
    <3> QED  BY <3>1
  <2>3. UNCHANGED seps
    BY <2>1, <2>2 DEF AddStructGoesOn, SendStruct, At
  <2> QED  BY <1>3, <2>3
<1> QED  BY <1>2, <1>4, <1>5, <1>6

(* Whatever happens, the keys are where the separators say.                 *)
LEMMA ApartStep ==
  ASSUME TypeInv, PidInv, BroadcastInv, FullInv, SepsInv, RightInv, ApartInv, NewInv, AddedInv, [Next]_vars
  PROVE  ApartInv'
<1>1. SUFFICES ASSUME Running', Running
               PROVE  ApartInv'
  BY RunningGoesOn DEF ApartInv
<1>2. KnownType /\ Settled' /\ Settled
  BY <1>1 DEF TypeInv, Running
<1>3. CASE \E q \in Pids : Server(q)
  BY <1>1, <1>3, ApartServed
<1>4. CASE TransferAnswer
  BY <1>1, <1>4, ApartMoves
<1>5. CASE TransferTimeout
  <2>1. RightLost /\ mgr.wait # "dispose" /\ UNCHANGED <<seps, store, servers>>
    BY <1>2, <1>5, RightTimesOut
  <2>2. \A j, c, k : ~Moved(j, c, k)
    BY <2>1 DEF Moved, RightLost
  <2> QED  BY <1>1, <2>1, <2>2 DEF ApartInv, Belongs
<1>6. CASE SetupAnswer
  BY <1>1, <1>6, ApartSetUp
<1>7. CASE AddStructGoesOn
  <2>1. UNCHANGED <<store, servers>> /\ ~Busy
    BY <1>7 DEF AddStructGoesOn, Outside, data, Busy, TransferWaits
  <2>2. \A c \in DOMAIN seps' : c \in DOMAIN seps => seps'[c] = seps[c]
    BY <1>2, <1>7, NewlyKnown
  <2> QED  BY <1>1, <2>1, <2>2, ApartKept
<1>8. CASE DisposeStructGoesOn
  <2>1. UNCHANGED <<store, servers>> /\ ~Busy
    BY <1>8 DEF DisposeStructGoesOn, Outside, data, Busy, TransferWaits
  <2>2. \A c \in DOMAIN seps' : c \in DOMAIN seps => seps'[c] = seps[c]
    <3>1. UNCHANGED seps \/ \E d : seps' = [c \in DOMAIN seps \ {d} |-> seps[c]]
      BY <1>8 DEF DisposeStructGoesOn
    <3> QED  BY <3>1
  <2> QED  BY <1>1, <2>1, <2>2, ApartKept
<1>9. CASE NextPath
  <2>1. UNCHANGED <<store, seps>> /\ ~Busy
    BY <1>9 DEF NextPath, Outside, data, Busy, TransferWaits
  <2>2. \A j \in DOMAIN servers' : j \in DOMAIN servers /\ servers'[j] = servers[j]
    <3>1. UNCHANGED servers \/ (servers' = Front(servers) /\ mgr.job = "terminate")
      BY <1>9 DEF NextPath, LetGo
    <3>2. CASE servers' = Front(servers) /\ mgr.job = "terminate"
      <4>1. Len(servers) = 2 /\ servers \in Seq(Pids)
        BY <3>2, ServerPids DEF TypeInv, MgrType, MaxServers
      <4>2. servers' = SubSeq(servers, 1, Len(servers) - 1)
        BY <3>2 DEF Front
      <4>3. \A j \in DOMAIN servers' : j \in DOMAIN servers /\ servers'[j] = servers[j]
        BY <4>1, <4>2
      <4> QED  BY <4>3
    <3> QED  BY <3>1, <3>2
  <2> QED  BY <1>1, <2>1, <2>2, ApartKept
<1>10. CASE ForwardAnswer \/ ForwardRequest \/ HandleStruct \/ RollbackGoesOn \/ CountAnswer \/ CountTimeout
  <2>1. UNCHANGED <<store, seps, servers>> /\ ~Busy
    BY <1>10 DEF ForwardAnswer, ForwardRequest, HandleStruct, Asked, RollbackGoesOn, CountAnswer, CountTimeout,
                 Outside, data, Busy, TransferWaits
  <2> QED  BY <1>1, <2>1, ApartKept
<1>11. CASE BeginTransfer \/ SetupTimeout \/ HandleShutdown \/ HandleRun \/ HandleTerminate
  <2>1. UNCHANGED <<store, seps, servers>> /\ ~Busy
    BY <1>11 DEF BeginTransfer, SetupTimeout, HandleShutdown, HandleRun, HandleTerminate,
                 Outside, data, Busy, TransferWaits
  <2> QED  BY <1>1, <2>1, ApartKept
<1>12. CASE TypeShutdown
  BY <1>2, <1>12 DEF TypeShutdown, Settled
<1>13. CASE UNCHANGED vars \/ \E c \in Clients : Request(c) \/ Client(c)
  <2>1. UNCHANGED <<store, servers, seps, mgr, box>>
    BY <1>13 DEF vars, mail, data, Request, Client, TakeReply, TakeRangeReply, ClientTimeout
  <2>2. \A j, c, k : Belongs(j, c, k)' = Belongs(j, c, k) /\ Moved(j, c, k)' = Moved(j, c, k)
    BY <2>1 DEF Belongs, Moved, Path
  <2> QED  BY <1>1, <2>1, <2>2 DEF ApartInv
<1> QED  BY <1>3, <1>4, <1>5, <1>6, <1>7, <1>8, <1>9, <1>10, <1>11, <1>12, <1>13 DEF Next, Manager, Terminal

(* With two servers at most a key is routed by the first separator alone.   *)
LEMMA RouteIs ==
  ASSUME TypeInv, SepsInv, NEW c \in DOMAIN seps, NEW k \in Keys
  PROVE  Route(c, k) = IF seps[c] # <<>> /\ seps[c][1] <= k THEN 2 ELSE 1
<1> DEFINE S == {i \in DOMAIN seps[c] : \A j \in 1 .. i : seps[c][j] <= k}
<1>1. Route(c, k) = 1 + Cardinality(S)
  BY DEF Route
<1>2. seps[c] \in Seq(Keys \cup {Top})
  BY DEF TypeInv, KnownType, IsMap
<1>3. k < Top /\ k \in Nat
  BY ClusterAssumption DEF Keys, Top
<1>4. DOMAIN seps[c] = 1 .. Len(seps[c]) /\ Len(seps[c]) \in Nat
  BY <1>2
<1>5. S \subseteq {1}
  <2>1. SUFFICES ASSUME NEW i \in S, i # 1
                 PROVE  FALSE
    OBVIOUS
  <2>2. i \in 1 .. Len(seps[c]) /\ i \in Nat /\ i > 1 /\ i \in 1 .. i
    BY <1>4, <2>1
  <2>3. seps[c][i] = Top
    BY <2>1, <2>2 DEF SepsInv
  <2>4. seps[c][i] <= k
    BY <2>2
  <2>5. Top \in Nat
    BY ClusterAssumption DEF Top
  <2> QED  BY <1>3, <2>3, <2>4, <2>5
<1>6. CASE seps[c] # <<>> /\ seps[c][1] <= k
  <2>1. 1 \in DOMAIN seps[c]
    BY <1>2, <1>6
  <2>2. 1 .. 1 = {1}
    OBVIOUS
  <2>3. 1 \in S
    BY <1>6, <2>1, <2>2
  <2>4. S = {1}
    BY <1>5, <2>3
  <2>5. Cardinality(S) = 1
    BY <2>4, FS_Singleton
  <2> QED  BY <1>1, <1>6, <2>5
<1>7. CASE ~(seps[c] # <<>> /\ seps[c][1] <= k)
  <2>1. 1 \notin S
    <3>1. SUFFICES ASSUME 1 \in S  PROVE FALSE
      OBVIOUS
    <3>2. 1 \in 1 .. 1
      OBVIOUS
    <3>3. seps[c][1] <= k /\ 1 \in DOMAIN seps[c]
      BY <3>1, <3>2
    <3> QED  BY <1>2, <1>7, <3>3
  <2>2. S = {}
    BY <1>5, <2>1
  <2>3. Cardinality(S) = 0
    BY <2>2, FS_EmptySet
  <2> HIDE DEF S
  <2> QED  BY <1>1, <1>7, <2>3
<1> QED  BY <1>6, <1>7

(* A key is routed to the server where it belongs.                          *)
LEMMA RouteBelongs ==
  ASSUME TypeInv, SepsInv, NEW c \in DOMAIN seps, NEW k \in Keys
  PROVE  /\ Route(c, k) \in {1, 2} /\ Belongs(Route(c, k), c, k)
         /\ \A j \in {1, 2} : Belongs(j, c, k) => j = Route(c, k)
<1>1. Route(c, k) = IF seps[c] # <<>> /\ seps[c][1] <= k THEN 2 ELSE 1
  BY RouteIs
<1>2. seps[c] # <<>> => seps[c][1] \in Nat
  <2>1. seps[c] \in Seq(Keys \cup {Top})
    BY DEF TypeInv, KnownType, IsMap
  <2>2. Top \in Nat /\ Keys \subseteq Nat
    BY ClusterAssumption DEF Top, Keys
  <2>3. seps[c] # <<>> => seps[c][1] \in Keys \cup {Top}
    BY <2>1
  <2> QED  BY <2>2, <2>3
<1>3. k \in Nat
  BY ClusterAssumption DEF Keys
<1> QED  BY <1>1, <1>2, <1>3 DEF Belongs

(* What is added was already to be added.                                   *)
AddsFrom ==
  \A p \in Pids : \A k \in DOMAIN inbox'[p] :
    inbox'[p][k].cmd = "ADD" => \E l \in DOMAIN inbox[p] : inbox[p][l] = inbox'[p][k]

(* Sending other commands adds nothing.                                    *)
LEMMA AddsSent ==
  ASSUME TypeInv, NEW D, Sends(D), "ADD" \notin D
  PROVE  AddsFrom
<1>1. SUFFICES ASSUME NEW p \in Pids, NEW k \in DOMAIN inbox'[p], inbox'[p][k].cmd = "ADD"
               PROVE  \E l \in DOMAIN inbox[p] : inbox[p][l] = inbox'[p][k]
  BY DEF AddsFrom
<1>2. inbox[p] \in Seq(Asking)
  BY DEF TypeInv, MailType
<1>3. CASE inbox'[p] = inbox[p]
  BY <1>1, <1>3
<1>4. CASE \E m : m.cmd \in D /\ inbox'[p] = Append(inbox[p], m)
  <2>1. PICK m : m.cmd \in D /\ inbox'[p] = Append(inbox[p], m)
    BY <1>4
  <2> QED  BY <1>1, <1>2, <2>1, AppendAt
<1> QED  BY <1>3, <1>4 DEF Sends

(* A server that takes a command adds nothing to what is to be added.      *)
LEMMA AddsTaken ==
  ASSUME TypeInv, NEW q \in Pids, Server(q)
  PROVE  AddsFrom
<1>1. ServerStep(q)
  BY ServerSteps
<1>2. inbox[q] \in Seq(Asking)
  BY DEF TypeInv, MailType
<1>3. inbox'[q] = <<>> \/ (inbox[q] # <<>> /\ inbox'[q] = Tail(inbox[q]))
  BY <1>1 DEF ServerStep, Goes, Stays
<1>4. \A k \in DOMAIN inbox'[q] : \E l \in DOMAIN inbox[q] : inbox[q][l] = inbox'[q][k]
  <2>1. CASE inbox'[q] = <<>>
    BY <2>1
  <2>2. CASE inbox[q] # <<>> /\ inbox'[q] = Tail(inbox[q])
    <3>1. \A k \in DOMAIN Tail(inbox[q]) : k + 1 \in DOMAIN inbox[q] /\ Tail(inbox[q])[k] = inbox[q][k + 1]
      BY <1>2, <2>2, TailAt
    <3> QED  BY <2>2, <3>1
  <2> QED  BY <1>3, <2>1, <2>2
<1> QED  BY <1>1, <1>4 DEF ServerStep, AddsFrom

(* What is to be added stays where it belongs while the routes stay.       *)
LEMMA AddedKept ==
  ASSUME TypeInv, Running, ~Busy, AddedInv, UNCHANGED seps, AddsFrom,
         \A j \in DOMAIN servers' : j \in DOMAIN servers /\ servers'[j] = servers[j],
         \A p \in Pids : DOMAIN store'[p] \subseteq DOMAIN store[p]
  PROVE  AddedInv'
<1>1. SUFFICES ASSUME NEW j \in DOMAIN servers', NEW k \in DOMAIN inbox'[servers'[j]],
                      NEW m, m = inbox'[servers'[j]][k], m.cmd = "ADD"
               PROVE  Placed(j, m)'
  BY DEF AddedInv, Placed, Belongs
<1>2. j \in DOMAIN servers /\ servers'[j] = servers[j] /\ servers[j] \in Pids
  BY ServerPids
<1>3. PICK l \in DOMAIN inbox[servers[j]] : inbox[servers[j]][l] = m
  BY <1>1, <1>2 DEF AddsFrom
<1>4. Placed(j, m)
  BY <1>1, <1>2, <1>3 DEF AddedInv
<1>5. DOMAIN store'[servers[j]] \subseteq DOMAIN store[servers[j]]
  BY <1>2
<1> QED  BY <1>2, <1>4, <1>5 DEF Placed, Belongs

(* A command is only broadcast when no other is under way.                  *)
LEMMA CastAlone ==
  ASSUME StageInv, Settled, NEW c \in Clients, Broadcasting
  PROVE  \A p \in Pids : None(inbox[p], Plain)
<1>1. Cast /\ ~Halted /\ ~Busy
  BY DEF Cast, Halted, Busy, Broadcasting, TransferWaits
<1>2. NoWork
  BY <1>1 DEF StageInv, Stage, Free, Requested, Casting, UnderWay
<1> QED  BY <1>1, <1>2 DEF NoWork, Work

(* How the manager spreads a command of a client.                           *)
Asks  == Head(requests)
Left  == Route(Asks.coll, Asks.key)
Right == IF Asks.cmd = "OBTAIN_BETWEEN" THEN Route(Asks.coll, Asks.hi) ELSE Left
Part  == [Asks EXCEPT !.cnt = Cardinality(Left .. Right)]

GoesTo(p) == proc[p] = "up" /\ \E i \in (Left .. Right) \cap DOMAIN servers : servers[i] = p

Spread == inbox' = [p \in Pids |-> IF GoesTo(p) THEN Append(inbox[p], Part) ELSE inbox[p]]

(* A request is refused, ends the manager, or is spread over its servers.  *)
LEMMA ForwardShape ==
  ASSUME TypeInv, ForwardRequest
  PROVE  /\ mgr.wait = "main" /\ box["answer"] = <<>> /\ requests # <<>> /\ requests' = Tail(requests)
         /\ Asks \in Asking /\ Asks.cmd \in DataChanges \cup {"OBTAIN", "OBTAIN_BETWEEN"}
         /\ UNCHANGED <<proc, store, client, run, box, servers, seps, faults>> /\ past \subseteq past'
         /\ mgr'.wait \in {"main", "ended", "path", "dead"}
         /\ \/ servers = <<>> /\ Reply([Asks EXCEPT !.status = "FAILED"]) /\ UNCHANGED inbox
            \/ servers # <<>> /\ UNCHANGED <<inbox, replies>> /\ mgr'.wait = "dead"
            \/ /\ servers # <<>> /\ (DOMAIN seps = {} \/ Asks.coll \in DOMAIN seps)
               /\ Spread /\ UNCHANGED replies /\ (mgr'.wait = "dead" \/ Right <= Len(servers))
<1>1. /\ mgr.wait = "main" /\ box["answer"] = <<>> /\ requests # <<>> /\ requests' = Tail(requests)
      /\ Asks.cmd \in DataChanges \cup {"OBTAIN", "OBTAIN_BETWEEN"}
      /\ UNCHANGED <<proc, store, client, run, box, servers, seps, faults>> /\ past \subseteq past'
  BY DEF ForwardRequest, Asked, Outside, data, Asks
<1>2. Asks \in Asking
  BY <1>1 DEF TypeInv, MailType, Asks
<1>3. At("dead").wait = "dead"
  BY AtType DEF Waits
<1>4. \A changed, n : EndBody(changed, n) => mgr'.wait \in {"main", "ended", "path"}
  BY BodyTurns DEF TypeInv, HistoryType
<1>5. /\ mgr' = At("dead") \/ \E changed, n : EndBody(changed, n)
      /\ \/ servers = <<>> /\ Reply([Asks EXCEPT !.status = "FAILED"]) /\ UNCHANGED inbox
         \/ servers # <<>> /\ UNCHANGED <<inbox, replies>> /\ mgr' = At("dead")
         \/ /\ servers # <<>> /\ (DOMAIN seps = {} \/ Asks.coll \in DOMAIN seps)
            /\ Spread /\ UNCHANGED replies /\ (mgr' = At("dead") \/ Right <= Len(servers))
  <2> HIDE DEF EndBody, Reply, At, Route, Counted
  <2> QED  BY DEF ForwardRequest, Aborts, Asks, Left, Right, Part, GoesTo, Spread
<1> QED  BY <1>1, <1>2, <1>3, <1>4, <1>5

(* A key that is to be added is sent where it belongs.                      *)
LEMMA AddedForward ==
  ASSUME TypeInv, PidInv, SepsInv, ThereInv, FullInv, AddedInv, Running, Running', ForwardRequest
  PROVE  AddedInv'
<1>1. /\ mgr.wait = "main" /\ Asks \in Asking /\ UNCHANGED <<store, servers, seps>>
      /\ Asks.cmd \in DataChanges \cup {"OBTAIN", "OBTAIN_BETWEEN"}
      /\ UNCHANGED inbox \/ (Spread /\ servers # <<>> /\ (DOMAIN seps = {} \/ Asks.coll \in DOMAIN seps))
  BY ForwardShape
<1>2. ~Busy
  BY <1>1 DEF Busy, TransferWaits
<1>3. CASE UNCHANGED inbox
  BY <1>1, <1>2, <1>3, AddedKept DEF AddsFrom
<1>4. CASE Spread /\ servers # <<>> /\ (DOMAIN seps = {} \/ Asks.coll \in DOMAIN seps)
  <2>1. SUFFICES ASSUME NEW j \in DOMAIN servers, NEW k \in DOMAIN inbox'[servers[j]],
                        NEW x, x = inbox'[servers[j]][k], x.cmd = "ADD"
                 PROVE  Placed(j, x)
    BY <1>1 DEF AddedInv, Placed, Belongs
  <2>2. servers[j] \in Pids /\ inbox[servers[j]] \in Seq(Asking) /\ j \in {1, 2}
    BY ServerPids DEF TypeInv, MailType
  <2>3. CASE inbox'[servers[j]] = inbox[servers[j]]
    BY <1>2, <2>1, <2>3 DEF AddedInv
  <2>4. CASE GoesTo(servers[j]) /\ inbox'[servers[j]] = Append(inbox[servers[j]], Part)
    <3>1. (k \in DOMAIN inbox[servers[j]] /\ x = inbox[servers[j]][k]) \/ x = Part
      BY <2>1, <2>2, <2>4, AppendAt
    <3>2. SUFFICES ASSUME x = Part
                   PROVE  Placed(j, x)
      BY <1>2, <2>1, <3>1 DEF AddedInv
    <3>3. Part.cmd = Asks.cmd /\ Part.coll = Asks.coll /\ Part.key = Asks.key
      BY <1>1 DEF Part, Asking, Message
    <3>4. Asks.cmd = "ADD" /\ Asks.key \in Keys
      BY <1>1, <2>1, <3>2, <3>3 DEF Asking, DataChanges
    <3>5. Right = Left
      BY <3>4 DEF Right
    <3>6. PICK i \in (Left .. Right) \cap DOMAIN servers : servers[i] = servers[j]
      BY <2>4 DEF GoesTo
    <3>7. i = j
      BY <2>1, <3>6 DEF PidInv
    <3>8. Left \in Nat
      BY <1>4, RouteIsNat DEF Left, TypeInv
    <3>9. j = Left
      <4>1. j \in Left .. Left
        BY <3>5, <3>6, <3>7
      <4> QED  BY <3>8, <4>1
    <3>10. CASE Asks.coll \in DOMAIN seps
      <4>1. Belongs(j, Asks.coll, Asks.key)
        BY <3>4, <3>9, <3>10, RouteBelongs DEF Left
      <4> QED  BY <3>2, <3>3, <3>10, <4>1 DEF Placed
    <3>11. CASE Asks.coll \notin DOMAIN seps
      <4>1. DOMAIN seps = {} /\ j = 1
        BY <1>4, <3>9, <3>11 DEF Left, Route
      <4>2. CASE proc[servers[1]] = "up"
        <5>1. HasAll(1)
          BY <1>1, <2>1, <4>1, <4>2 DEF FullInv, Running
        <5>2. DOMAIN store[servers[1]] = {}
          BY <1>1, <4>1, <5>1 DEF HasAll, Passed, Broadcasting
        <5> QED  BY <3>2, <3>3, <3>11, <4>1, <5>2 DEF Placed
      <4>3. CASE proc[servers[1]] # "up"
        <5>1. DOMAIN store[servers[1]] = {}
          BY <2>2, <4>1, <4>3 DEF ThereInv
        <5> QED  BY <3>2, <3>3, <3>11, <4>1, <5>1 DEF Placed
      <4> QED  BY <4>2, <4>3
    <3> QED  BY <3>10, <3>11
  <2> QED  BY <1>4, <2>2, <2>3, <2>4 DEF Spread
<1> QED  BY <1>1, <1>3, <1>4

(* A server that joins is sent nothing else first.                          *)
LEMMA AddedSetUp ==
  ASSUME TypeInv, PidInv, AddedInv, Running, SetupAnswer
  PROVE  AddedInv'
<1>1. /\ mgr.wait = "setup" /\ servers' = Append(servers, spawned) /\ seps' = SepsGrown /\ UNCHANGED <<store, inbox>>
  BY DEF SetupAnswer, Outside, data
<1>2. ~Busy
  BY <1>1 DEF Busy, TransferWaits
<1>3. SUFFICES ASSUME NEW j \in DOMAIN servers', NEW k \in DOMAIN inbox[servers'[j]],
                      NEW x, x = inbox[servers'[j]][k], x.cmd = "ADD"
               PROVE  Placed(j, x)'
  BY <1>1 DEF AddedInv, Placed, Belongs
<1>4. j \in DOMAIN servers /\ servers'[j] = servers[j]
  <2>1. j \in DOMAIN servers \/ servers'[j] = spawned
    BY <1>1, ServerPids, AppendAt
  <2>2. servers'[j] # spawned
    <3>1. None(inbox[spawned], Commands \ {"SET_IN_MEMORY_CACHE_MODE"})
      BY <1>1 DEF PidInv
    <3>2. "ADD" \in Commands \ {"SET_IN_MEMORY_CACHE_MODE"}
      BY DEF Commands, DataChanges
    <3> QED  BY <1>3, <3>1, <3>2 DEF None
  <2> QED  BY <1>1, <2>1, <2>2, ServerPids, AppendAt
<1>5. j = 1 /\ servers # <<>>
  <2>1. Len(servers) < 2
    BY <1>1 DEF TypeInv, MgrType, MaxServers
  <2>2. j \in 1 .. Len(servers) /\ Len(servers) \in Nat
    BY <1>4, ServerPids
  <2> QED  BY <2>1, <2>2, ServerPids
<1>6. Placed(1, x)
  BY <1>2, <1>3, <1>4, <1>5 DEF AddedInv
<1>7. seps' = [c \in DOMAIN seps |-> Append(seps[c], Top)]
  BY <1>1, <1>5 DEF SepsGrown
<1>8. CASE x.coll \notin DOMAIN seps
  BY <1>1, <1>4, <1>5, <1>6, <1>7, <1>8 DEF Placed
<1>9. CASE x.coll \in DOMAIN seps
  <2>1. x.key \in Keys
    <3>1. inbox[servers[j]] \in Seq(Asking)
      BY <1>4, ServerPids DEF TypeInv, MailType
    <3>2. x \in Asking
      BY <1>3, <1>4, <3>1
    <3> QED  BY <1>3, <3>2 DEF Asking, DataChanges
  <2>2. x.key < Top
    BY <2>1, ClusterAssumption DEF Keys, Top
  <2>3. seps[x.coll] \in Seq(Keys \cup {Top}) /\ seps'[x.coll] = Append(seps[x.coll], Top)
    BY <1>7, <1>9 DEF TypeInv, KnownType, IsMap
  <2>4. x.key < seps'[x.coll][1]
    <3>1. CASE seps[x.coll] = <<>>
      <4>1. seps'[x.coll] = <<Top>>
        BY <2>3, <3>1
      <4> QED  BY <2>2, <4>1
    <3>2. CASE seps[x.coll] # <<>>
      <4>1. seps'[x.coll][1] = seps[x.coll][1]
        BY <2>3, <3>2
      <4> QED  BY <1>6, <1>9, <3>2, <4>1 DEF Placed, Belongs
    <3> QED  BY <3>1, <3>2
  <2> QED  BY <1>5, <1>7, <1>9, <2>4 DEF Placed, Belongs
<1> QED  BY <1>8, <1>9

(* A transfer that ends leaves nothing under way.                           *)
LEMMA TransferLeaves ==
  ASSUME TypeInv, PidInv, RightInv, TransferAnswer \/ TransferTimeout, Settled, Settled', ~Busy'
  PROVE  /\ Busy /\ (\A p \in Pids : inbox[p] = <<>> /\ inbox'[p] = <<>>) /\ box'["answer"] = <<>>
         /\ UNCHANGED <<proc, store, servers, requests, replies, client>>
         /\ ~Broadcasting' /\ ~Halted'
<1>1. CASE TransferTimeout
  <2>1. /\ RightLost /\ (\A p \in Pids : inbox[p] = <<>>) /\ GiveUp
        /\ UNCHANGED <<inbox, box, servers, store, proc, requests, replies, client>>
    BY <1>1, RightTimesOut
  <2>2. mgr.wait \in TransferWaits
    BY <1>1 DEF TransferTimeout, TransferWaits
  <2>3. mgr'.wait \in {"main", "ended", "path"}
    BY <2>1, <2>2, GiveUpTurns
  <2> QED  BY <2>1, <2>2, <2>3 DEF RightLost, Busy, Broadcasting, Halted
<1>2. CASE TransferAnswer
  <2>1. /\ Busy /\ (\A p \in Pids : inbox[p] = <<>>) /\ box'["answer"] = <<>>
        /\ UNCHANGED <<proc, store, servers, requests, replies, client>>
    BY <1>2, RightComes
  <2>2. EndTransfer => mgr'.wait = "move" /\ UNCHANGED inbox
    BY DEF EndTransfer, TypeInv, MgrType, Places
  <2>3. GiveUp => mgr'.wait \in {"main", "ended", "path"}
    BY <2>1, GiveUpTurns DEF Busy
  <2>4. \A p, m, cmd, sep : \A wait \in TransferWaits : Send(p, m, cmd, wait, sep) => mgr'.wait = wait
    BY DEF Send, TypeInv, MgrType, Places
  <2>5. EndTransfer \/ (GiveUp /\ UNCHANGED inbox)
    <3>1. EndTransfer \/ (GiveUp /\ UNCHANGED inbox)
            \/ \E p, m, cmd, sep : \E wait \in TransferWaits : Send(p, m, cmd, wait, sep)
      <4> HIDE DEF EndTransfer, GiveUp, Send, From, To
      <4> QED  BY <1>2 DEF TransferAnswer, TransferWaits
    <3> QED  BY <2>4, <3>1 DEF Busy
  <2> QED  BY <2>1, <2>2, <2>3, <2>5 DEF Broadcasting, Halted
<1> QED  BY <1>1, <1>2

(* The end of a broadcast, or its next step.                                *)
LEMMA CastGoesOn ==
  ASSUME TypeInv, BackInv, AddStructGoesOn \/ DisposeStructGoesOn, Running'
  PROVE  /\ Broadcasting /\ UNCHANGED <<store, servers>>
         /\ UNCHANGED seps \/ UNCHANGED inbox
         /\ UNCHANGED inbox \/ Sends(Structural)
<1>1. \A i, m, wait : m.cmd \in Structural /\ SendStruct(i, m, wait) => Sends(Structural)
  BY PostSends DEF SendStruct, TypeInv
<1>2. Return => mgr'.wait # "rollback"
  <2>1. Return => mgr'.wait \in {"main", "ended", "path"}
    BY BodyTurns DEF Return, TypeInv, HistoryType
  <2> QED  BY <2>1
<1>3. CASE AddStructGoesOn
  <2>1. Broadcasting /\ UNCHANGED <<store, servers>> /\ mgr.wait \in Elsewise
    BY <1>3, AddGoesOn DEF Elsewise
  <2>2. PICK m, back :
              /\ Received("added", m)
              /\ \/ /\ ~(box["added"] # <<>> /\ m.status = "OK") /\ mgr.i = 1
                    /\ Return /\ UNCHANGED <<inbox, seps>>
                 \/ /\ ~(box["added"] # <<>> /\ m.status = "OK") /\ mgr.i > 1
                    /\ SendStruct(mgr.i - 1, back, "rollback")
                 \/ /\ box["added"] # <<>> /\ m.status = "OK" /\ mgr.i < Len(servers)
                    /\ SendStruct(mgr.i + 1, m, "struct_add") /\ UNCHANGED seps
                 \/ /\ box["added"] # <<>> /\ m.status = "OK" /\ mgr.i = Len(servers)
                    /\ Return /\ UNCHANGED inbox
                    /\ seps' = IF m.cmd = "ADD_COLLECTION" THEN SepsWith(m.coll) ELSE seps
    BY <1>3, AddGoesOn
  <2>3. m.cmd \in Structural
    BY <1>3, <2>1, <2>2, BackReceived DEF AddStructGoesOn
  <2>4. ~SendStruct(mgr.i - 1, back, "rollback")
    <3>1. SendStruct(mgr.i - 1, back, "rollback") => mgr'.wait = "rollback"
      BY StructSent
    <3> QED  BY <3>1 DEF Running
  <2> QED  BY <1>1, <2>1, <2>2, <2>3, <2>4
<1>4. CASE DisposeStructGoesOn
  <2>1. Broadcasting /\ UNCHANGED <<store, servers>> /\ mgr.wait \in Elsewise
    BY <1>4 DEF DisposeStructGoesOn, Outside, data, Broadcasting, Elsewise
  <2>2. PICK m : /\ Received("disposed", m)
                 /\ \/ SendStruct(mgr.i + 1, m, "struct_dispose") /\ UNCHANGED seps
                    \/ UNCHANGED inbox
    BY <1>4 DEF DisposeStructGoesOn
  <2>3. m.cmd \in Structural
    BY <1>4, <2>1, <2>2, BackReceived DEF DisposeStructGoesOn
  <2> QED  BY <1>1, <2>1, <2>2, <2>3
<1> QED  BY <1>3, <1>4

(* A server comes to have a collection only by a broadcast.                 *)
LEMMA ServerHasLess ==
  ASSUME TypeInv, BroadcastInv, Sound, ~Broadcasting, NEW q \in Pids, Server(q)
  PROVE  \A p \in Pids : DOMAIN store'[p] \subseteq DOMAIN store[p]
<1>1. ~ServeAddStruct(q) /\ ~ServeDisposeStruct(q)
  BY AddShape, DropShape, StructTaken
<1>2. ServesAside(q)
  BY <1>1, ServerAside DEF Server
<1>3. CASE Dies(q)
  <2>1. store = [p \in Pids |-> store[p]] /\ store' = [store EXCEPT ![q] = EmptyMap]
    BY <1>3 DEF TypeInv, ServersType, Dies
  <2>2. \A p \in Pids : store'[p] = IF p = q THEN EmptyMap ELSE store[p]
    BY <2>1
  <2> QED  BY <2>2 DEF EmptyMap
<1>4. CASE \A p \in Pids : DOMAIN store'[p] = DOMAIN store[p]
  BY <1>4
<1> QED  BY <1>2, <1>3, <1>4 DEF ServesAside

(* Whatever happens, keys are added where they belong.                      *)
LEMMA AddedStep ==
  ASSUME TypeInv, PidInv, BroadcastInv, BackInv, SepsInv, ThereInv, FullInv, RightInv, AddedInv, StageInv,
         NEW c \in Clients, [Next]_vars
  PROVE  AddedInv'
<1>1. SUFFICES ASSUME Running', Running, ~Busy'
               PROVE  AddedInv'
  BY RunningGoesOn DEF AddedInv
<1>2. KnownType /\ MailType /\ Settled' /\ Settled
  BY <1>1 DEF TypeInv, Running
<1>3. inbox' = inbox => AddsFrom
  BY DEF AddsFrom
<1>4. "ADD" \notin Structural \cup {"GET_RECORDS_CNT", "TERMINATE"}
  BY DEF Structural, AddStruct, DropStruct
<1>5. \A D : Sends(D) /\ D \subseteq Structural \cup {"GET_RECORDS_CNT", "TERMINATE"} => AddsFrom
  <2>1. TAKE D
  <2> QED  BY <1>4, AddsSent
<1>6. CASE \E q \in Pids : Server(q)
  <2>1. PICK q \in Pids : Server(q)
    BY <1>6
  <2>2. UNCHANGED <<mgr, servers, seps>>
    BY <2>1, ServerGoes
  <2>3. ~Busy
    BY <1>1, <2>2 DEF Busy
  <2>4. AddsFrom
    BY <2>1, AddsTaken
  <2>5. CASE Broadcasting
    <3>1. \A p \in Pids : None(inbox[p], Plain)
      BY <1>2, <2>5, CastAlone
    <3>2. \A p \in Pids : \A k \in DOMAIN inbox'[p] : inbox'[p][k].cmd # "ADD"
      BY <2>4, <3>1 DEF AddsFrom, None, Plain, DataChanges
    <3>3. \A j \in DOMAIN servers : servers[j] \in Pids
      BY ServerPids
    <3> QED  BY <2>2, <3>2, <3>3 DEF AddedInv
  <2>6. CASE ~Broadcasting
    <3>1. Sound
      BY <1>1 DEF Running, Settled, Orderly, Sound
    <3>2. \A p \in Pids : DOMAIN store'[p] \subseteq DOMAIN store[p]
      BY <2>1, <2>6, <3>1, ServerHasLess
    <3> QED  BY <1>1, <2>2, <2>3, <2>4, <3>2, AddedKept
  <2> QED  BY <2>5, <2>6
<1>7. CASE TransferAnswer \/ TransferTimeout
  <2>1. (\A p \in Pids : inbox'[p] = <<>>) /\ UNCHANGED servers
    BY <1>1, <1>2, <1>7, TransferLeaves
  <2>2. \A j \in DOMAIN servers : servers[j] \in Pids
    BY ServerPids
  <2> QED  BY <2>1, <2>2 DEF AddedInv
<1>8. CASE ForwardRequest
  BY <1>1, <1>8, AddedForward
<1>9. CASE SetupAnswer
  BY <1>1, <1>9, AddedSetUp
<1>10. CASE AddStructGoesOn \/ DisposeStructGoesOn
  <2>1. /\ Broadcasting /\ UNCHANGED <<store, servers>>
        /\ UNCHANGED seps \/ UNCHANGED inbox
        /\ UNCHANGED inbox \/ Sends(Structural)
    BY <1>1, <1>10, CastGoesOn
  <2>2. \A p \in Pids : None(inbox[p], Plain)
    BY <1>2, <2>1, CastAlone
  <2>3. AddsFrom
    BY <1>3, <1>5, <2>1
  <2>4. \A p \in Pids : \A k \in DOMAIN inbox'[p] : inbox'[p][k].cmd # "ADD"
    BY <2>2, <2>3 DEF AddsFrom, None, Plain, DataChanges
  <2>5. \A j \in DOMAIN servers : servers[j] \in Pids
    BY ServerPids
  <2> QED  BY <2>1, <2>4, <2>5 DEF AddedInv
<1>11. CASE NextPath
  <2>1. UNCHANGED <<store, seps>> /\ ~Busy
    BY <1>11 DEF NextPath, Outside, data, Busy, TransferWaits
  <2>2. \A j \in DOMAIN servers' : j \in DOMAIN servers /\ servers'[j] = servers[j]
    <3>1. UNCHANGED servers \/ (servers' = Front(servers) /\ mgr.job = "terminate")
      BY <1>11 DEF NextPath, LetGo
    <3>2. CASE servers' = Front(servers) /\ mgr.job = "terminate"
      <4>1. Len(servers) = 2 /\ servers \in Seq(Pids)
        BY <3>2, ServerPids DEF TypeInv, MgrType, MaxServers
      <4>2. servers' = SubSeq(servers, 1, Len(servers) - 1)
        BY <3>2 DEF Front
      <4>3. \A j \in DOMAIN servers' : j \in DOMAIN servers /\ servers'[j] = servers[j]
        BY <4>1, <4>2
      <4> QED  BY <4>3
    <3> QED  BY <3>1, <3>2
  <2>3. AddsFrom
    <3>1. /\ OwnMsg("TERMINATE", NoOne).cmd = "TERMINATE"
          /\ \A coll : OwnMsg("GET_RECORDS_CNT", coll).cmd = "GET_RECORDS_CNT"
      BY DEF OwnMsg, Msg
    <3>2. CASE LetGo
      <4>1. Sends({"TERMINATE"})
        BY <1>2, <3>1, <3>2, PostSends DEF LetGo
      <4> QED  BY <1>5, <4>1
    <3>3. CASE \E i : AskCount(i)
      <4>1. Sends({"GET_RECORDS_CNT"})
        BY <1>2, <3>1, <3>3, PostSends DEF AskCount
      <4> QED  BY <1>5, <4>1
    <3> QED  BY <1>3, <1>11, <3>2, <3>3 DEF NextPath
  <2> QED  BY <1>1, <2>1, <2>2, <2>3, AddedKept
<1>12. CASE CountAnswer
  <2>1. UNCHANGED <<store, seps, servers>> /\ ~Busy
    BY <1>12 DEF CountAnswer, Outside, data, Busy, TransferWaits
  <2>2. AddsFrom
    <3>1. OwnMsg("GET_RECORDS_CNT", Head(mgr.todo)).cmd = "GET_RECORDS_CNT"
      BY DEF OwnMsg, Msg
    <3>2. UNCHANGED inbox \/ Sends({"GET_RECORDS_CNT"})
      BY <1>2, <1>12, <3>1, CountsOn, PostSends
    <3> QED  BY <1>3, <1>5, <3>2
  <2> QED  BY <1>1, <2>1, <2>2, AddedKept
<1>13. CASE HandleStruct
  <2>1. UNCHANGED <<store, seps, servers>> /\ ~Busy
    BY <1>13 DEF HandleStruct, Asked, Outside, data, Busy, TransferWaits
  <2>2. AddsFrom
    <3>1. Head(requests).cmd \in Structural
      BY <1>13 DEF HandleStruct, Asked, Structural
    <3>2. UNCHANGED inbox \/ Sends(Structural)
      BY <1>2, <1>13, <3>1, PostSends DEF HandleStruct, SendStruct
    <3> QED  BY <1>3, <1>5, <3>2
  <2> QED  BY <1>1, <2>1, <2>2, AddedKept
<1>14. CASE ForwardAnswer \/ CountTimeout \/ HandleShutdown \/ HandleTerminate
  <2>1. UNCHANGED <<store, seps, servers, inbox>> /\ ~Busy
    BY <1>14 DEF ForwardAnswer, CountTimeout, HandleShutdown, HandleTerminate, Outside, data, mail, Busy, TransferWaits
  <2> QED  BY <1>1, <1>3, <2>1, AddedKept
<1>15. CASE BeginTransfer
  <2>1. UNCHANGED <<store, seps, servers>> /\ ~Busy
    BY <1>15 DEF BeginTransfer, Outside, data, Busy, TransferWaits
  <2>2. UNCHANGED inbox
    <3>1. \A p, m, cmd : Send(p, m, cmd, "obtain", NoOne) => mgr'.wait = "obtain"
      BY DEF Send, TypeInv, MgrType, Places
    <3>2. ~\E p, m, cmd : Send(p, m, cmd, "obtain", NoOne)
      BY <1>1, <3>1 DEF Busy, TransferWaits
    <3> QED  BY <1>15, <3>2 DEF BeginTransfer
  <2> QED  BY <1>1, <1>3, <2>1, <2>2, AddedKept
<1>16. CASE HandleRun
  <2>1. UNCHANGED <<store, seps, servers>> /\ ~Busy
        /\ inbox' = [inbox EXCEPT ![spawned + 1] = <<SetUp>>]
    BY <1>16 DEF HandleRun, Outside, data, Busy, TransferWaits, SetUp
  <2>2. None(<<SetUp>>, {"ADD"})
    BY SetUpAlone
  <2>3. AddsFrom
    <3>1. inbox = [p \in Pids |-> inbox[p]]
      BY <1>2 DEF MailType
    <3>2. \A p \in Pids : inbox'[p] = inbox[p] \/ inbox'[p] = <<SetUp>>
      BY <2>1, <3>1
    <3> QED  BY <2>2, <3>2 DEF AddsFrom, None
  <2> QED  BY <1>1, <2>1, <2>3, AddedKept
<1>17. CASE SetupTimeout
  <2>1. UNCHANGED <<store, seps, servers>> /\ ~Busy
        /\ inbox' = [inbox EXCEPT ![spawned] = <<>>]
    BY <1>17 DEF SetupTimeout, Outside, data, Busy, TransferWaits
  <2>2. AddsFrom
    <3>1. inbox = [p \in Pids |-> inbox[p]]
      BY <1>2 DEF MailType
    <3>2. \A p \in Pids : inbox'[p] = inbox[p] \/ inbox'[p] = <<>>
      BY <2>1, <3>1
    <3> QED  BY <3>2 DEF AddsFrom
  <2> QED  BY <1>1, <2>1, <2>2, AddedKept
<1>18. CASE RollbackGoesOn
  <2>1. mgr'.wait = "rollback"
    BY <1>18, StructSent DEF RollbackGoesOn
  <2> QED  BY <1>1, <2>1 DEF Running
<1>19. CASE TypeShutdown
  BY <1>2, <1>19 DEF TypeShutdown, Settled
<1>20. CASE UNCHANGED vars \/ \E d \in Clients : Request(d) \/ Client(d)
  <2>1. UNCHANGED <<store, servers, seps, mgr, inbox>>
    BY <1>20 DEF vars, mail, data, Request, Client, TakeReply, TakeRangeReply, ClientTimeout
  <2>2. ~Busy
    BY <1>1, <2>1 DEF Busy
  <2> QED  BY <1>1, <1>3, <2>1, <2>2, AddedKept
<1> QED  BY <1>6, <1>7, <1>8, <1>9, <1>10, <1>11, <1>12, <1>13, <1>14, <1>15, <1>16, <1>17, <1>18, <1>19, <1>20
         DEF Next, Manager, Terminal

(* A client that has not begun to read a range has none of it.              *)
LEMMA GotStep ==
  ASSUME TypeInv, GotInv, [Next]_vars
  PROVE  GotInv'
<1>1. CASE UNCHANGED client
  BY <1>1 DEF GotInv
<1>2. \A ctr : [Idle EXCEPT !.ctr = ctr].got = <<>>
  BY DEF Idle
<1>3. client = [d \in Clients |-> client[d]] /\ \A d \in Clients : client[d] \in Waiting
  BY DEF TypeInv, ClientType
<1>4. \A d \in Clients : \A r : client' = [client EXCEPT ![d] = r] =>
        client'[d] = r /\ \A e \in Clients : e # d => client'[e] = client[e]
  BY <1>3
<1>5. ASSUME NEW d \in Clients, Request(d)
      PROVE  GotInv'
  <2>1. PICK m : Ask(d, m)
    BY <1>5, RequestShape
  <2>2. client[d].got = <<>>
    BY <1>5 DEF GotInv, Request
  <2>3. client'[d].got = <<>>
    <3> DEFINE r == [client[d] EXCEPT !.at = "asked", !.cmd = m.cmd, !.coll = m.coll, !.lo = m.key, !.hi = m.hi]
    <3>1. client' = [client EXCEPT ![d] = r]
      BY <2>1 DEF Ask
    <3>2. r.got = client[d].got
      BY <1>3 DEF Waiting
    <3> HIDE DEF r
    <3> QED  BY <1>4, <2>2, <3>1, <3>2
  <2>4. \A e \in Clients : e # d => client'[e] = client[e]
    BY <1>4, <2>1 DEF Ask
  <2> QED  BY <2>3, <2>4 DEF GotInv
<1>6. ASSUME NEW d \in Clients, Client(d)
      PROVE  GotInv'
  <2>1. \A e \in Clients : e # d => client'[e] = client[e]
    <3>1. UNCHANGED client \/ \E r : client' = [client EXCEPT ![d] = r]
      BY <1>6 DEF Client, TakeReply, TakeRangeReply, ClientTimeout, Finish
    <3> QED  BY <1>4, <3>1
  <2>2. UNCHANGED client \/ client'[d].got = <<>> \/ client'[d].at = "range"
    <3>1. \A m : Finish(d, m) => client'[d].got = <<>>
      <4>1. SUFFICES ASSUME NEW m, Finish(d, m)  PROVE client'[d].got = <<>>
        OBVIOUS
      <4>2. PICK ctr : client' = [client EXCEPT ![d] = [Idle EXCEPT !.ctr = ctr]]
        BY <4>1 DEF Finish
      <4> QED  BY <1>2, <1>4, <4>2
    <3>2. CASE ClientTimeout(d)
      <4>1. PICK ctr : client' = [client EXCEPT ![d] = [Idle EXCEPT !.ctr = ctr]]
        BY <3>2 DEF ClientTimeout
      <4> QED  BY <1>2, <1>4, <4>1
    <3>3. CASE TakeReply(d)
      <4> DEFINE k == Head(replies[d]).key
                 due == Head(replies[d]).cnt - (IF Head(replies[d]).status = "END" THEN 1 ELSE 0)
                 r == [client[d] EXCEPT !.at = "range", !.got = <<k>>, !.due = due]
      <4>1. UNCHANGED client \/ Finish(d, Head(replies[d])) \/ client' = [client EXCEPT ![d] = r]
        <5> HIDE DEF Finish
        <5> QED  BY <3>3 DEF TakeReply
      <4>2. r.at = "range"
        BY <1>3 DEF Waiting
      <4> HIDE DEF r
      <4> QED  BY <1>4, <3>1, <4>1, <4>2
    <3>4. CASE TakeRangeReply(d)
      <4>1. SUFFICES ASSUME NEW k, NEW left, client[d].at = "range",
                            client' = [client EXCEPT ![d].got = Append(@, k), ![d].due = left]
                     PROVE  client'[d].at = "range"
        <5>1. \/ \E m : Finish(d, m)
              \/ \E k, left : client' = [client EXCEPT ![d].got = Append(@, k), ![d].due = left]
          BY <3>4 DEF TakeRangeReply
        <5>2. client[d].at = "range"
          BY <3>4 DEF TakeRangeReply
        <5> QED  BY <3>1, <5>1, <5>2
      <4> QED  BY <1>3, <4>1 DEF Waiting
    <3> QED  BY <1>6, <3>2, <3>3, <3>4 DEF Client
  <2> QED  BY <1>1, <2>1, <2>2 DEF GotInv
<1>7. CASE Manager \/ Terminal \/ (\E p \in Pids : Server(p)) \/ UNCHANGED vars
  <2>1. UNCHANGED client
    <3>1. (\E p \in Pids : Server(p)) => UNCHANGED client
      BY ServerGoes
    <3>2. Terminal => UNCHANGED client
      BY DEF Terminal, HandleRun, HandleTerminate, TypeShutdown, Outside
    <3>3. Manager => UNCHANGED client
      BY DEF Manager, ForwardAnswer, ForwardRequest, HandleStruct, AddStructGoesOn, RollbackGoesOn,
             DisposeStructGoesOn, NextPath, CountAnswer, CountTimeout, BeginTransfer, TransferAnswer,
             TransferTimeout, SetupAnswer, SetupTimeout, HandleShutdown, Outside
    <3> QED  BY <1>7, <3>1, <3>2, <3>3 DEF vars
  <2> QED  BY <1>1, <2>1
<1> QED  BY <1>5, <1>6, <1>7 DEF Next

-----------------------------------------------------------------------------
(* A step beside the command of a client: what is under way stays, or is    *)
(* lost with a server that had nothing.                                     *)
WorkStays(p) ==
  \/ Kept(Work(p), Work(p)', Plain) /\ store'[p] = store[p]
  \/ None(Work(p)', Plain) /\ DOMAIN store'[p] = {}

Bypasses(c) ==
  /\ UNCHANGED <<requests, replies, client>> /\ Way' = Way
  /\ (\A p \in Pids : WorkStays(p)) \/ (NoWork /\ NoWork')
  /\ NoWork /\ ~Cast => StoredIn(client[c].coll)' = StoredIn(client[c].coll)

(* What is under way for a client after a step beside it.                  *)
LEMMA WorkBypassed ==
  ASSUME NEW c, Bypasses(c)
  PROVE  /\ NoWork => NoWork'
         /\ \A p \in Pids : \A m : OnlyAt(p, m) => OnlyAt(p, m)' \/ NoWork'
         /\ \A p \in Pids : None(Work(p), Plain) => None(Work(p)', Plain)
         /\ \A p \in Pids : \A m : One(Work(p), Plain, m) =>
              \/ One(Work(p)', Plain, m) /\ store'[p] = store[p]
              \/ None(Work(p)', Plain)
<1>1. CASE NoWork /\ NoWork'
  <2>1. \A p \in Pids : \A m : ~One(Work(p), Plain, m)
    BY <1>1, OneNotNone DEF NoWork
  <2> QED  BY <1>1, <2>1 DEF OnlyAt, NoWork
<1>2. CASE \A p \in Pids : WorkStays(p)
  <2>1. \A p \in Pids : None(Work(p), Plain) => None(Work(p)', Plain)
    BY <1>2 DEF WorkStays, Kept
  <2>2. \A p \in Pids : \A m : One(Work(p), Plain, m) =>
              \/ One(Work(p)', Plain, m) /\ store'[p] = store[p]
              \/ None(Work(p)', Plain)
    BY <1>2 DEF WorkStays, Kept
  <2>3. NoWork => NoWork'
    BY <2>1 DEF NoWork
  <2>4. \A p \in Pids : \A m : OnlyAt(p, m) => OnlyAt(p, m)' \/ NoWork'
    BY <2>1, <2>2 DEF OnlyAt, NoWork
  <2> QED  BY <2>1, <2>2, <2>3, <2>4
<1> QED  BY <1>1, <1>2 DEF Bypasses

(* What a client asked for is the same after a step beside it.             *)
LEMMA BypassKeeps ==
  ASSUME NEW c, Bypasses(c), UNCHANGED client
  PROVE  /\ (Ranging(c) <=> Ranging(c)')
         /\ \A m : /\ Mine(c, m) => Mine(c, m)'
                   /\ Settles(c, m) => Settles(c, m)'
                   /\ IsPart(c, m) => IsPart(c, m)'
                   /\ \A last : Half(c, m, last) => Half(c, m, last)'
         /\ NoWork /\ ~Cast => Whole(c)' = Whole(c)
<1>1. NoWork /\ ~Cast => Whole(c)' = Whole(c)
  BY DEF Bypasses, Whole
<1>2. \A m : Mine(c, m) => Mine(c, m)'
  BY DEF Mine, Ranging
<1> QED  BY <1>1, <1>2 DEF Ranging, Settles, IsPart, Half

(* A range for one server stays with it.                                    *)
LEMMA RangeKept ==
  ASSUME NEW c, Bypasses(c), RangeAsked(c)
  PROVE  RangeAsked(c)' \/ NoWork'
<1>1. UNCHANGED <<requests, replies, client>> /\ Way' = Way
  BY DEF Bypasses
<1>2. PICK p \in Pids, m \in Asking :
        /\ OnlyAt(p, m) /\ IsPart(c, m)
        /\ client[c].coll \in DOMAIN store[p] => m.cnt = 1 /\ Sole(c, p)
  BY DEF RangeAsked
<1>3. OnlyAt(p, m)' \/ NoWork'
  BY <1>2, WorkBypassed
<1>4. One(Work(p), Plain, m) /\ ~NoWork
  BY <1>2, OneNotNone DEF OnlyAt, NoWork
<1>5. \A q \in Pids : WorkStays(q)
  BY <1>4 DEF Bypasses
<1>6. CASE OnlyAt(p, m)'
  <2>1. ~None(Work(p)', Plain)
    BY <1>6, OneNotNone DEF OnlyAt
  <2>2. store'[p] = store[p]
    BY <1>5, <2>1 DEF WorkStays
  <2>3. Sole(c, p) => Sole(c, p)'
    BY <1>1, <1>5 DEF Sole, WorkStays
  <2>4. IsPart(c, m)'
    BY <1>1, <1>2, BypassKeeps
  <2>5. /\ OnlyAt(p, m)' /\ IsPart(c, m)'
        /\ client'[c].coll \in DOMAIN store'[p] => m.cnt = 1 /\ Sole(c, p)'
    BY <1>1, <1>2, <1>6, <2>2, <2>3, <2>4
  <2> QED  BY <1>1, <2>5 DEF RangeAsked, Ranging
<1> QED  BY <1>3, <1>6

(* The two parts of a range stay where they are.                            *)
LEMMA HalvesKept ==
  ASSUME NEW c, Bypasses(c), RangeHalved(c)
  PROVE  RangeHalved(c)'
<1>1. UNCHANGED <<requests, replies, client>> /\ Way' = Way
  BY DEF Bypasses
<1>2. PICK left \in Pids :
       /\ \A p \in Pids : p # left => Stray(c, p)
       /\ \/ HalfAsked(c, left)
          \/ None(Work(left), Plain) /\ HalfAnswered(c)
          \/ None(Work(left), Plain) /\ Way = <<>> /\ replies[c] = <<>>
  BY DEF RangeHalved
<1>3. ASSUME NEW p \in Pids, Stray(c, p)
      PROVE  Stray(c, p)'
  <2>1. CASE None(Work(p), Plain)
    BY <2>1, WorkBypassed DEF Stray
  <2>2. CASE client[c].coll \in DOMAIN store[p] /\ client[c].lo \notin store[p][client[c].coll]
             /\ \E m \in Asking : One(Work(p), Plain, m) /\ IsPart(c, m)
    <3>1. PICK m \in Asking : One(Work(p), Plain, m) /\ IsPart(c, m)
      BY <2>2
    <3>2. IsPart(c, m)'
      BY <1>1, <3>1, BypassKeeps
    <3>3. (One(Work(p)', Plain, m) /\ store'[p] = store[p]) \/ None(Work(p)', Plain)
      BY <3>1, WorkBypassed
    <3> QED  BY <1>1, <2>2, <3>2, <3>3 DEF Stray
  <2> QED  BY <1>3, <2>1, <2>2 DEF Stray
<1>4. \A p \in Pids : p # left => Stray(c, p)'
  BY <1>2, <1>3
<1>5. CASE HalfAsked(c, left)
  <2>1. PICK m \in Asking : One(Work(left), Plain, m) /\ IsPart(c, m) /\ m.cnt = 2
    BY <1>5 DEF HalfAsked
  <2>2. IsPart(c, m)'
    BY <1>1, <2>1, BypassKeeps
  <2>3. CASE One(Work(left)', Plain, m) /\ store'[left] = store[left]
    <3>1. HalfAsked(c, left)'
      BY <1>1, <1>5, <2>1, <2>2, <2>3 DEF HalfAsked
    <3> QED  BY <1>1, <1>4, <3>1 DEF RangeHalved, Ranging
  <2>4. CASE None(Work(left)', Plain)
    BY <1>1, <1>4, <1>5, <2>4 DEF RangeHalved, Ranging, HalfAsked
  <2> QED  BY <2>1, <2>3, <2>4, WorkBypassed
<1>6. CASE None(Work(left), Plain) /\ HalfAnswered(c)
  <2>1. None(Work(left)', Plain)
    BY <1>6, WorkBypassed
  <2>2. \A m : \A last : Half(c, m, last) => Half(c, m, last)'
    BY <1>1, BypassKeeps
  <2>3. HalfAnswered(c)'
    BY <1>1, <1>6, <2>2 DEF HalfAnswered
  <2> QED  BY <1>1, <1>4, <2>1, <2>3 DEF RangeHalved, Ranging
<1>7. CASE None(Work(left), Plain) /\ Way = <<>> /\ replies[c] = <<>>
  <2>1. None(Work(left)', Plain)
    BY <1>7, WorkBypassed
  <2> QED  BY <1>1, <1>4, <1>7, <2>1 DEF RangeHalved, Ranging
<1> QED  BY <1>2, <1>5, <1>6, <1>7

(* What a client waits for when nothing is broadcast.                       *)
LEMMA StageKept ==
  ASSUME NEW c, Bypasses(c), Stage(c), ~Cast, ~Cast'
  PROVE  Stage(c)'
<1>1. UNCHANGED <<requests, replies, client>> /\ Way' = Way
  BY DEF Bypasses
<1>2. NoWork => NoWork' /\ Whole(c)' = Whole(c)
  BY <1>1, WorkBypassed, BypassKeeps
<1>3. /\ Ranging(c)' = Ranging(c)
      /\ \A m : Mine(c, m) => Mine(c, m)'
      /\ \A m : Settles(c, m) => Settles(c, m)'
      /\ \A m : IsPart(c, m) => IsPart(c, m)'
  BY <1>1, BypassKeeps DEF Ranging
<1>4. CASE Free(c)
  BY <1>1, <1>2, <1>4 DEF Free, Stage
<1>5. CASE client[c].at # "idle" /\ Requested(c)
  <2>1. Requested(c)'
    BY <1>1, <1>2, <1>3, <1>5 DEF Requested
  <2> QED  BY <1>1, <1>5, <2>1 DEF Stage
<1>6. CASE client[c].at # "idle" /\ Casting(c)
  BY <1>6 DEF Casting
<1>7. CASE client[c].at # "idle" /\ UnderWay(c)
  <2>0. requests = <<>>
    BY <1>7 DEF UnderWay
  <2>1. SUFFICES Free(c)' \/ UnderWay(c)'
    BY <1>1, <1>7 DEF Stage
  <2>2. CASE Posted(c)
    <3>1. PICK p \in Pids, m \in Asking : OnlyAt(p, m) /\ Mine(c, m)
      BY <2>2 DEF Posted
    <3>2. CASE OnlyAt(p, m)'
      <4>1. Mine(c, m)'
        BY <1>3, <3>1
      <4>2. Posted(c)'
        BY <1>1, <1>3, <2>2, <3>2, <4>1 DEF Posted
      <4> QED  BY <1>1, <2>0, <4>2 DEF UnderWay
    <3>3. CASE NoWork'
      BY <1>1, <2>0, <2>2, <3>3 DEF Free, Posted
    <3> QED  BY <3>1, <3>2, <3>3, WorkBypassed
  <2>3. CASE Answered(c)
    <3>1. Answered(c)'
      BY <1>1, <1>2, <1>3, <2>3 DEF Answered
    <3> QED  BY <1>1, <2>0, <3>1 DEF UnderWay
  <2>4. CASE Replied(c)
    <3>1. Replied(c)'
      BY <1>1, <1>2, <1>3, <2>4 DEF Replied
    <3> QED  BY <1>1, <2>0, <3>1 DEF UnderWay
  <2>5. CASE RangeAsked(c)
    <3>1. RangeAsked(c)' \/ NoWork'
      BY <2>5, RangeKept
    <3> QED  BY <1>1, <2>0, <2>5, <3>1 DEF UnderWay, Free, RangeAsked
  <2>6. CASE RangeAnswered(c)
    <3>1. PICK g \in Nat, r \in Nat : Records(c, g, r)
      BY <2>6 DEF RangeAnswered
    <3>2. NoWork /\ NoWork' /\ Whole(c)' = Whole(c)
      BY <1>2, <2>6 DEF RangeAnswered
    <3>3. \A m, x : Record(c, m, x) => Record(c, m, x)'
      BY <1>3, <3>2 DEF Record
    <3>4. Records(c, g, r)'
      BY <1>1, <3>1, <3>2, <3>3 DEF Records
    <3>5. RangeAnswered(c)'
      BY <1>3, <2>6, <3>2, <3>4 DEF RangeAnswered
    <3> QED  BY <1>1, <2>0, <3>5 DEF UnderWay
  <2>7. CASE RangeHalved(c)
    <3>1. RangeHalved(c)'
      BY <2>7, HalvesKept
    <3> QED  BY <1>1, <2>0, <3>1 DEF UnderWay
  <2> QED  BY <1>7, <2>2, <2>3, <2>4, <2>5, <2>6, <2>7 DEF UnderWay
<1> QED  BY <1>4, <1>5, <1>6, <1>7 DEF Stage

(* What it waits for when something is.                                     *)
LEMMA CastKept ==
  ASSUME NEW c, Bypasses(c), Stage(c), Cast, UNCHANGED mgr,
         box'["added"] = box["added"], box'["disposed"] = box["disposed"]
  PROVE  Stage(c)'
<1>1. UNCHANGED <<requests, replies, client>> /\ Way' = Way
  BY DEF Bypasses
<1>2. Casting(c) /\ client[c].at # "idle"
  BY DEF Stage, Free, Requested, UnderWay
<1>3. NoWork'
  BY <1>2, WorkBypassed DEF Casting
<1>4. Cast' /\ (Broadcasting' <=> Broadcasting) /\ box'[Back'] = box[Back]
  BY DEF Cast, Broadcasting, Back
<1>5. \A m : Mine(c, m) => Mine(c, m)'
  BY <1>1, BypassKeeps
<1>6. Broadcasting => /\ Mine(c, mgr.msg)'
                      /\ \A k \in DOMAIN box'[Back'] : Mine(c, box[Back][k])'
  BY <1>1, <1>2, <1>4 DEF Casting, Mine, Ranging
<1>7. Casting(c)'
  BY <1>1, <1>2, <1>3, <1>4, <1>6 DEF Casting, Ranging
<1> QED  BY <1>1, <1>2, <1>7 DEF Stage

(* A step that sends no command for a client, and none on a key.            *)
LEMMA SentBypasses ==
  ASSUME ~Busy, ~Busy', UNCHANGED <<requests, replies, client, store>>, box'["answer"] = box["answer"],
         \A p \in Pids : \/ Kept(inbox[p], inbox'[p], Plain)
                         \/ None(inbox'[p], Plain) /\ DOMAIN store[p] = {},
         NEW c
  PROVE  Bypasses(c)
<1>1. Way' = Way /\ \A p \in Pids : Work(p) = inbox[p] /\ Work(p)' = inbox'[p]
  BY DEF Way, Work, Busy
<1>2. \A p \in Pids : WorkStays(p)
  BY <1>1 DEF WorkStays
<1>3. StoredIn(client[c].coll)' = StoredIn(client[c].coll)
  BY DEF StoredIn
<1> QED  BY <1>1, <1>2, <1>3 DEF Bypasses

(* A step with nothing under way before it and after it.                    *)
LEMMA EmptyBypasses ==
  ASSUME UNCHANGED <<requests, replies, client, store>>,
         Busy \/ ((\A p \in Pids : inbox[p] = <<>>) /\ box["answer"] = <<>>),
         Busy' \/ ((\A p \in Pids : inbox'[p] = <<>>) /\ box'["answer"] = <<>>),
         NEW c
  PROVE  Bypasses(c)
<1>1. /\ Way = <<>> /\ \A p \in Pids : Work(p) = <<>>
  BY DEF Way, Work
<1>2. /\ Way' = <<>> /\ \A p \in Pids : Work(p)' = <<>>
  BY DEF Way, Work, Busy
<1>3. NoWork /\ NoWork'
  BY <1>1, <1>2, NothingThere DEF NoWork
<1>4. StoredIn(client[c].coll)' = StoredIn(client[c].coll)
  BY DEF StoredIn
<1> QED  BY <1>1, <1>2, <1>3, <1>4 DEF Bypasses

(* Moving keys, and servers that come and go, leave a client's command      *)
(* alone.                                                                   *)
Moves ==
  \/ NextPath \/ CountAnswer \/ CountTimeout \/ BeginTransfer \/ TransferAnswer \/ TransferTimeout
  \/ SetupAnswer \/ SetupTimeout \/ HandleShutdown \/ HandleRun \/ HandleTerminate

(* None of these is on the way of a command, nor a broadcast.              *)
LEMMA MovesBypass ==
  ASSUME TypeInv, PidInv, RightInv, Settled, Settled', Moves, NEW c
  PROVE  Bypasses(c) /\ ~Cast /\ ~Cast'
<1>1. KnownType /\ MailType /\ run \in BOOLEAN /\ run /\ inbox = [p \in Pids |-> inbox[p]]
  BY DEF TypeInv, HistoryType, MailType, Settled
<1>2. UNCHANGED <<requests, replies, client, store>>
  BY DEF Moves, NextPath, CountAnswer, CountTimeout, BeginTransfer, TransferAnswer, TransferTimeout,
         SetupAnswer, SetupTimeout, HandleShutdown, HandleRun, HandleTerminate, Outside, data, mail
<1>3. ~Cast
  <2> HIDE DEF Cast
  <2>1. mgr.wait \in {"path", "count", "move", "setup", "main"} \cup TransferWaits
    BY DEF Moves, NextPath, CountAnswer, CountTimeout, BeginTransfer, TransferAnswer, TransferTimeout,
           SetupAnswer, SetupTimeout, HandleShutdown, HandleRun, HandleTerminate, TransferWaits
  <2> QED  BY <2>1 DEF Cast, Broadcasting, TransferWaits
<1>4. \A p \in Pids : Kept(inbox[p], inbox[p], Plain)
  BY SameKeeps
<1>5. \A D : Sends(D) /\ D \cap Plain = {} => \A p \in Pids : Kept(inbox[p], inbox'[p], Plain)
  <2>1. TAKE D
  <2> QED  BY <1>1, SendsKeeps
<1>6. \A changed, n : EndBody(changed, n) => mgr'.wait \in {"main", "ended", "path"}
  BY <1>1, BodyTurns
<1>7. \A wait \in Waits : At(wait).wait = wait
  BY AtType
<1>8. {"dead", "ended", "setup"} \subseteq Waits
  BY DEF Waits
<1>9. "GET_RECORDS_CNT" \notin Plain /\ "TERMINATE" \notin Plain
  BY DEF Plain, DataChanges
<1>10. /\ OwnMsg("TERMINATE", NoOne).cmd = "TERMINATE"
       /\ \A coll : OwnMsg("GET_RECORDS_CNT", coll).cmd = "GET_RECORDS_CNT"
  BY DEF OwnMsg, Msg
<1>11. \A job, paths : Over(job, paths).wait = "path"
  BY DEF Over, At
<1>12. mgr.wait \in {"path", "count", "setup", "main"} => ~Busy
  BY DEF Busy, TransferWaits
<1>13. mgr'.wait \in {"main", "ended", "path", "count", "move", "setup", "dead"} => ~Busy' /\ ~Cast'
  BY DEF Busy, TransferWaits, Cast, Broadcasting
<1>14. CASE NextPath
  <2>1. mgr.wait = "path" /\ box' = box
    BY <1>14 DEF NextPath
  <2>2. CASE LetGo
    <3>1. Sends({"TERMINATE"}) /\ mgr'.wait = "path"
      BY <1>1, <1>10, <1>11, <2>2, PostSends DEF LetGo
    <3>2. \A p \in Pids : Kept(inbox[p], inbox'[p], Plain)
      BY <1>5, <1>9, <3>1
    <3> QED  BY <1>2, <1>3, <1>12, <1>13, <2>1, <3>1, <3>2, SentBypasses
  <2>3. CASE \E i : AskCount(i)
    <3>1. Sends({"GET_RECORDS_CNT"}) /\ mgr'.wait = "count"
      <4>1. Sends({"GET_RECORDS_CNT"})
        BY <1>1, <1>10, <2>3, PostSends DEF AskCount
      <4>2. mgr'.wait = "count"
        BY <2>3 DEF AskCount, TypeInv, MgrType, Places
      <4> QED  BY <4>1, <4>2
    <3>2. \A p \in Pids : Kept(inbox[p], inbox'[p], Plain)
      BY <1>5, <1>9, <3>1
    <3> QED  BY <1>2, <1>3, <1>12, <1>13, <2>1, <3>1, <3>2, SentBypasses
  <2>4. CASE Return /\ UNCHANGED inbox
    <3>1. mgr'.wait \in {"main", "ended", "path"}
      BY <1>6, <2>4 DEF Return
    <3> QED  BY <1>2, <1>3, <1>4, <1>12, <1>13, <2>1, <2>4, <3>1, SentBypasses
  <2>5. LetGo \/ (\E i : AskCount(i)) \/ (Return /\ UNCHANGED inbox)
    <3> HIDE DEF LetGo, AskCount, Return
    <3> QED  BY <1>14 DEF NextPath
  <2> QED  BY <2>2, <2>3, <2>4, <2>5
<1>15. CASE CountAnswer
  <2>1. mgr.wait = "count" /\ box'["answer"] = box["answer"]
    BY <1>1, <1>15 DEF CountAnswer, MailType, Boxes
  <2>2. (UNCHANGED inbox \/ Sends({"GET_RECORDS_CNT"})) /\ mgr'.wait \in {"move", "count"}
    BY <1>1, <1>10, <1>15, CountsOn, PostSends
  <2>3. \A p \in Pids : Kept(inbox[p], inbox'[p], Plain)
    BY <1>4, <1>5, <1>9, <2>2
  <2> QED  BY <1>2, <1>3, <1>12, <1>13, <2>1, <2>2, <2>3, SentBypasses
<1>16. CASE CountTimeout
  <2>1. mgr.wait = "count" /\ box' = box /\ inbox' = inbox /\ GiveUp
    BY <1>16 DEF CountTimeout, mail
  <2>2. mgr'.wait \in {"main", "ended", "path"}
    BY <2>1, GiveUpTurns
  <2> QED  BY <1>2, <1>3, <1>4, <1>12, <1>13, <2>1, <2>2, SentBypasses
<1>17. CASE BeginTransfer
  <2>1. CASE mgr.n > 0 /\ \E p, m, cmd : Send(p, m, cmd, "obtain", NoOne)
    <3>1. box["answer"] = <<>> /\ \A p \in Pids : inbox[p] = <<>>
      <4>1. "crossed" \notin past'
        BY DEF Settled, Orderly
      <4>2. mgr.n \in Int
        BY DEF TypeInv, MgrType, Places
      <4> QED  BY <1>17, <2>1, <4>1, <4>2 DEF BeginTransfer
    <3>2. mgr'.wait = "obtain"
      BY <2>1 DEF Send, TypeInv, MgrType, Places
    <3>3. Busy' /\ ~Cast'
      BY <3>2 DEF Busy, TransferWaits, Cast, Broadcasting
    <3> QED  BY <1>2, <1>3, <3>1, <3>3, EmptyBypasses
  <2>2. CASE mgr' = Over(mgr.job, Tail(mgr.todo)) /\ UNCHANGED inbox
    <3>1. mgr.wait = "move" /\ box' = box /\ mgr'.wait = "path"
      BY <1>11, <1>17, <2>2 DEF BeginTransfer
    <3>2. ~Busy
      BY <3>1 DEF Busy, TransferWaits
    <3> QED  BY <1>2, <1>3, <1>4, <1>13, <2>2, <3>1, <3>2, SentBypasses
  <2> QED  BY <1>17, <2>1, <2>2 DEF BeginTransfer
<1>18. CASE TransferAnswer \/ TransferTimeout
  <2>1. Busy
    BY <1>18 DEF TransferAnswer, TransferTimeout, Busy, TransferWaits
  <2>2. CASE Busy'
    <3>1. ~Cast'
      BY <2>2 DEF Busy, TransferWaits, Cast, Broadcasting
    <3> QED  BY <1>2, <1>3, <2>1, <2>2, <3>1, EmptyBypasses
  <2>3. CASE ~Busy'
    <3>1. (\A p \in Pids : inbox'[p] = <<>>) /\ box'["answer"] = <<>> /\ ~Broadcasting' /\ ~Halted'
      BY <1>18, <2>3, TransferLeaves
    <3>2. ~Cast'
      BY <3>1 DEF Cast, Halted
    <3> QED  BY <1>2, <1>3, <2>1, <3>1, <3>2, EmptyBypasses
  <2> QED  BY <2>2, <2>3
<1>19. CASE SetupAnswer
  <2>1. mgr.wait = "setup" /\ box'["answer"] = box["answer"] /\ inbox' = inbox
    BY <1>1, <1>19 DEF SetupAnswer, MailType, Boxes
  <2>2. mgr'.wait \in {"main", "ended", "path"}
    <3>1. (\E n : EndBody(changes, n)) \/ mgr' = Over("redistribute", Paths)
      BY <1>19 DEF SetupAnswer
    <3> QED  BY <1>6, <1>11, <3>1
  <2> QED  BY <1>2, <1>3, <1>4, <1>12, <1>13, <2>1, <2>2, SentBypasses
<1>20. CASE SetupTimeout
  <2>1. mgr.wait = "setup" /\ box' = box /\ inbox' = [inbox EXCEPT ![spawned] = <<>>] /\ Return
    BY <1>20 DEF SetupTimeout
  <2>2. mgr'.wait \in {"main", "ended", "path"}
    BY <1>6, <2>1 DEF Return
  <2>3. \A p \in Pids : IF p = spawned THEN inbox'[p] = <<>> ELSE inbox'[p] = inbox[p]
    BY <1>1, <2>1
  <2>4. DOMAIN store[spawned] = {}
    BY <2>1 DEF PidInv
  <2>5. \A p \in Pids : Kept(inbox[p], inbox'[p], Plain) \/ (None(inbox'[p], Plain) /\ DOMAIN store[p] = {})
    BY <1>4, <2>3, <2>4, NothingThere
  <2> QED  BY <1>2, <1>3, <1>12, <1>13, <2>1, <2>2, <2>5, SentBypasses
<1>21. CASE HandleRun
  <2>1. /\ mgr.wait = "main" /\ box' = box /\ inbox' = [inbox EXCEPT ![spawned + 1] = <<SetUp>>]
        /\ mgr'.wait = "setup" /\ spawned \in Pids
    BY <1>7, <1>8, <1>21 DEF HandleRun, SetUp, TypeInv, ServersType
  <2>2. \A p \in Pids : IF p = spawned + 1 THEN inbox'[p] = <<SetUp>> ELSE inbox'[p] = inbox[p]
    BY <1>1, <2>1
  <2>3. None(<<SetUp>>, Plain)
    <3>1. "SET_IN_MEMORY_CACHE_MODE" \notin Plain
      BY DEF Plain, DataChanges
    <3> QED  BY <3>1, SetUpAlone
  <2>4. \A p \in Pids : p = spawned + 1 => DOMAIN store[p] = {}
    <3>1. \A p \in Pids : p = spawned + 1 => p > spawned
      BY <2>1 DEF Pids
    <3> QED  BY <3>1 DEF PidInv
  <2>5. \A p \in Pids : Kept(inbox[p], inbox'[p], Plain) \/ (None(inbox'[p], Plain) /\ DOMAIN store[p] = {})
    BY <1>4, <2>2, <2>3, <2>4
  <2> QED  BY <1>2, <1>3, <1>12, <1>13, <2>1, <2>5, SentBypasses
<1>22. CASE HandleTerminate \/ HandleShutdown
  <2>1. mgr.wait = "main" /\ box' = box /\ inbox' = inbox
    BY <1>22 DEF HandleTerminate, HandleShutdown, mail
  <2>2. mgr'.wait \in {"dead", "ended", "path"}
    BY <1>22, AsideTyped
  <2> QED  BY <1>2, <1>3, <1>4, <1>12, <1>13, <2>1, <2>2, SentBypasses
<1> QED  BY <1>14, <1>15, <1>16, <1>17, <1>18, <1>19, <1>20, <1>21, <1>22 DEF Moves

(* A server that ends with nothing to lose.                                 *)
LEMMA DiesBypasses ==
  ASSUME TypeInv, ~Busy, NEW q \in Pids, Dies(q), UNCHANGED <<requests, replies, client, mgr>>,
         NEW c, \A d \in DOMAIN store[q] : NoWork /\ ~Cast => store[q][d] = {}
  PROVE  Bypasses(c) /\ UNCHANGED box
<1>1. /\ inbox = [p \in Pids |-> inbox[p]] /\ store = [p \in Pids |-> store[p]]
      /\ store' = [store EXCEPT ![q] = EmptyMap] /\ inbox' = [inbox EXCEPT ![q] = <<>>] /\ box' = box
  BY DEF TypeInv, ServersType, MailType, Dies
<1>2. /\ \A p \in Pids : IF p = q THEN inbox'[p] = <<>> ELSE inbox'[p] = inbox[p]
      /\ \A p \in Pids : IF p = q THEN store'[p] = EmptyMap ELSE store'[p] = store[p]
  BY <1>1
<1>3. Way' = Way /\ \A p \in Pids : Work(p) = inbox[p] /\ Work(p)' = inbox'[p]
  BY <1>1 DEF Way, Work, Busy
<1>4. \A p \in Pids : WorkStays(p)
  <2>1. TAKE p \in Pids
  <2>2. CASE p = q
    BY <1>2, <1>3, <2>2, NothingThere DEF WorkStays, EmptyMap
  <2>3. CASE p # q
    BY <1>2, <1>3, <2>3, SameKeeps DEF WorkStays
  <2> QED  BY <2>2, <2>3
<1>5. NoWork /\ ~Cast => StoredIn(client[c].coll)' = StoredIn(client[c].coll)
  <2>1. SUFFICES ASSUME NoWork, ~Cast
                 PROVE  StoredIn(client[c].coll)' = StoredIn(client[c].coll)
    OBVIOUS
  <2> DEFINE d == client[c].coll
  <2>2. \A k : (\E p \in Pids : d \in DOMAIN store'[p] /\ k \in store'[p][d])
                  <=> (\E p \in Pids : d \in DOMAIN store[p] /\ k \in store[p][d])
    <3> HIDE DEF d
    <3> QED  BY <1>2, <2>1 DEF EmptyMap
  <2>3. client' = client
    OBVIOUS
  <2> HIDE DEF d
  <2>4. StoredIn(d) = {k \in StoredIn(d) : TRUE}
    OBVIOUS
  <2>5. \A e : e = d => StoredIn(e)' = StoredIn(e)
    <3>1. TAKE e
    <3>2. SUFFICES ASSUME e = d  PROVE StoredIn(e)' = StoredIn(e)
      OBVIOUS
    <3> QED  BY <2>2, <3>2, StoredSame
  <2> QED  BY <2>3, <2>5 DEF d, StoredIn
<1> QED  BY <1>1, <1>3, <1>4, <1>5 DEF Bypasses

(* What a server does that is not for a client: it is set up, counts, ends, *)
(* or has a part in a move.                                                 *)
LEMMA ServesBypass ==
  ASSUME TypeInv, PidInv, GoneInv, ThereInv, FullInv, CountInv, RightInv, Settled, Settled',
         NEW q \in Pids, Server(q), NEW c,
         Busy \/ ServeSetup(q) \/ ServeCount(q) \/ ServeEnd(q) \/ LoseQueue(q)
  PROVE  /\ Bypasses(c) /\ UNCHANGED mgr
         /\ Cast => box'["added"] = box["added"] /\ box'["disposed"] = box["disposed"]
<1>1. UNCHANGED <<requests, replies, client, mgr>>
  BY ServerGoes
<1>2. MailType /\ KnownType /\ run /\ Still
  BY DEF TypeInv, Settled, Still, Orderly
<1>3. CASE Busy
  <2>1. (\A p \in Pids : inbox'[p] = <<>>) /\ (\A d : StoredIn(d)' = StoredIn(d))
    BY <1>3, RightServed
  <2>2. ~Cast /\ Busy'
    BY <1>1, <1>3 DEF Cast, Broadcasting, Busy, TransferWaits
  <2>3. Way' = Way /\ \A p \in Pids : Work(p) = <<>> /\ Work(p)' = <<>>
    BY <1>3, <2>2 DEF Way, Work
  <2>4. NoWork /\ NoWork'
    BY <2>3, NothingThere DEF NoWork
  <2>5. StoredIn(client[c].coll)' = StoredIn(client[c].coll)
    <3> DEFINE d == client[c].coll
    <3>1. client' = client
      BY <1>1
    <3> HIDE DEF d
    <3>2. \A e : e = d => StoredIn(e)' = StoredIn(e)
      BY <2>1
    <3> QED  BY <3>1, <3>2 DEF d, StoredIn
  <2> QED  BY <1>1, <2>2, <2>3, <2>4, <2>5 DEF Bypasses
<1>4. CASE ~Busy /\ (ServeSetup(q) \/ (ServeCount(q) /\ ~Dies(q)))
  <2>1. /\ store' = store /\ inbox[q] # <<>> /\ Head(inbox[q]).cmd \notin Plain /\ inbox' = Taken(q)
        /\ \E b \in {"setup", "count"} : \E m : box' = [box EXCEPT ![b] = Append(@, m)]
    <3>1. CASE ServeSetup(q)
      BY <3>1 DEF ServeSetup, Serves, Answer, Plain, DataChanges, data
    <3>2. CASE ServeCount(q) /\ ~Dies(q)
      BY <3>2 DEF ServeCount, Serves, Answer, Plain, DataChanges, data
    <3> QED  BY <1>4, <3>1, <3>2
  <2>2. \A p \in Pids : Kept(inbox[p], inbox'[p], Plain)
    BY <1>2, <2>1, TakenKeeps
  <2>3. /\ box'["answer"] = box["answer"] /\ box'["added"] = box["added"] /\ box'["disposed"] = box["disposed"]
    BY <1>2, <2>1 DEF MailType, Boxes
  <2>4. ~Busy'
    BY <1>1, <1>4 DEF Busy
  <2> QED  BY <1>1, <1>4, <2>1, <2>2, <2>3, <2>4, SentBypasses
<1>5. CASE ~Busy /\ ServeCount(q) /\ Dies(q)
  <2>1. proc[q] = "up" /\ Serves(q, {"GET_RECORDS_CNT"})
    BY <1>5 DEF ServeCount, Serves
  <2>2. Head(inbox[q]).coll \notin DOMAIN store[q]
    <3>1. proc = [p \in Pids |-> proc[p]]
      BY DEF TypeInv, ServersType
    <3>2. proc'[q] = "gone"
      BY <1>5, <3>1 DEF Dies
    <3> QED  BY <1>5, <2>1, <3>2 DEF ServeCount
  <2>3. ~Cast => DOMAIN store[q] = {}
    <3>1. SUFFICES ASSUME ~Cast
                   PROVE  DOMAIN store[q] = {}
      OBVIOUS
    <3>2. Sound /\ mgr.wait # "rollback"
      BY <1>2, <3>1 DEF Sound, Still, Cast
    <3>3. Counting(q) /\ Head(inbox[q]) = OwnMsg("GET_RECORDS_CNT", Head(mgr.todo))
      BY <2>1, <3>2, CountAwaited
    <3>4. mgr.todo # <<>> /\ mgr.todo \in Seq(DOMAIN seps) /\ mgr.i \in DOMAIN servers /\ mgr.wait = "count"
      BY <3>3 DEF Counting, TypeInv, MgrType, PidInv
    <3>5. Head(inbox[q]).coll = Head(mgr.todo) /\ Head(mgr.todo) \in DOMAIN seps
      <4>1. Head(mgr.todo) \in DOMAIN seps
        BY <3>4, TailType
      <4> QED  BY <3>3, <4>1 DEF OwnMsg, Msg
    <3>6. q = servers[mgr.i] /\ ~Passed(mgr.i)
      BY <3>3, <3>4 DEF Counting, Passed, Broadcasting
    <3>7. HasAll(mgr.i) \/ (mgr.i = 2 /\ Blank)
      BY <2>1, <3>2, <3>4, <3>6 DEF FullInv
    <3>8. ~HasAll(mgr.i)
      BY <2>2, <3>5, <3>6 DEF HasAll
    <3> QED  BY <3>6, <3>7, <3>8 DEF Blank
  <2>4. Bypasses(c) /\ UNCHANGED box
    BY <1>1, <1>5, <2>3, DiesBypasses
  <2> QED  BY <1>1, <2>4
<1>6. CASE ~Busy /\ (ServeEnd(q) \/ LoseQueue(q))
  <2>1. mgr.wait # "ended"
    BY <1>2 DEF PidInv
  <2>2. ServeEnd(q) /\ Dies(q) /\ proc[q] = "up" /\ inbox[q] # <<>> /\ Head(inbox[q]).cmd \in {"TERMINATE", "SHUTDOWN"}
    BY <1>6, <2>1 DEF ServeEnd, LoseQueue, Serves
  <2>3. 1 \in DOMAIN inbox[q] /\ inbox[q][1] = Head(inbox[q])
    BY <1>2, <2>2, TailAt DEF MailType
  <2>4. ~None(inbox[q], {"TERMINATE"})
    BY <1>2, <2>2, <2>3 DEF ThereInv, None
  <2>5. \A d \in DOMAIN store[q] : store[q][d] = {}
    BY <1>2, <2>2, <2>4 DEF GoneInv, Bequeathed
  <2>6. Bypasses(c) /\ UNCHANGED box
    BY <1>1, <1>6, <2>2, <2>5, DiesBypasses
  <2> QED  BY <1>1, <2>6
<1> QED  BY <1>3, <1>4, <1>5, <1>6

(* A broadcast command goes back to who asked for it.                       *)
LEMMA StructGiven ==
  ASSUME TypeInv, NEW q \in Pids, ServeAddStruct(q) \/ ServeDisposeStruct(q), NEW m, m = Head(inbox[q])
  PROVE  /\ inbox[q] # <<>> /\ inbox' = Taken(q) /\ m.cmd \in Structural
         /\ \E b \in {"added", "disposed"} : \E a :
              box' = [box EXCEPT ![b] = Append(@, a)] /\ a.pid = m.pid /\ a.cmd = m.cmd
<1>1. m \in Asking /\ inbox[q] # <<>> /\ inbox' = Taken(q) /\ m.cmd \in Structural
  <2>1. Serves(q, AddStruct) \/ Serves(q, DropStruct)
    BY DEF ServeAddStruct, ServeDisposeStruct
  <2>2. m \in Asking /\ inbox[q] # <<>> /\ m.cmd \in Structural
    BY <2>1, ServesType DEF TypeInv, Serves, Structural
  <2> QED  BY <2>2 DEF ServeAddStruct, ServeDisposeStruct, Answer
<1>2. \A status \in Statuses : [m EXCEPT !.status = status].pid = m.pid /\ [m EXCEPT !.status = status].cmd = m.cmd
  BY <1>1, StatusType
<1>3. \A status \in Statuses :
        [WithoutName(m) EXCEPT !.status = status].pid = m.pid /\ [WithoutName(m) EXCEPT !.status = status].cmd = m.cmd
  <2>1. WithoutName(m) \in Asking /\ WithoutName(m).cmd = m.cmd /\ WithoutName(m).pid = m.pid
    BY <1>1 DEF WithoutName, Asking, Message
  <2> HIDE DEF WithoutName
  <2> QED  BY <2>1, StatusType
<1>4. {"INVALID_PATH", "DUPLICATE", "BAD_ALLOC", "OK", "NOT_EXIST"} \subseteq Statuses
  BY DEF Statuses
<1>5. CASE ServeAddStruct(q)
  <2>1. \E status \in Statuses : Answer(q, "added", [m EXCEPT !.status = status])
    <3> HIDE DEF Answer
    <3> QED  BY <1>4, <1>5 DEF ServeAddStruct
  <2>2. PICK status \in Statuses : Answer(q, "added", [m EXCEPT !.status = status])
    BY <2>1
  <2> DEFINE a == [m EXCEPT !.status = status]
  <2>3. a.pid = m.pid /\ a.cmd = m.cmd /\ box' = [box EXCEPT !["added"] = Append(@, a)]
    BY <1>2, <2>2 DEF Answer
  <2> HIDE DEF a
  <2> QED  BY <1>1, <2>3
<1>6. CASE ServeDisposeStruct(q)
  <2>1. \E status \in Statuses : Answer(q, "disposed", [WithoutName(m) EXCEPT !.status = status])
    <3> HIDE DEF Answer, WithoutName
    <3> QED  BY <1>4, <1>6 DEF ServeDisposeStruct
  <2>2. PICK status \in Statuses : Answer(q, "disposed", [WithoutName(m) EXCEPT !.status = status])
    BY <2>1
  <2> DEFINE a == [WithoutName(m) EXCEPT !.status = status]
  <2>3. a.pid = m.pid /\ a.cmd = m.cmd /\ box' = [box EXCEPT !["disposed"] = Append(@, a)]
    BY <1>3, <2>2 DEF Answer
  <2> HIDE DEF a
  <2> QED  BY <1>1, <2>3
<1> QED  BY <1>5, <1>6

(* A server that takes part in a broadcast answers it.                      *)
LEMMA StageCast ==
  ASSUME TypeInv, BroadcastInv, Settled, NEW q \in Pids, ServeAddStruct(q) \/ ServeDisposeStruct(q),
         NEW c \in Clients, Stage(c)
  PROVE  Stage(c)'
<1>1. UNCHANGED <<requests, replies, client, mgr>>
  BY ServerGoes DEF Server
<1>2. PICK m : m = Head(inbox[q])
  OBVIOUS
<1>3. /\ inbox[q] # <<>> /\ inbox' = Taken(q) /\ m.cmd \in Structural
      /\ \E b \in {"added", "disposed"} : \E a :
              box' = [box EXCEPT ![b] = Append(@, a)] /\ a.pid = m.pid /\ a.cmd = m.cmd
  BY <1>2, StructGiven
<1>40. PICK b \in {"added", "disposed"} : \E a :
         box' = [box EXCEPT ![b] = Append(@, a)] /\ a.pid = m.pid /\ a.cmd = m.cmd
  BY <1>3
<1>4. PICK a : box' = [box EXCEPT ![b] = Append(@, a)] /\ a.pid = m.pid /\ a.cmd = m.cmd
  BY <1>40
<1>5. MailType /\ box'["answer"] = box["answer"]
  BY <1>4 DEF TypeInv, MailType, Boxes
<1>6. Cast /\ (Broadcasting => m = mgr.msg /\ box[Back] = <<>>)
  <2>1. CASE mgr.wait = "rollback"
    BY <2>1 DEF Cast, Broadcasting
  <2>2. CASE mgr.wait # "rollback"
    <3>1. Sound
      BY <2>2 DEF Sound, Settled, Orderly
    <3>2. CASE ServeAddStruct(q)
      <4>1. ServesStruct(q, m, "added")
        BY <1>2, <3>2, AddShape
      <4> QED  BY <3>1, <4>1, StructTaken DEF Cast
    <3>3. CASE ServeDisposeStruct(q)
      <4>1. ServesStruct(q, m, "disposed")
        BY <1>2, <3>3, DropShape
      <4> QED  BY <3>1, <4>1, StructTaken DEF Cast
    <3> QED  BY <3>2, <3>3
  <2> QED  BY <2>1, <2>2
<1>7. Casting(c) /\ client[c].at # "idle"
  BY <1>6 DEF Stage, Free, Requested, UnderWay
<1>8. ~Busy /\ ~Busy' /\ Cast' /\ (Broadcasting' <=> Broadcasting) /\ Back' = Back
  BY <1>1, <1>6 DEF Busy, Cast, Broadcasting, TransferWaits, Back
<1>9. Way' = Way /\ NoWork'
  <2>1. \A p \in Pids : Kept(inbox[p], inbox'[p], Plain)
    <3>1. m.cmd \notin Plain
      BY <1>3 DEF Structural, AddStruct, DropStruct, Plain, DataChanges
    <3> QED  BY <1>2, <1>3, <1>5, <3>1, TakenKeeps
  <2>2. \A p \in Pids : None(inbox'[p], Plain)
    BY <1>7, <1>8, <2>1 DEF Casting, NoWork, Work, Kept
  <2> QED  BY <1>5, <1>8, <2>2 DEF NoWork, Work, Way
<1>10. Broadcasting => /\ Mine(c, mgr.msg)'
                       /\ \A k \in DOMAIN box'[Back] : Mine(c, box'[Back][k])
  <2>1. SUFFICES ASSUME Broadcasting
                 PROVE  /\ Mine(c, mgr.msg)'
                        /\ \A k \in DOMAIN box'[Back] : Mine(c, box'[Back][k])
    OBVIOUS
  <2>2. Mine(c, mgr.msg) /\ ~Ranging(c)
    BY <1>7, <2>1 DEF Casting
  <2>3. Mine(c, a)
    BY <1>4, <1>6, <2>1, <2>2 DEF Mine
  <2>4. box'[Back] = <<>> \/ box'[Back] = <<a>>
    <3>1. Back \in Boxes /\ b \in Boxes /\ box[Back] = <<>> /\ box = [x \in Boxes |-> box[x]]
      BY <1>5, <1>6, <2>1 DEF Back, Boxes, MailType
    <3>2. box'[Back] = IF b = Back THEN Append(<<>>, a) ELSE <<>>
      BY <1>4, <3>1
    <3> QED  BY <3>2
  <2>5. \A k \in DOMAIN box'[Back] : box'[Back][k] = a
    BY <2>4
  <2>6. Mine(c, mgr.msg)'
    BY <1>1, <2>2 DEF Mine, Ranging
  <2> QED  BY <2>3, <2>5, <2>6
<1>11. \A m0 : Mine(c, m0) => Mine(c, m0)'
  BY <1>1 DEF Mine, Ranging
<1>12. Casting(c)'
  <2>1. Broadcasting' => Mine(c, mgr.msg)' /\ (\A k \in DOMAIN box[Back] : Mine(c, box[Back][k]))'
    BY <1>1, <1>8, <1>10 DEF Mine, Ranging
  <2> QED  BY <1>1, <1>7, <1>8, <1>9, <2>1 DEF Casting, Ranging
<1> QED  BY <1>1, <1>7, <1>12 DEF Stage

(* The server that takes the one command that is under way.                 *)
LEMMA PlainTaken ==
  ASSUME TypeInv, ~Busy, UNCHANGED mgr, NEW q \in Pids, inbox[q] # <<>>, Head(inbox[q]).cmd \in Plain,
         inbox'[q] = Tail(inbox[q]) \/ inbox'[q] = <<>>,
         \A p \in Pids : p # q => inbox'[p] = inbox[p]
  PROVE  /\ ~Busy' /\ ~NoWork /\ ~None(Work(q), Plain)
         /\ \A p \in Pids : p # q => Work(p)' = Work(p)
         /\ \A m : One(Work(q), Plain, m) => m = Head(inbox[q]) /\ None(Work(q)', Plain)
         /\ \A p \in Pids : \A m : OnlyAt(p, m) => p = q /\ m = Head(inbox[q]) /\ NoWork'
<1>1. ~Busy' /\ \A p \in Pids : Work(p) = inbox[p] /\ Work(p)' = inbox'[p]
  BY DEF Busy, Work
<1>2. inbox[q] \in Seq(Asking)
  BY DEF TypeInv, MailType
<1>3. ~None(inbox[q], Plain)
  <2>1. 1 \in DOMAIN inbox[q] /\ inbox[q][1] = Head(inbox[q])
    BY <1>2, TailAt
  <2> QED  BY <2>1 DEF None
<1>4. \A m : One(inbox[q], Plain, m) => m = Head(inbox[q]) /\ None(inbox'[q], Plain)
  <2>1. TAKE m
  <2>2. One(inbox[q], Plain, m) => m = Head(inbox[q]) /\ None(Tail(inbox[q]), Plain)
    BY <1>2, TailTakes
  <2> QED  BY <2>2, NothingThere
<1>5. \A p \in Pids : \A m : OnlyAt(p, m) => p = q
  BY <1>1, <1>3 DEF OnlyAt
<1>6. \A p \in Pids : \A m : OnlyAt(p, m) => p = q /\ m = Head(inbox[q]) /\ NoWork'
  <2>1. SUFFICES ASSUME NEW p \in Pids, NEW m, OnlyAt(p, m)
                 PROVE  p = q /\ m = Head(inbox[q]) /\ NoWork'
    OBVIOUS
  <2>2. p = q /\ One(inbox[q], Plain, m) /\ \A r \in Pids : r # q => None(inbox[r], Plain)
    BY <1>1, <1>5, <2>1 DEF OnlyAt
  <2>3. \A r \in Pids : None(Work(r)', Plain)
    BY <1>1, <1>4, <2>2
  <2> QED  BY <1>4, <2>2, <2>3 DEF NoWork
<1> QED  BY <1>1, <1>3, <1>4, <1>6 DEF NoWork

(* The client's command on a key is answered.                               *)
LEMMA StageData ==
  ASSUME TypeInv, ~Busy, NEW q \in Pids, ServeData(q), NEW c \in Clients, Stage(c)
  PROVE  Stage(c)'
<1>1. PICK m : m = Head(inbox[q])
  OBVIOUS
<1>2. /\ m \in Asking /\ inbox[q] # <<>> /\ inbox' = Taken(q)
      /\ UNCHANGED <<requests, replies, client, mgr>>
      /\ \E a \in Asking : Given(q, m, a)
  BY <1>1, DataGiven
<1>3. PICK a \in Asking : Given(q, m, a)
  BY <1>2
<1>4. m.cmd \in Plain /\ m.cmd # "OBTAIN_BETWEEN"
  BY <1>1 DEF ServeData, Serves, Plain, DataChanges
<1>5. /\ inbox'[q] = Tail(inbox[q]) /\ \A p \in Pids : p # q => inbox'[p] = inbox[p]
  BY <1>2 DEF TypeInv, MailType, Taken
<1>6. /\ ~Busy' /\ ~NoWork /\ ~None(Work(q), Plain)
      /\ \A n : One(Work(q), Plain, n) => n = m
      /\ \A p \in Pids : \A n : OnlyAt(p, n) => p = q /\ n = m /\ NoWork'
  BY <1>1, <1>2, <1>4, <1>5, PlainTaken
<1>7. UnderWay(c) /\ client[c].at # "idle" /\ (Posted(c) \/ RangeAsked(c) \/ RangeHalved(c)) /\ requests = <<>> /\ ~Cast
  BY <1>6 DEF Stage, Free, Requested, Casting, UnderWay, Answered, Replied, RangeAnswered
<1>8. ~RangeAsked(c)
  BY <1>4, <1>6 DEF RangeAsked, IsPart, Mine, Ranging
<1>9. ~RangeHalved(c)
  BY <1>4, <1>6 DEF RangeHalved, HalfAsked, Stray, IsPart, Mine, Ranging
<1>10. Posted(c) /\ Mine(c, m) /\ NoWork'
  BY <1>6, <1>7, <1>8, <1>9 DEF Posted
<1>11. Way = box["answer"] /\ Way' = box'["answer"] /\ box'["answer"] = Append(box["answer"], a)
       /\ a.pid = m.pid /\ a.cmd = m.cmd
  BY <1>3, <1>6 DEF Way, Given, TypeInv, MailType, Boxes
<1>12. Way' = <<a>>
  <2>1. Way = <<>>
    BY <1>10 DEF Posted
  <2>2. Way' = Append(<<>>, a)
    BY <1>11, <2>1
  <2> HIDE DEF Way
  <2> QED  BY <2>2
<1>13. Settles(c, a)'
  BY <1>2, <1>10, <1>11 DEF Settles, Mine, Posted, Ranging
<1>14. Answered(c)'
  <2>1. Len(<<a>>) = 1 /\ <<a>>[1] = a
    OBVIOUS
  <2>2. Len(Way)' = 1 /\ Settles(c, Way[1])'
    BY <1>12, <1>13, <2>1 DEF Settles, Mine, Ranging
  <2>3. client'[c].at = "asked" /\ replies'[c] = <<>>
    BY <1>2, <1>10 DEF Posted
  <2> QED  BY <1>10, <2>2, <2>3 DEF Answered
<1>15. ~Cast'
  BY <1>2, <1>7 DEF Cast, Broadcasting
<1> QED  BY <1>2, <1>7, <1>14, <1>15 DEF Stage, UnderWay

(* Of the client that another message is of.                                *)
Same4(a, m) == a.pid = m.pid /\ a.cmd = m.cmd /\ a.req = m.req /\ a.coll = m.coll /\ a.hi = m.hi

(* What is in a range is a list.                                            *)
LEMMA RangeListed ==
  ASSUME NEW S \in SUBSET Keys, NEW lo, NEW hi
  PROVE  /\ InRange(S, lo, hi) \in Seq(Keys) /\ Len(InRange(S, lo, hi)) \in Nat
         /\ DOMAIN InRange(S, lo, hi) = 1 .. Len(InRange(S, lo, hi))
<1> DEFINE T == {k \in S : lo <= k /\ k <= hi}
<1>1. T \in SUBSET Nat /\ T \subseteq Keys /\ IsFiniteSet(T)
  BY FiniteData, FS_Subset
<1>2. InRange(S, lo, hi) = Ordered(T)
  BY DEF InRange
<1> HIDE DEF T
<1>3. Ordered(T) \in Seq(T)
  BY <1>1, OrderedList
<1>4. Ordered(T) \in Seq(Keys)
  <2>1. PICK s \in Seq(T) : s = Ordered(T)
    BY <1>3
  <2>2. Len(s) \in Nat /\ DOMAIN s = 1 .. Len(s) /\ s = [i \in 1 .. Len(s) |-> s[i]] /\ \A i \in 1 .. Len(s) : s[i] \in Keys
    BY <1>1
  <2>3. s \in Seq(Keys)
    BY <2>2
  <2> QED  BY <2>1, <2>3
<1> QED  BY <1>2, <1>4

(* A range has its least key, if that is there and not above the other one. *)
LEMMA RangeNotEmpty ==
  ASSUME NEW S \in SUBSET Keys, NEW lo \in S, NEW hi, lo <= hi
  PROVE  InRange(S, lo, hi) # <<>>
<1> DEFINE T == {k \in S : lo <= k /\ k <= hi}
<1>1. T \in SUBSET Nat /\ IsFiniteSet(T) /\ lo \in T
  <2>1. Keys \subseteq Nat /\ IsFiniteSet(Keys)
    BY FiniteData
  <2>2. T \subseteq Keys
    OBVIOUS
  <2>3. PICK l \in Nat : l = lo
    BY <2>1
  <2>4. lo <= lo
    <3>1. l <= l
      OBVIOUS
    <3> QED  BY <2>3, <3>1
  <2>5. lo \in T
    BY <2>4
  <2> HIDE DEF T
  <2>6. IsFiniteSet(T)
    BY <2>1, <2>2, FS_Subset
  <2> QED  BY <2>1, <2>2, <2>5, <2>6
<1>2. InRange(S, lo, hi) = Ordered(T)
  BY DEF InRange
<1> HIDE DEF T
<1>3. Ordered(T) \in Seq(T) /\ Len(Ordered(T)) = Cardinality(T)
  BY <1>1, OrderedList
<1>4. Cardinality(T) # 0
  BY <1>1, FS_EmptySet
<1> QED  BY <1>2, <1>3, <1>4

(* Nothing is between bounds that are the wrong way round.                  *)
LEMMA ReversedEmpty ==
  ASSUME NEW S \in SUBSET Keys, NEW lo \in S, NEW hi \in Keys \cup {NoOne}, ~(lo <= hi)
  PROVE  InRange(S, lo, hi) = <<>>
<1> DEFINE T == {k \in S : lo <= k /\ k <= hi}
<1>1. T = {}
  <2>1. Keys \subseteq Nat /\ NoOne \in Int
    BY FiniteData DEF NoOne
  <2>2. \A a, b, c \in Int : a <= b /\ b <= c => a <= c
    OBVIOUS
  <2>3. lo \in Int /\ hi \in Int /\ S \subseteq Int
    BY <2>1
  <2>4. SUFFICES ASSUME NEW k \in S, lo <= k, k <= hi  PROVE FALSE
    OBVIOUS
  <2>5. lo <= hi
    BY <2>2, <2>3, <2>4
  <2> QED  BY <2>5
<1>2. InRange(S, lo, hi) = Ordered(T)
  BY DEF InRange
<1> HIDE DEF T
<1>3. Ordered(T) \in Seq(T) /\ Len(Ordered(T)) = 0
  BY <1>1, OrderedList, FS_EmptySet
<1> QED  BY <1>2, <1>3, SequenceEmpty

(* The records of a range.                                                  *)
LEMMA RangeRecords ==
  ASSUME NEW m \in Asking, NEW S \in SUBSET Keys, m.key \in S, m.key <= m.hi
  PROVE  /\ RangeAnswers(m, S) \in Seq(Asking)
         /\ Len(RangeAnswers(m, S)) = Len(InRange(S, m.key, m.hi))
         /\ \A x \in 1 .. Len(RangeAnswers(m, S)) :
              /\ Same4(RangeAnswers(m, S)[x], m) /\ RangeAnswers(m, S)[x].cnt = m.cnt
              /\ RangeAnswers(m, S)[x].key = InRange(S, m.key, m.hi)[x]
              /\ RangeAnswers(m, S)[x].status = IF x = Len(RangeAnswers(m, S)) THEN "END" ELSE "OK"
<1> DEFINE K == InRange(S, m.key, m.hi)
           l == RangeAnswers(m, S)
<1>1. l \in Seq(Answering) /\ K \in Seq(Keys) /\ Len(K) \in Nat /\ DOMAIN K = 1 .. Len(K)
  BY RangeType, RangeListed
<1>2. l \in Seq(Asking)
  BY <1>1 DEF Answering
<1>3. l = [i \in DOMAIN K |-> [m EXCEPT !.status = IF i = Len(K) THEN "END" ELSE "OK", !.key = K[i]]]
  BY RangeNotEmpty DEF RangeAnswers
<1> HIDE DEF K, l
<1>4. DOMAIN l = 1 .. Len(K) /\ DOMAIN l = 1 .. Len(l) /\ Len(l) \in Nat
  <2>1. DOMAIN l = DOMAIN K
    BY <1>3
  <2>2. DOMAIN l = 1 .. Len(l) /\ Len(l) \in Nat
    BY <1>2
  <2> QED  BY <1>1, <2>1, <2>2
<1>5. Len(l) = Len(K)
  BY <1>1, <1>4
<1>6. ASSUME NEW x \in 1 .. Len(l)
      PROVE  /\ Same4(l[x], m) /\ l[x].cnt = m.cnt /\ l[x].key = K[x]
             /\ l[x].status = IF x = Len(l) THEN "END" ELSE "OK"
  <2>1. l[x] = [m EXCEPT !.status = IF x = Len(K) THEN "END" ELSE "OK", !.key = K[x]]
    BY <1>3, <1>4, <1>6
  <2> DEFINE s == IF x = Len(K) THEN "END" ELSE "OK"
             k == K[x]
  <2>2. l[x] = [m EXCEPT !.status = s, !.key = k]
    BY <2>1
  <2>3. s = IF x = Len(l) THEN "END" ELSE "OK"
    BY <1>5
  <2> HIDE DEF s, k
  <2>4. Same4(l[x], m) /\ l[x].cnt = m.cnt /\ l[x].key = k /\ l[x].status = s
    BY <2>2 DEF Asking, Message, Same4
  <2> QED  BY <2>3, <2>4 DEF k
<1> QED  BY <1>2, <1>5, <1>6 DEF K, l

(* What a server does with a range.                                         *)
Refused(q, m) ==
  /\ m.coll \notin DOMAIN store[q] \/ (m.key \in store[q][m.coll] /\ ~(m.key <= m.hi))
  /\ UNCHANGED store /\ inbox' = Taken(q)
  /\ \E a : box'["answer"] = Append(box["answer"], a) /\ Same4(a, m) /\ a.status = "KEY"

Missing(q, m) == Dies(q) /\ m.coll \in DOMAIN store[q] /\ m.key \notin store[q][m.coll]

Present(q, m) ==
  /\ m.coll \in DOMAIN store[q] /\ m.key \in store[q][m.coll] /\ m.key <= m.hi
  /\ UNCHANGED store /\ inbox' = Taken(q)
  /\ box'["answer"] = box["answer"] \o RangeAnswers(m, store[q][m.coll])

(* It refuses it, ends for want of the least key, or answers.               *)
LEMMA RangeGiven ==
  ASSUME TypeInv, NEW q \in Pids, ServeRange(q), NEW m, m = Head(inbox[q])
  PROVE  /\ m \in Asking /\ m.cmd = "OBTAIN_BETWEEN" /\ inbox[q] # <<>>
         /\ UNCHANGED <<requests, replies, client, mgr>>
         /\ \A p \in Pids : p # q => inbox'[p] = inbox[p] /\ store'[p] = store[p]
         /\ inbox'[q] = Tail(inbox[q]) \/ inbox'[q] = <<>>
         /\ Refused(q, m) \/ Missing(q, m) \/ Present(q, m)
<1>1. m \in Asking /\ m.cmd = "OBTAIN_BETWEEN" /\ inbox[q] # <<>>
  <2>1. Serves(q, {"OBTAIN_BETWEEN"})
    BY DEF ServeRange
  <2> QED  BY <2>1, ServesType DEF TypeInv, Serves
<1>2. UNCHANGED <<requests, replies, client, mgr>>
  BY DEF ServeRange, Elsewhere
<1>3. /\ inbox = [p \in Pids |-> inbox[p]] /\ store = [p \in Pids |-> store[p]] /\ "answer" \in Boxes
      /\ box = [b \in Boxes |-> box[b]]
  BY DEF TypeInv, MailType, ServersType, Boxes
<1>4. Refused(q, m) \/ Missing(q, m) \/ Present(q, m)
  <2>1. CASE m.coll \notin DOMAIN store[q]
    <3> DEFINE a == [m EXCEPT !.status = "KEY"]
    <3>1. box' = [box EXCEPT !["answer"] = Append(@, a)] /\ inbox' = Taken(q) /\ UNCHANGED store
      BY <2>1 DEF ServeRange, Answer, data
    <3>2. Same4(a, m) /\ a.status = "KEY"
      BY <1>1 DEF Asking, Message, Same4
    <3> HIDE DEF a
    <3> QED  BY <1>3, <2>1, <3>1, <3>2 DEF Refused
  <2>2. CASE m.coll \in DOMAIN store[q] /\ m.key \notin store[q][m.coll]
    BY <2>2 DEF ServeRange, Missing
  <2>3. CASE m.coll \in DOMAIN store[q] /\ m.key \in store[q][m.coll] /\ ~(m.key <= m.hi)
    <3> DEFINE a == [m EXCEPT !.status = "KEY"]
    <3>1. RangeAnswers(m, store[q][m.coll]) = <<a>>
      <4>1. store[q][m.coll] \in SUBSET Keys /\ m.hi \in Keys \cup {NoOne}
        BY <1>1, <2>3 DEF TypeInv, ServersType, IsMap, Asking, Message
      <4>2. InRange(store[q][m.coll], m.key, m.hi) = <<>>
        BY <2>3, <4>1, ReversedEmpty
      <4> QED  BY <4>2 DEF RangeAnswers
    <3>2. /\ box' = [box EXCEPT !["answer"] = @ \o <<a>>]
          /\ inbox' = Taken(q) /\ UNCHANGED store
      BY <2>3, <3>1 DEF ServeRange, data
    <3>3. Same4(a, m) /\ a.status = "KEY"
      BY <1>1 DEF Asking, Message, Same4
    <3> HIDE DEF a
    <3>4. box["answer"] \o <<a>> = Append(box["answer"], a)
      <4>1. box["answer"] \in Seq(Asking)
        BY DEF TypeInv, MailType, Boxes
      <4> QED  BY <4>1
    <3> QED  BY <1>3, <2>3, <3>2, <3>3, <3>4 DEF Refused
  <2>4. CASE m.coll \in DOMAIN store[q] /\ m.key \in store[q][m.coll] /\ m.key <= m.hi
    <3>1. /\ box' = [box EXCEPT !["answer"] = @ \o RangeAnswers(m, store[q][m.coll])]
          /\ inbox' = Taken(q) /\ UNCHANGED store
      BY <2>4 DEF ServeRange, data
    <3> QED  BY <1>3, <2>4, <3>1 DEF Present
  <2> QED  BY <2>1, <2>2, <2>3, <2>4
<1>5. \A p \in Pids : p # q => inbox'[p] = inbox[p] /\ store'[p] = store[p]
  BY <1>3, <1>4 DEF Refused, Missing, Present, Dies, Taken
<1>6. inbox'[q] = Tail(inbox[q]) \/ inbox'[q] = <<>>
  BY <1>3, <1>4 DEF Refused, Missing, Present, Dies, Taken
<1> QED  BY <1>1, <1>2, <1>4, <1>5, <1>6

(* The keys of a range are all with the server that is asked for it.        *)
LEMMA SoleHasWhole ==
  ASSUME TypeInv, NEW c, NEW q \in Pids, client[c].coll \in DOMAIN store[q], Sole(c, q)
  PROVE  Whole(c) = InRange(store[q][client[c].coll], client[c].lo, client[c].hi)
<1> DEFINE d == client[c].coll
           lo == client[c].lo
           hi == client[c].hi
<1>1. \A k : k \in StoredIn(d) <=> \E p \in Pids : d \in DOMAIN store[p] /\ k \in store[p][d]
  BY DEF StoredIn
<1>2. d \in DOMAIN store[q] /\ \A p \in Pids : p # q /\ d \in DOMAIN store[p] =>
        \A k \in store[p][d] : ~(lo <= k /\ k <= hi)
  BY DEF Sole
<1>3. Whole(c) = Ordered({k \in StoredIn(d) : lo <= k /\ k <= hi})
  BY DEF Whole, InRange
<1> HIDE DEF d, lo, hi
<1>4. {k \in StoredIn(d) : lo <= k /\ k <= hi} = {k \in store[q][d] : lo <= k /\ k <= hi}
  BY <1>1, <1>2
<1> QED  BY <1>3, <1>4 DEF InRange, d, lo, hi

(* A range of one server is answered.                                       *)
LEMMA RangeIsServed ==
  ASSUME TypeInv, GotInv, ~Busy, NEW q \in Pids, ServeRange(q), NEW c \in Clients, RangeAsked(c),
         requests = <<>>, ~Cast
  PROVE  Answered(c)' \/ RangeAnswered(c)' \/ Free(c)'
<1>1. PICK p \in Pids, n \in Asking :
        /\ OnlyAt(p, n) /\ IsPart(c, n)
        /\ client[c].coll \in DOMAIN store[p] => n.cnt = 1 /\ Sole(c, p)
  BY DEF RangeAsked
<1>2. PICK m : m = Head(inbox[q])
  OBVIOUS
<1>3. /\ m \in Asking /\ m.cmd = "OBTAIN_BETWEEN" /\ inbox[q] # <<>>
      /\ UNCHANGED <<requests, replies, client, mgr>>
      /\ \A r \in Pids : r # q => inbox'[r] = inbox[r] /\ store'[r] = store[r]
      /\ inbox'[q] = Tail(inbox[q]) \/ inbox'[q] = <<>>
      /\ Refused(q, m) \/ Missing(q, m) \/ Present(q, m)
  BY <1>2, RangeGiven
<1>4. ~Busy' /\ p = q /\ n = m /\ NoWork'
  <2>1. Head(inbox[q]).cmd \in Plain
    BY <1>2, <1>3 DEF Plain
  <2> QED  BY <1>1, <1>2, <1>3, <2>1, PlainTaken
<1>5. /\ Ranging(c) /\ client[c].at = "asked" /\ replies[c] = <<>> /\ box["answer"] = <<>>
      /\ Way' = box'["answer"] /\ IsPart(c, m)
      /\ client[c].coll \in DOMAIN store[q] => m.cnt = 1 /\ Sole(c, q)
  BY <1>1, <1>4 DEF RangeAsked, Way
<1>6. /\ m.coll = client[c].coll /\ m.hi = client[c].hi /\ m.key = client[c].lo /\ Mine(c, m)
  BY <1>5 DEF IsPart, Mine
<1>7. \A a : Same4(a, m) => Mine(c, a)'
  BY <1>3, <1>5, <1>6 DEF Same4, Mine, Ranging
<1>8. ~Cast' /\ requests' = <<>> /\ replies'[c] = <<>> /\ client'[c].at = "asked" /\ Ranging(c)'
  BY <1>3, <1>5 DEF Cast, Broadcasting, Ranging
<1>9. CASE Refused(q, m)
  <2>1. PICK a : box'["answer"] = Append(<<>>, a) /\ Same4(a, m) /\ a.status = "KEY"
    BY <1>5, <1>9 DEF Refused
  <2>2. Len(Way') = 1 /\ Way'[1] = a
    BY <1>5, <2>1
  <2>3. Settles(c, a)'
    BY <1>7, <2>1 DEF Settles, Success
  <2>4. Len(Way)' = 1 /\ Settles(c, Way[1])'
    BY <2>2, <2>3 DEF Settles, Mine, Ranging
  <2> QED  BY <1>4, <1>8, <2>4 DEF Answered
<1>10. CASE Missing(q, m)
  <2>1. Way' = <<>>
    BY <1>5, <1>10 DEF Missing, Dies
  <2> QED  BY <1>4, <1>8, <2>1 DEF Free
<1>11. CASE Present(q, m)
  <2> DEFINE S == store[q][m.coll]
  <2>1. m.coll \in DOMAIN store[q] /\ store' = store /\ m.cnt = 1 /\ m.key \in S /\ m.key <= m.hi
    BY <1>5, <1>6, <1>11 DEF Present
  <2>2. S \in SUBSET Keys
    BY <2>1 DEF TypeInv, ServersType, IsMap
  <2>3. Whole(c) = InRange(S, m.key, m.hi)
    BY <1>5, <1>6, <2>1, SoleHasWhole
  <2>4. Whole(c)' = Whole(c)
    BY <1>3, <2>1 DEF Whole, StoredIn
  <2>5. Way' = <<>> \o RangeAnswers(m, S)
    BY <1>5, <1>11 DEF Present
  <2>6. PICK K : K = InRange(S, m.key, m.hi)
    OBVIOUS
  <2> HIDE DEF S
  <2>7. PICK l : l = RangeAnswers(m, S)
    OBVIOUS
  <2>8. /\ l \in Seq(Asking) /\ Len(l) = Len(K)
        /\ \A x \in 1 .. Len(l) :
              /\ Same4(l[x], m) /\ l[x].cnt = 1 /\ l[x].key = K[x]
              /\ l[x].status = IF x = Len(l) THEN "END" ELSE "OK"
    BY <1>3, <2>1, <2>2, <2>6, <2>7, RangeRecords
  <2>9. Way' = l
    <3>1. \A t \in Seq(Asking) : <<>> \o t = t
      OBVIOUS
    <3> QED  BY <2>5, <2>7, <2>8, <3>1
  <2>10. \A x \in 1 .. Len(l) : Record(c, l[x], x)'
    <3>1. SUFFICES ASSUME NEW x \in 1 .. Len(l)
                   PROVE  Record(c, l[x], x)'
      OBVIOUS
    <3>2. PICK b : b = l[x]
      OBVIOUS
    <3>3. Mine(c, b)' /\ b.cnt = 1 /\ b.key = K[x] /\ b.status = IF x = Len(K) THEN "END" ELSE "OK"
      BY <1>7, <2>8, <3>1, <3>2
    <3>4. Record(c, b, x)'
      BY <2>3, <2>4, <2>6, <3>3 DEF Record
    <3> QED  BY <3>2, <3>4
  <2>11. CASE l = <<>>
    <3>1. Way' = <<>>
      BY <2>9, <2>11
    <3> QED  BY <1>4, <1>8, <3>1 DEF Free
  <2>12. CASE l # <<>>
    <3>1. Len(l) \in Nat /\ Len(l) # 0
      BY <2>8, <2>12, SequenceEmpty
    <3>2. client'[c].got = <<>>
      BY <1>3, <1>5 DEF GotInv
    <3>3. Len(Whole(c))' = Len(l)
      BY <2>3, <2>4, <2>6, <2>8
    <3>4. Records(c, 0, 0)'
      <4>1. Len(client'[c].got) = 0 /\ Len(replies'[c]) = 0
        BY <1>8, <3>2
      <4>2. Len(Way)' = Len(l)
        BY <2>9
      <4>3. 0 + 0 + Len(l) = Len(l) /\ 0 < Len(l)
        BY <3>1
      <4>4. \A x \in 1 .. Len(l) : Record(c, Way[x], 0 + 0 + x)'
        <5>1. \A x \in 1 .. Len(l) : 0 + 0 + x = x
          BY <3>1
        <5>2. \A x \in 1 .. Len(l) : Record(c, Way[x], x)'
          BY <2>9, <2>10 DEF Record, Mine, Ranging
        <5> QED  BY <5>1, <5>2
      <4>5. \A x \in 1 .. 0 : FALSE
        OBVIOUS
      <4> HIDE DEF Record, Whole
      <4> QED  BY <1>8, <3>3, <4>1, <4>2, <4>3, <4>4, <4>5 DEF Records
    <3> QED  BY <1>4, <1>8, <3>4 DEF RangeAnswered
  <2> QED  BY <2>11, <2>12
<1> QED  BY <1>3, <1>9, <1>10, <1>11

(* One of the two servers of a range is at its part.                        *)
LEMMA HalfIsServed ==
  ASSUME TypeInv, ~Busy, NEW q \in Pids, ServeRange(q), NEW c \in Clients, RangeHalved(c)
  PROVE  RangeHalved(c)'
<1>1. PICK left \in Pids :
       /\ \A p \in Pids : p # left => Stray(c, p)
       /\ \/ HalfAsked(c, left)
          \/ None(Work(left), Plain) /\ HalfAnswered(c)
          \/ None(Work(left), Plain) /\ Way = <<>> /\ replies[c] = <<>>
  BY DEF RangeHalved
<1>2. PICK m : m = Head(inbox[q])
  OBVIOUS
<1>3. /\ m \in Asking /\ m.cmd = "OBTAIN_BETWEEN" /\ inbox[q] # <<>>
      /\ UNCHANGED <<requests, replies, client, mgr>>
      /\ \A r \in Pids : r # q => inbox'[r] = inbox[r] /\ store'[r] = store[r]
      /\ inbox'[q] = Tail(inbox[q]) \/ inbox'[q] = <<>>
      /\ Refused(q, m) \/ Missing(q, m) \/ Present(q, m)
  BY <1>2, RangeGiven
<1>4. /\ ~Busy' /\ ~None(Work(q), Plain)
      /\ \A p \in Pids : p # q => Work(p)' = Work(p)
      /\ \A n : One(Work(q), Plain, n) => n = m /\ None(Work(q)', Plain)
  <2>1. Head(inbox[q]).cmd \in Plain
    BY <1>2, <1>3 DEF Plain
  <2> QED  BY <1>2, <1>3, <2>1, PlainTaken
<1>5. Way = box["answer"] /\ Way' = box'["answer"] /\ Ranging(c) /\ Ranging(c)'
  BY <1>3, <1>4 DEF Way, RangeHalved, Ranging
<1>6. \A a : Mine(c, a) => Mine(c, a)' /\ (IsPart(c, a) => IsPart(c, a)')
  BY <1>3 DEF Mine, Ranging, IsPart
<1>7. \A p \in Pids : p # q /\ Stray(c, p) => Stray(c, p)'
  <2>1. SUFFICES ASSUME NEW p \in Pids, p # q, Stray(c, p)
                 PROVE  Stray(c, p)'
    OBVIOUS
  <2>2. Work(p)' = Work(p) /\ store'[p] = store[p]
    BY <1>3, <1>4, <2>1
  <2>3. CASE None(Work(p), Plain)
    <3>1. None(Work(p)', Plain)
      BY <2>2, <2>3
    <3> QED  BY <3>1 DEF Stray
  <2>4. CASE /\ client[c].coll \in DOMAIN store[p] /\ client[c].lo \notin store[p][client[c].coll]
             /\ \E n \in Asking : One(Work(p), Plain, n) /\ IsPart(c, n)
    <3>1. PICK n \in Asking : One(Work(p), Plain, n) /\ IsPart(c, n)
      BY <2>4
    <3>2. One(Work(p)', Plain, n) /\ IsPart(c, n)'
      BY <1>6, <2>2, <3>1 DEF IsPart
    <3>3. client'[c].coll \in DOMAIN store'[p] /\ client'[c].lo \notin store'[p][client'[c].coll]
      BY <1>3, <2>2, <2>4
    <3> QED  BY <3>2, <3>3 DEF Stray
  <2> QED  BY <2>1, <2>3, <2>4 DEF Stray
<1>8. CASE q # left
  <2>1. Stray(c, q)
    BY <1>1, <1>8
  <2>2. PICK n \in Asking : One(Work(q), Plain, n) /\ IsPart(c, n)
    BY <1>4, <2>1 DEF Stray
  <2>3. n = m /\ None(Work(q)', Plain)
    BY <1>4, <2>2
  <2>4. client[c].coll \in DOMAIN store[q] /\ client[c].lo \notin store[q][client[c].coll]
    BY <1>4, <2>1 DEF Stray
  <2>5. m.coll = client[c].coll /\ m.key = client[c].lo
    BY <1>5, <2>2, <2>3 DEF IsPart, Mine
  <2>6. Missing(q, m)
    BY <1>3, <2>4, <2>5 DEF Refused, Present, Missing
  <2>7. Way' = Way
    BY <1>5, <2>6 DEF Missing, Dies
  <2>8. \A p \in Pids : p # left => Stray(c, p)'
    <3>1. Stray(c, q)'
      BY <2>3 DEF Stray
    <3> QED  BY <1>1, <1>7, <3>1
  <2>9. Work(left)' = Work(left) /\ store'[left] = store[left]
    BY <1>3, <1>4, <1>8
  <2>10. CASE HalfAsked(c, left)
    <3>1. PICK h \in Asking : One(Work(left), Plain, h) /\ IsPart(c, h) /\ h.cnt = 2
      BY <2>10 DEF HalfAsked
    <3>2. One(Work(left)', Plain, h) /\ IsPart(c, h)'
      BY <1>6, <2>9, <3>1 DEF IsPart
    <3>3. HalfAsked(c, left)'
      BY <1>3, <2>7, <2>9, <2>10, <3>1, <3>2 DEF HalfAsked
    <3> QED  BY <1>5, <2>8, <3>3 DEF RangeHalved
  <2>11. CASE None(Work(left), Plain) /\ HalfAnswered(c)
    <3>1. \A h : \A last : Half(c, h, last) => Half(c, h, last)'
      BY <1>6 DEF Half
    <3>2. HalfAnswered(c)'
      BY <1>3, <2>7, <2>11, <3>1 DEF HalfAnswered
    <3>3. None(Work(left)', Plain)
      BY <2>9, <2>11
    <3> QED  BY <1>5, <2>8, <3>2, <3>3 DEF RangeHalved
  <2>12. CASE None(Work(left), Plain) /\ Way = <<>> /\ replies[c] = <<>>
    <3>1. None(Work(left)', Plain) /\ Way' = <<>> /\ replies'[c] = <<>>
      BY <1>3, <2>7, <2>9, <2>12
    <3> QED  BY <1>5, <2>8, <3>1 DEF RangeHalved
  <2> QED  BY <1>1, <2>10, <2>11, <2>12
<1>9. CASE q = left
  <2>1. HalfAsked(c, q)
    BY <1>1, <1>4, <1>9
  <2>2. PICK n \in Asking : One(Work(q), Plain, n) /\ IsPart(c, n) /\ n.cnt = 2
    BY <2>1 DEF HalfAsked
  <2>3. n = m /\ None(Work(q)', Plain)
    BY <1>4, <2>2
  <2>4. /\ client[c].coll \in DOMAIN store[q] /\ client[c].at = "asked" /\ replies[c] = <<>> /\ box["answer"] = <<>>
        /\ client[c].lo <= client[c].hi
    BY <1>5, <2>1 DEF HalfAsked
  <2>5. m.coll = client[c].coll /\ Mine(c, m) /\ m.cnt = 2 /\ m.hi = client[c].hi /\ m.key <= m.hi
    BY <1>5, <2>2, <2>3, <2>4 DEF IsPart, Mine
  <2>6. \A p \in Pids : p # left => Stray(c, p)'
    BY <1>1, <1>7, <1>9
  <2>7. CASE Missing(q, m)
    <3>1. None(Work(left)', Plain) /\ Way' = <<>> /\ replies'[c] = <<>>
      BY <1>3, <1>5, <1>9, <2>3, <2>4, <2>7 DEF Missing, Dies
    <3> QED  BY <1>5, <2>6, <3>1 DEF RangeHalved
  <2>8. CASE Present(q, m)
    <3> DEFINE S == store[q][m.coll]
    <3>1. Way' = <<>> \o RangeAnswers(m, S)
      BY <1>5, <2>4, <2>8 DEF Present
    <3>2. S \in SUBSET Keys /\ m.key \in S
      BY <2>4, <2>5, <2>8 DEF TypeInv, ServersType, IsMap, Present
    <3> HIDE DEF S
    <3>3. PICK l : l = RangeAnswers(m, S)
      OBVIOUS
    <3>4. l \in Seq(Asking) /\ \A x \in 1 .. Len(l) :
                /\ Same4(l[x], m) /\ l[x].cnt = 2
                /\ l[x].status = IF x = Len(l) THEN "END" ELSE "OK"
      BY <1>3, <2>5, <3>2, <3>3, RangeRecords
    <3>5. Way' = l
      <4>1. \A t \in Seq(Asking) : <<>> \o t = t
        OBVIOUS
      <4> QED  BY <3>1, <3>3, <3>4, <4>1
    <3>6. \A x \in 1 .. Len(l) : Half(c, l[x], x = Len(l))'
      <4>1. SUFFICES ASSUME NEW x \in 1 .. Len(l)
                     PROVE  Half(c, l[x], x = Len(l))'
        OBVIOUS
      <4>2. PICK b : b = l[x]
        OBVIOUS
      <4>3. Same4(b, m) /\ b.cnt = 2 /\ b.status = IF x = Len(l) THEN "END" ELSE "OK"
        BY <3>4, <4>1, <4>2
      <4>4. Mine(c, b)
        BY <1>5, <2>5, <4>3 DEF Same4, Mine
      <4>5. Half(c, b, x = Len(l))'
        BY <1>6, <4>3, <4>4 DEF Half
      <4> QED  BY <4>2, <4>5
    <3>7. HalfAnswered(c)'
      <4>1. client'[c].at = "asked" /\ replies'[c] = <<>> /\ Len(replies'[c]) = 0
        BY <1>3, <2>4
      <4>2. \A x \in 1 .. 0 : FALSE
        OBVIOUS
      <4>3. \A x \in 1 .. Len(Way)' : Half(c, Way[x], x = Len(Way))'
        BY <3>5, <3>6 DEF Half, Mine, Ranging
      <4>4. 0 \in Nat
        OBVIOUS
      <4> HIDE DEF Half
      <4> QED  BY <4>1, <4>2, <4>3, <4>4 DEF HalfAnswered
    <3> QED  BY <1>5, <1>9, <2>3, <2>6, <3>7 DEF RangeHalved
  <2> QED  BY <1>3, <2>4, <2>5, <2>7, <2>8 DEF Refused
<1> QED  BY <1>8, <1>9

(* A server that reads a range, whatever it is of.                          *)
LEMMA StageRange ==
  ASSUME TypeInv, GotInv, ~Busy, NEW q \in Pids, ServeRange(q), NEW c \in Clients, Stage(c)
  PROVE  Stage(c)'
<1>1. PICK m : m = Head(inbox[q])
  OBVIOUS
<1>2. /\ m \in Asking /\ m.cmd = "OBTAIN_BETWEEN" /\ inbox[q] # <<>>
      /\ UNCHANGED <<requests, replies, client, mgr>>
      /\ \A r \in Pids : r # q => inbox'[r] = inbox[r] /\ store'[r] = store[r]
      /\ inbox'[q] = Tail(inbox[q]) \/ inbox'[q] = <<>>
  BY <1>1, RangeGiven
<1>3. /\ ~Busy' /\ ~NoWork
      /\ \A p \in Pids : \A n : OnlyAt(p, n) => p = q /\ n = m /\ NoWork'
  <2>1. Head(inbox[q]).cmd \in Plain
    BY <1>1, <1>2 DEF Plain
  <2> QED  BY <1>1, <1>2, <2>1, PlainTaken
<1>4. UnderWay(c) /\ client[c].at # "idle" /\ (Posted(c) \/ RangeAsked(c) \/ RangeHalved(c)) /\ requests = <<>> /\ ~Cast
  BY <1>3 DEF Stage, Free, Requested, Casting, UnderWay, Answered, Replied, RangeAnswered
<1>5. ~Posted(c)
  BY <1>2, <1>3 DEF Posted, Mine, Ranging
<1>6. ~Cast' /\ requests' = <<>> /\ client'[c].at # "idle"
  BY <1>2, <1>4 DEF Cast, Broadcasting
<1>7. CASE RangeAsked(c)
  BY <1>4, <1>6, <1>7, RangeIsServed DEF Stage, UnderWay
<1>8. CASE RangeHalved(c)
  BY <1>6, <1>8, HalfIsServed DEF Stage, UnderWay
<1> QED  BY <1>4, <1>5, <1>7, <1>8

(* A client that asks for something has nothing else under way.             *)
LEMMA StageRequest ==
  ASSUME TypeInv, NEW c \in Clients, Request(c), Stage(c)
  PROVE  Stage(c)'
<1>1. Free(c)
  BY DEF Stage, Request
<1>2. \E cmd, coll, key, hi :
        Ask(c, Msg(c, client[c].ctr, cmd, coll, key, hi))
  <2> HIDE DEF Ask, Msg
  <2> QED  BY DEF Request, DataChanges
<1>3. PICK cmd, coll, key, hi :
        Ask(c, Msg(c, client[c].ctr, cmd, coll, key, hi))
  BY <1>2
<1>4. PICK m : m = Msg(c, client[c].ctr, cmd, coll, key, hi)
  OBVIOUS
<1>5. /\ m.pid = c /\ m.req = client[c].ctr /\ m.cmd = cmd /\ m.coll = coll /\ m.key = key /\ m.hi = hi
  BY <1>4 DEF Msg
<1>6. /\ requests' = Append(<<>>, m)
      /\ client' = [client EXCEPT ![c] = [@ EXCEPT
           !.at = "asked", !.cmd = m.cmd, !.coll = m.coll, !.lo = m.key, !.hi = m.hi]]
  BY <1>1, <1>3, <1>4 DEF Ask, Free
<1>7. /\ client'[c].at = "asked" /\ client'[c].cmd = m.cmd /\ client'[c].coll = m.coll
      /\ client'[c].lo = m.key /\ client'[c].hi = m.hi /\ client'[c].ctr = client[c].ctr
  <2>1. client \in [Clients -> Waiting]
    BY DEF TypeInv, ClientType
  <2> DEFINE r == [client[c] EXCEPT
           !.at = "asked", !.cmd = m.cmd, !.coll = m.coll, !.lo = m.key, !.hi = m.hi]
  <2>2. client' = [client EXCEPT ![c] = r]
    BY <1>6
  <2>3. /\ r.at = "asked" /\ r.cmd = m.cmd /\ r.coll = m.coll
        /\ r.lo = m.key /\ r.hi = m.hi /\ r.ctr = client[c].ctr
    BY <2>1 DEF Waiting
  <2> HIDE DEF r
  <2>4. client'[c] = r
    BY <2>1, <2>2
  <2> QED  BY <2>3, <2>4
<1>8. Len(requests') = 1 /\ requests'[1] = m
  BY <1>6
<1>9. UNCHANGED <<inbox, box, replies, mgr>>
  BY DEF Request
<1>10. Mine(c, m)' /\ (Ranging(c)' => IsPart(c, m)')
  BY <1>3, <1>5, <1>7 DEF Mine, Ranging, IsPart
<1>11. /\ NoWork' /\ Way' = <<>> /\ ~Cast' /\ replies'[c] = <<>>
  BY <1>1, <1>9 DEF Free, NoWork, Work, Way, Busy, Cast, Broadcasting
<1>12. Len(requests)' = 1 /\ Mine(c, requests[1])' /\ (Ranging(c)' => IsPart(c, requests[1])')
  BY <1>8, <1>10 DEF Mine, IsPart, Ranging
<1> QED  BY <1>7, <1>10, <1>11, <1>12 DEF Requested, Stage

(* A client takes the oldest of its replies.                                *)
Reads(c, left) ==
  /\ client'[c].at = "range" /\ client'[c].due = left
  /\ client'[c].got = Append(client[c].got, Head(replies[c]).key)
  /\ client'[c].cmd = client[c].cmd /\ client'[c].coll = client[c].coll
  /\ client'[c].lo = client[c].lo /\ client'[c].hi = client[c].hi
  /\ client'[c].ctr = client[c].ctr

(* What is left of the replies of a client.                                 *)
LEMMA ReplyTaken ==
  ASSUME TypeInv, NEW c \in Clients, TakeReply(c) \/ TakeRangeReply(c)
  PROVE  /\ replies[c] # <<>> /\ Head(replies[c]) = replies[c][1] /\ replies[c][1] \in Asking
         /\ Len(replies[c]) \in Nat /\ Len(replies'[c]) = Len(replies[c]) - 1
         /\ \A x \in 1 .. Len(replies'[c]) : replies'[c][x] = replies[c][x + 1]
         /\ Len(replies[c]) = 1 => replies'[c] = <<>>
         /\ UNCHANGED <<inbox, box, requests, store, mgr>>
<1>1. /\ replies[c] # <<>> /\ replies' = [replies EXCEPT ![c] = Tail(@)]
      /\ UNCHANGED <<inbox, box, requests, store, mgr>>
  BY DEF TakeReply, TakeRangeReply, data
<1>2. PICK s \in Seq(Asking) : s = replies[c]
  BY DEF TypeInv, MailType
<1>3. replies'[c] = Tail(s)
  BY <1>1, <1>2 DEF TypeInv, MailType
<1>4. s # <<>>
  BY <1>1, <1>2
<1>5. /\ Head(s) = s[1] /\ s[1] \in Asking /\ Len(s) \in Nat /\ Len(Tail(s)) = Len(s) - 1
      /\ \A x \in 1 .. Len(Tail(s)) : Tail(s)[x] = s[x + 1]
  BY <1>4
<1>6. Len(s) = 1 => Tail(s) = <<>>
  <2>1. PICK t \in Seq(Asking) : t = Tail(s)
    BY <1>4, TailType
  <2>2. Len(s) = 1 => Len(t) = 0
    BY <1>5, <2>1
  <2> QED  BY <2>1, <2>2, SequenceEmpty
<1> QED  BY <1>1, <1>2, <1>3, <1>5, <1>6

(* What it makes of a record of its range.                                  *)
LEMMA RecordRead ==
  ASSUME TypeInv, GotInv, NEW c \in Clients, TakeReply(c) \/ TakeRangeReply(c), Ranging(c),
         NEW m, m = Head(replies[c]), Mine(c, m), m.status \in {"OK", "END"}, m.cnt \in {1, 2},
         client[c].at = "range" => client[c].due = m.cnt
  PROVE  (m.status = "END" /\ m.cnt = 1) \/ Reads(c, m.cnt - (IF m.status = "END" THEN 1 ELSE 0))
<1>1. client = [d \in Clients |-> client[d]] /\ client[c] \in Waiting
  BY DEF TypeInv, ClientType
<1> DEFINE left == m.cnt - (IF m.status = "END" THEN 1 ELSE 0)
<1>2. SUFFICES ASSUME ~(m.status = "END" /\ m.cnt = 1)
               PROVE  Reads(c, left)
  OBVIOUS
<1>3. left # 0
  BY <1>2
<1>4. CASE TakeReply(c)
  <2> DEFINE r == [client[c] EXCEPT !.at = "range", !.got = <<m.key>>, !.due = left]
  <2>1. client' = [client EXCEPT ![c] = r]
    <3> HIDE DEF Finish
    <3>1. m.req = client[c].ctr /\ m.cmd = "OBTAIN_BETWEEN" /\ m.status \in Success
      BY DEF Mine, Ranging, Success
    <3>2. (IF m.status = "END" THEN 1 ELSE 0) # m.cnt
      BY <1>2
    <3> QED  BY <1>4, <3>1, <3>2 DEF TakeReply
  <2>2. /\ r.at = "range" /\ r.due = left /\ r.got = <<m.key>> /\ r.cmd = client[c].cmd
        /\ r.coll = client[c].coll /\ r.lo = client[c].lo /\ r.hi = client[c].hi /\ r.ctr = client[c].ctr
    BY <1>1 DEF Waiting
  <2>3. client[c].got = <<>>
    BY <1>4 DEF TakeReply, GotInv
  <2>4. Append(client[c].got, m.key) = <<m.key>>
    BY <2>3
  <2> HIDE DEF r, left
  <2>5. client'[c] = r
    BY <1>1, <2>1
  <2> QED  BY <2>2, <2>4, <2>5 DEF Reads
<1>5. CASE TakeRangeReply(c)
  <2> DEFINE r == [client[c] EXCEPT !.got = Append(@, m.key), !.due = left]
  <2>1. client[c].at = "range" /\ client[c].due = m.cnt
    BY <1>5 DEF TakeRangeReply
  <2>2. client'[c] = r
    <3>1. client[c].due - (IF m.status = "END" THEN 1 ELSE 0) = left
      BY <2>1
    <3> HIDE DEF left, Finish
    <3>2. client' = [client EXCEPT ![c].got = Append(@, m.key), ![c].due = left]
      BY <1>3, <1>5, <3>1 DEF TakeRangeReply
    <3> QED  BY <1>1, <3>2 DEF left
  <2>3. /\ r.at = "range" /\ r.due = left /\ r.got = Append(client[c].got, m.key) /\ r.cmd = client[c].cmd
        /\ r.coll = client[c].coll /\ r.lo = client[c].lo /\ r.hi = client[c].hi /\ r.ctr = client[c].ctr
    BY <1>1, <2>1 DEF Waiting
  <2> HIDE DEF r, left
  <2> QED  BY <2>2, <2>3 DEF Reads
<1> QED  BY <1>4, <1>5

(* A client that reads on waits for the same.                               *)
LEMMA ReadsSame ==
  ASSUME NEW c, NEW left, Reads(c, left), UNCHANGED <<inbox, box, requests, store, mgr>>
  PROVE  /\ Ranging(c)' = Ranging(c) /\ NoWork' = NoWork /\ Way' = Way /\ Cast' = Cast
         /\ \A p \in Pids : Work(p)' = Work(p) /\ (Stray(c, p) => Stray(c, p)')
         /\ Whole(c)' = Whole(c)
         /\ \A m, x : Record(c, m, x) => Record(c, m, x)'
         /\ \A m, last : Half(c, m, last) => Half(c, m, last)'
<1>1. \A p \in Pids : Work(p)' = Work(p)
  BY DEF Work, Busy
<1>2. NoWork' = NoWork /\ Way' = Way /\ Cast' = Cast
  BY <1>1 DEF NoWork, Way, Busy, Cast, Broadcasting
<1>3. /\ client'[c].cmd = client[c].cmd /\ client'[c].coll = client[c].coll
      /\ client'[c].lo = client[c].lo /\ client'[c].hi = client[c].hi /\ client'[c].ctr = client[c].ctr
  BY DEF Reads
<1>4. Ranging(c)' = Ranging(c) /\ \A m : Mine(c, m)' = Mine(c, m)
  BY <1>3 DEF Ranging, Mine
<1>5. Whole(c)' = Whole(c)
  <2>1. \A d : StoredIn(d)' = StoredIn(d)
    BY DEF StoredIn
  <2>2. PICK e : e = client[c].coll
    OBVIOUS
  <2>3. Whole(c)' = InRange(StoredIn(e)', client[c].lo, client[c].hi)
    BY <1>3, <2>2 DEF Whole
  <2>4. StoredIn(e)' = StoredIn(e)
    BY <2>1
  <2> QED  BY <2>2, <2>3, <2>4 DEF Whole
<1>6. \A m : IsPart(c, m)' = IsPart(c, m)
  BY <1>3, <1>4 DEF IsPart
<1>7. \A p \in Pids : Stray(c, p) => Stray(c, p)'
  BY <1>1, <1>3, <1>6 DEF Stray
<1>8. \A m, x : Record(c, m, x) => Record(c, m, x)'
  BY <1>4, <1>5 DEF Record
<1>9. \A m, last : Half(c, m, last) => Half(c, m, last)'
  BY <1>4 DEF Half
<1> QED  BY <1>1, <1>2, <1>4, <1>5, <1>7, <1>8, <1>9

(* A record of a range is read; after the last there is no more.            *)
LEMMA RangeRead ==
  ASSUME TypeInv, GotInv, NEW c \in Clients, TakeReply(c) \/ TakeRangeReply(c), RangeAnswered(c),
         requests = <<>>, ~Cast
  PROVE  Free(c)' \/ RangeAnswered(c)'
<1>1. PICK g \in Nat : \E r \in Nat : Records(c, g, r)
  BY DEF RangeAnswered
<1>2. PICK r \in Nat : Records(c, g, r)
  BY <1>1
<1>3. /\ replies[c] # <<>> /\ Head(replies[c]) = replies[c][1] /\ replies[c][1] \in Asking
      /\ Len(replies[c]) \in Nat /\ Len(replies'[c]) = Len(replies[c]) - 1
      /\ \A x \in 1 .. Len(replies'[c]) : replies'[c][x] = replies[c][x + 1]
      /\ Len(replies[c]) = 1 => replies'[c] = <<>>
      /\ UNCHANGED <<inbox, box, requests, store, mgr>>
  BY ReplyTaken
<1>4. /\ r = Len(replies[c]) /\ g = Len(client[c].got) /\ NoWork /\ Ranging(c)
      /\ Way \in Seq(Asking)
  BY <1>2 DEF Records, RangeAnswered, Way, TypeInv, MailType, Boxes
<1> DEFINE w == Len(Way)
           n == Len(Whole(c))
<1>5. /\ w \in Nat /\ g + r + w = n /\ g < n /\ n \in Int
  <2>1. g + r + w = n /\ g < n
    BY <1>2 DEF Records
  <2>2. PICK s \in Seq(Asking) : s = Way
    BY <1>4
  <2>3. w \in Nat
    BY <2>2
  <2> HIDE DEF w, n
  <2> QED  BY <2>1, <2>3
<1>6. r >= 1
  <2>1. PICK s \in Seq(Asking) : s = replies[c]
    BY DEF TypeInv, MailType
  <2>2. Len(s) # 0
    BY <1>3, <2>1, SequenceEmpty
  <2> QED  BY <1>4, <2>1, <2>2
<1> DEFINE m == Head(replies[c])
<1>7. Record(c, m, g + 1)
  BY <1>2, <1>3, <1>6 DEF Records
<1>8. /\ Mine(c, m) /\ m.cnt = 1 /\ m.key = Whole(c)[g + 1]
      /\ m.status = IF g + 1 = n THEN "END" ELSE "OK"
  BY <1>7 DEF Record
<1>9. client[c].at = "range" => client[c].due = 1
  BY <1>2 DEF Records
<1>10. NoWork' = NoWork /\ Way' = Way /\ Cast' = Cast
  BY <1>3 DEF NoWork, Work, Way, Busy, Cast, Broadcasting
<1>11. CASE g + 1 = n
  <2>1. r = 1 /\ w = 0
    BY <1>5, <1>6, <1>11
  <2>2. replies'[c] = <<>> /\ Way = <<>>
    BY <1>3, <1>4, <2>1, SequenceEmpty
  <2> QED  BY <1>3, <1>4, <1>10, <2>2 DEF Free
<1>12. CASE g + 1 # n
  <2>1. Reads(c, 1)
    <3>1. m.status = "OK"
      BY <1>8, <1>12
    <3>2. (m.status = "END" /\ m.cnt = 1) \/ Reads(c, m.cnt - (IF m.status = "END" THEN 1 ELSE 0))
      <4> HIDE DEF m
      <4>1. m = Head(replies[c])
        BY DEF m
      <4> QED  BY <1>4, <1>8, <1>9, <3>1, <4>1, RecordRead
    <3>3. m.cnt - (IF m.status = "END" THEN 1 ELSE 0) = 1
      BY <1>8, <3>1
    <3> QED  BY <3>1, <3>2, <3>3
  <2>2. /\ Ranging(c)' /\ Whole(c)' = Whole(c)
        /\ \A l, x : Record(c, l, x) => Record(c, l, x)'
    BY <1>3, <1>4, <2>1, ReadsSame
  <2>3. Len(client'[c].got) = g + 1 /\ \A x \in 1 .. g + 1 : client'[c].got[x] = Whole(c)[x]
    <3>1. client[c].got \in Seq(Keys \cup {NoOne})
      BY DEF TypeInv, ClientType, Waiting
    <3>2. PICK s \in Seq(Keys \cup {NoOne}) : s = client[c].got
      BY <3>1
    <3>3. PICK k : k = m.key
      OBVIOUS
    <3>4. client'[c].got = Append(s, k) /\ g = Len(s)
      BY <1>4, <2>1, <3>2, <3>3 DEF Reads
    <3>5. /\ Len(Append(s, k)) = g + 1 /\ Append(s, k)[g + 1] = k
          /\ \A x \in 1 .. g : Append(s, k)[x] = s[x]
      BY <3>4
    <3>6. \A x \in 1 .. g : s[x] = Whole(c)[x]
      BY <1>2, <3>2 DEF Records
    <3>7. \A x \in 1 .. g + 1 : x \in 1 .. g \/ x = g + 1
      OBVIOUS
    <3> QED  BY <1>8, <3>3, <3>4, <3>5, <3>6, <3>7
  <2>4. Records(c, g + 1, r - 1)'
    <3>1. g + 1 = Len(client'[c].got) /\ r - 1 = Len(replies'[c])
      BY <1>3, <1>4, <2>3
    <3>2. (g + 1) + (r - 1) + Len(Way') = Len(Whole(c)') /\ g + 1 < Len(Whole(c)')
      <4>1. (g + 1) + (r - 1) + w = n /\ g + 1 < n
        BY <1>5, <1>12
      <4> QED  BY <1>10, <2>2, <4>1
    <3>3. IF g + 1 = 0 THEN client'[c].at = "asked" ELSE client'[c].at = "range" /\ client'[c].due = 1
      BY <2>1 DEF Reads
    <3>4. \A x \in 1 .. g + 1 : client'[c].got[x] = Whole(c)'[x]
      BY <2>2, <2>3
    <3>5. \A x \in 1 .. r - 1 : Record(c, replies[c][x], (g + 1) + x)'
      <4>1. SUFFICES ASSUME NEW x \in 1 .. r - 1
                     PROVE  Record(c, replies[c][x], (g + 1) + x)'
        OBVIOUS
      <4>2. PICK l : l = replies[c][x + 1]
        OBVIOUS
      <4>3. replies'[c][x] = l
        BY <1>3, <3>1, <4>2
      <4>4. Record(c, l, g + (x + 1))
        <5>1. \A y \in 1 .. r : Record(c, replies[c][y], g + y)
          BY <1>2 DEF Records
        <5>2. x + 1 \in 1 .. r
          OBVIOUS
        <5> QED  BY <4>2, <5>1, <5>2
      <4>5. g + (x + 1) = (g + 1) + x
        OBVIOUS
      <4>6. Record(c, l, (g + 1) + x)'
        BY <2>2, <4>4, <4>5
      <4> QED  BY <4>3, <4>6
    <3>6. \A x \in 1 .. Len(Way') : Record(c, Way[x], (g + 1) + (r - 1) + x)'
      <4>1. SUFFICES ASSUME NEW x \in 1 .. w
                     PROVE  Record(c, Way[x], (g + 1) + (r - 1) + x)'
        BY <1>10
      <4>2. PICK l : l = Way[x]
        OBVIOUS
      <4>3. Way'[x] = l
        BY <1>10, <4>2
      <4>4. Record(c, l, g + r + x)
        BY <1>2, <4>2 DEF Records
      <4>5. g + r + x = (g + 1) + (r - 1) + x
        OBVIOUS
      <4>6. Record(c, l, (g + 1) + (r - 1) + x)'
        BY <2>2, <4>4, <4>5
      <4> QED  BY <4>3, <4>6
    <3> QED  BY <3>1, <3>2, <3>3, <3>4, <3>5, <3>6 DEF Records
  <2>5. g + 1 \in Nat /\ r - 1 \in Nat
    BY <1>6
  <2> QED  BY <1>4, <1>10, <2>2, <2>4, <2>5 DEF RangeAnswered
<1> QED  BY <1>11, <1>12

(* A record of the first part is read; after the last the client waits.     *)
LEMMA HalfRead ==
  ASSUME TypeInv, GotInv, NEW c \in Clients, TakeReply(c) \/ TakeRangeReply(c), Ranging(c), HalfAnswered(c)
  PROVE  \E left : Reads(c, left) /\ (HalfAnswered(c)' \/ (Way' = <<>> /\ replies'[c] = <<>>))
<1>1. PICK r \in Nat :
        /\ r = Len(replies[c])
        /\ \A x \in 1 .. r : Half(c, replies[c][x], x = r + Len(Way))
        /\ \A x \in 1 .. Len(Way) : Half(c, Way[x], x = Len(Way))
  BY DEF HalfAnswered
<1>2. /\ replies[c] # <<>> /\ Head(replies[c]) = replies[c][1] /\ replies[c][1] \in Asking
      /\ Len(replies'[c]) = Len(replies[c]) - 1
      /\ \A x \in 1 .. Len(replies'[c]) : replies'[c][x] = replies[c][x + 1]
      /\ Len(replies[c]) = 1 => replies'[c] = <<>>
      /\ UNCHANGED <<inbox, box, requests, store, mgr>>
  BY ReplyTaken
<1>3. r >= 1
  <2>1. PICK s \in Seq(Asking) : s = replies[c]
    BY DEF TypeInv, MailType
  <2>2. Len(s) # 0
    BY <1>2, <2>1, SequenceEmpty
  <2> QED  BY <1>1, <2>1, <2>2
<1> DEFINE w == Len(Way)
<1>4. w \in Nat /\ Way \in Seq(Asking)
  <2>1. Way \in Seq(Asking)
    BY DEF Way, TypeInv, MailType, Boxes
  <2>2. PICK s \in Seq(Asking) : s = Way
    BY <2>1
  <2> QED  BY <2>1, <2>2
<1>5. PICK m : m = Head(replies[c])
  OBVIOUS
<1>6. Mine(c, m) /\ m.cnt = 2 /\ m.status = IF 1 = r + w THEN "END" ELSE "OK"
  <2>1. Half(c, replies[c][1], 1 = r + Len(Way))
    BY <1>1, <1>3
  <2> QED  BY <1>2, <1>5, <2>1 DEF Half
<1>7. PICK left : left = m.cnt - (IF m.status = "END" THEN 1 ELSE 0)
  OBVIOUS
<1>8. Reads(c, left)
  <2>1. client[c].at = "range" => client[c].due = m.cnt
    BY <1>6 DEF HalfAnswered
  <2>2. m.status \in {"OK", "END"} /\ m.cnt \in {1, 2} /\ ~(m.status = "END" /\ m.cnt = 1)
    BY <1>6
  <2> QED  BY <1>5, <1>6, <1>7, <2>1, <2>2, RecordRead
<1>9. Way' = Way /\ \A l, last : Half(c, l, last) => Half(c, l, last)'
  BY <1>2, <1>8, ReadsSame
<1>10. SUFFICES HalfAnswered(c)' \/ (Way' = <<>> /\ replies'[c] = <<>>)
  BY <1>8
<1>11. CASE 1 = r + w
  <2>1. r = 1 /\ w = 0
    BY <1>3, <1>4, <1>11
  <2> QED  BY <1>1, <1>2, <1>4, <1>9, <2>1, SequenceEmpty
<1>12. CASE 1 # r + w
  <2>1. client'[c].at = "range" /\ client'[c].due = 2
    <3>1. left = 2
      BY <1>6, <1>7, <1>12
    <3> QED  BY <1>8, <3>1 DEF Reads
  <2>2. r - 1 \in Nat /\ r - 1 = Len(replies'[c])
    BY <1>1, <1>2, <1>3
  <2>3. \A x \in 1 .. r - 1 : Half(c, replies[c][x], x = (r - 1) + Len(Way))'
    <3>1. SUFFICES ASSUME NEW x \in 1 .. r - 1
                   PROVE  Half(c, replies[c][x], x = (r - 1) + Len(Way))'
      OBVIOUS
    <3>2. PICK l : l = replies[c][x + 1]
      OBVIOUS
    <3>3. replies'[c][x] = l
      BY <1>2, <2>2, <3>2
    <3>4. Half(c, l, x + 1 = r + w)
      <4>1. x + 1 \in 1 .. r
        OBVIOUS
      <4> QED  BY <1>1, <3>2, <4>1
    <3>5. (x + 1 = r + w) = (x = (r - 1) + w)
      BY <1>4
    <3>6. Half(c, l, x = (r - 1) + w)
      BY <3>4, <3>5 DEF Half
    <3>7. PICK last \in BOOLEAN : last = (x = (r - 1) + w)
      OBVIOUS
    <3>8. Half(c, l, last)'
      BY <1>9, <3>6, <3>7
    <3> QED  BY <1>9, <3>3, <3>7, <3>8 DEF Half
  <2>4. \A x \in 1 .. Len(Way') : Half(c, Way[x], x = Len(Way))'
    <3>1. SUFFICES ASSUME NEW x \in 1 .. w
                   PROVE  Half(c, Way[x], x = Len(Way))'
      BY <1>9
    <3>2. PICK l : l = Way[x]
      OBVIOUS
    <3>3. Half(c, l, x = w)
      BY <1>1, <3>2
    <3>4. PICK last \in BOOLEAN : last = (x = w)
      OBVIOUS
    <3>5. Half(c, l, last)'
      BY <1>9, <3>3, <3>4
    <3> QED  BY <1>9, <3>2, <3>4, <3>5 DEF Half
  <2> QED  BY <2>1, <2>2, <2>3, <2>4 DEF HalfAnswered
<1> QED  BY <1>11, <1>12

(* A client that takes a reply.                                             *)
LEMMA StageTakes ==
  ASSUME TypeInv, GotInv, NEW c \in Clients, TakeReply(c) \/ TakeRangeReply(c), Stage(c)
  PROVE  Stage(c)'
<1>1. /\ replies[c] # <<>> /\ UNCHANGED <<inbox, box, requests, store, mgr>>
      /\ Len(replies[c]) = 1 => replies'[c] = <<>>
  BY ReplyTaken
<1>2. NoWork' = NoWork /\ Way' = Way /\ Cast' = Cast
  BY <1>1 DEF NoWork, Work, Way, Busy, Cast, Broadcasting
<1>3. client[c].at # "idle" /\ UnderWay(c)
  BY <1>1 DEF Stage, Free, Requested, Casting
<1>4. requests = <<>> /\ ~Cast /\ (Replied(c) \/ RangeAnswered(c) \/ RangeHalved(c))
  BY <1>1, <1>3 DEF UnderWay, Posted, Answered, RangeAsked
<1>5. CASE Replied(c)
  BY <1>1, <1>2, <1>4, <1>5 DEF Replied, Free, Stage
<1>6. CASE RangeAnswered(c)
  <2>1. Free(c)' \/ RangeAnswered(c)'
    BY <1>4, <1>6, RangeRead
  <2>2. RangeAnswered(c)' => client'[c].at # "idle"
    BY DEF RangeAnswered, Records
  <2> QED  BY <1>1, <1>2, <1>4, <2>1, <2>2 DEF Stage, UnderWay
<1>7. CASE RangeHalved(c)
  <2>1. PICK left \in Pids :
       /\ \A p \in Pids : p # left => Stray(c, p)
       /\ \/ HalfAsked(c, left)
          \/ None(Work(left), Plain) /\ HalfAnswered(c)
          \/ None(Work(left), Plain) /\ Way = <<>> /\ replies[c] = <<>>
    BY <1>7 DEF RangeHalved
  <2>2. None(Work(left), Plain) /\ HalfAnswered(c) /\ Ranging(c)
    BY <1>1, <1>7, <2>1 DEF HalfAsked, RangeHalved
  <2>3. PICK due : Reads(c, due) /\ (HalfAnswered(c)' \/ (Way' = <<>> /\ replies'[c] = <<>>))
    BY <2>2, HalfRead
  <2>4. /\ Ranging(c)' /\ \A p \in Pids : Work(p)' = Work(p) /\ (Stray(c, p) => Stray(c, p)')
    BY <1>1, <2>2, <2>3, ReadsSame
  <2>5. RangeHalved(c)'
    BY <2>1, <2>2, <2>3, <2>4 DEF RangeHalved
  <2>6. client'[c].at # "idle"
    BY <2>3 DEF Reads
  <2> QED  BY <1>1, <1>2, <1>4, <2>5, <2>6 DEF Stage, UnderWay
<1> QED  BY <1>4, <1>5, <1>6, <1>7

(* A client gives up only what nothing is under way for.                    *)
LEMMA StageForgets ==
  ASSUME TypeInv, PidInv, NEW c \in Clients, ClientTimeout(c), Settled, Stage(c)
  PROVE  (client'[c].at = "idle" /\ Halted') \/ Stage(c)'
<1>1. /\ replies[c] = <<>> /\ Forgotten(c) /\ client' = [client EXCEPT ![c] = [Idle EXCEPT !.ctr = client[c].ctr]]
      /\ UNCHANGED <<inbox, box, requests, replies, store, mgr>>
  BY DEF ClientTimeout, mail, data
<1>2. client'[c].at = "idle"
  BY <1>1 DEF TypeInv, ClientType, Idle
<1>3. mgr.wait # "ended"
  BY DEF PidInv, Settled
<1>4. CASE mgr.wait \in {"dead", "rollback"}
  BY <1>1, <1>2, <1>4 DEF Halted
<1>5. CASE mgr.wait \notin {"dead", "rollback"}
  <2>1. /\ \A k \in DOMAIN requests : requests[k].pid # c
        /\ \A k \in DOMAIN box["answer"] : box["answer"][k].pid # c
        /\ mgr.msg.pid # c
        /\ \A p \in Pids : \A k \in DOMAIN inbox[p] : inbox[p][k].pid # c
    BY <1>1, <1>3, <1>5 DEF Forgotten
  <2>2. /\ \A k \in DOMAIN Way : Way[k].pid # c
        /\ \A p \in Pids : \A k \in DOMAIN Work(p) : Work(p)[k].pid # c
    BY <2>1 DEF Way, Work
  <2>3. Way \in Seq(Asking)
    BY DEF Way, TypeInv, MailType, Boxes
  <2>4. Len(Way) \in Nat /\ (Len(Way) > 0 => 1 \in DOMAIN Way /\ 1 \in 1 .. Len(Way))
        /\ (Len(Way) = 0 => Way = <<>>)
    <3>1. PICK s \in Seq(Asking) : s = Way
      BY <2>3
    <3> QED  BY <3>1, SequenceEmpty
  <2>5. \A p \in Pids : \A m : Mine(c, m) => ~One(Work(p), Plain, m)
    BY <2>2 DEF One, Mine
  <2>6. Len(replies[c]) = 0
    BY <1>1
  <2>7. Free(c)
    <3>1. ~Requested(c)
      <4>1. Len(requests) = 1 => 1 \in DOMAIN requests
        <5>1. PICK s \in Seq(Asking) : s = requests
          BY DEF TypeInv, MailType
        <5> QED  BY <5>1
      <4> QED  BY <2>1, <4>1 DEF Requested, Mine
    <3>2. ~Casting(c)
      BY <1>5, <2>1 DEF Casting, Cast, Mine
    <3>3. SUFFICES ASSUME UnderWay(c), client[c].at # "idle"
                   PROVE  Free(c)
      BY <3>1, <3>2 DEF Stage
    <3>4. ~Posted(c) /\ ~RangeAsked(c)
      BY <2>5 DEF Posted, RangeAsked, OnlyAt, IsPart
    <3>5. ~Answered(c) /\ ~Replied(c)
      BY <2>2, <2>4, <2>6 DEF Answered, Replied, Settles, Mine
    <3>6. ~RangeAnswered(c)
      <4>1. SUFFICES ASSUME NEW g \in Nat, NEW r \in Nat, Records(c, g, r)
                     PROVE  FALSE
        BY DEF RangeAnswered
      <4>2. Len(Way) > 0 /\ r = 0
        BY <2>4, <2>6, <4>1 DEF Records
      <4>3. Record(c, Way[1], g + r + 1)
        BY <2>4, <4>1, <4>2 DEF Records
      <4> QED  BY <2>2, <2>4, <4>2, <4>3 DEF Record, Mine
    <3>7. CASE RangeHalved(c)
      <4>1. PICK left \in Pids :
           /\ \A p \in Pids : p # left => Stray(c, p)
           /\ \/ HalfAsked(c, left)
              \/ None(Work(left), Plain) /\ HalfAnswered(c)
              \/ None(Work(left), Plain) /\ Way = <<>> /\ replies[c] = <<>>
        BY <3>7 DEF RangeHalved
      <4>2. \A p \in Pids : p # left => None(Work(p), Plain)
        BY <2>5, <4>1 DEF Stray, IsPart
      <4>3. ~HalfAsked(c, left)
        BY <2>5 DEF HalfAsked, IsPart
      <4>4. HalfAnswered(c) => Way = <<>>
        <5>1. HalfAnswered(c) => \A x \in 1 .. Len(Way) : Half(c, Way[x], x = Len(Way))
          BY DEF HalfAnswered
        <5> QED  BY <2>2, <2>4, <5>1 DEF Half, Mine
      <4>5. NoWork /\ Way = <<>>
        BY <4>1, <4>2, <4>3, <4>4 DEF NoWork
      <4> QED  BY <1>1, <3>3, <4>5 DEF Free, UnderWay
    <3> QED  BY <3>3, <3>4, <3>5, <3>6, <3>7 DEF UnderWay
  <2> QED  BY <1>1, <2>7 DEF Free, Stage, NoWork, Work, Way, Busy, Cast, Broadcasting
<1> QED  BY <1>4, <1>5

(* The manager passes the oldest answer on.                                 *)
Passes(c) ==
  /\ UNCHANGED <<requests, client>> /\ NoWork' = NoWork /\ ~Busy /\ ~Cast /\ ~Cast'
  /\ \A p \in Pids : Work(p)' = Work(p) /\ store'[p] = store[p]
  /\ Len(Way) \in Nat \ {0} /\ Len(Way') = Len(Way) - 1
  /\ \A x \in 1 .. Len(Way') : Way'[x] = Way[x + 1]
  /\ Len(Way) = 1 => Way' = <<>>

(* To the client whose answer it is.                                        *)
Gets(c) ==
  /\ Len(replies[c]) \in Nat /\ Len(replies'[c]) = Len(replies[c]) + 1
  /\ \A x \in 1 .. Len(replies[c]) : replies'[c][x] = replies[c][x]
  /\ replies'[c][Len(replies[c]) + 1] = Way[1]

(* What is left of the answers, and what the client gets.                   *)
LEMMA AnswerPasses ==
  ASSUME TypeInv, NEW c \in Clients, ForwardAnswer
  PROVE  Passes(c) /\ (Way[1].pid = c => Gets(c))
<1>1. /\ mgr.wait = "main" /\ box["answer"] # <<>> /\ box' = [box EXCEPT !["answer"] = Tail(@)]
      /\ UNCHANGED <<requests, client, inbox, store>>
  BY DEF ForwardAnswer, Outside, data
<1>2. mgr'.wait \in {"main", "ended", "path"}
  <2>1. PICK changed : EndBody(changed, Len(servers))
    BY DEF ForwardAnswer
  <2> QED  BY <2>1, BodyTurns DEF TypeInv, HistoryType
<1>3. ~Busy /\ ~Cast /\ ~Busy' /\ ~Cast'
  BY <1>1, <1>2 DEF Busy, TransferWaits, Cast, Broadcasting
<1>4. Way = box["answer"] /\ Way' = box'["answer"] /\ \A p \in Pids : Work(p)' = Work(p)
  BY <1>1, <1>3 DEF Way, Work
<1>5. PICK s \in Seq(Asking) : s = Way
  <2>1. Way \in Seq(Asking)
    BY <1>4 DEF TypeInv, MailType, Boxes
  <2> QED  BY <2>1
<1>6. Way' = Tail(s) /\ s # <<>>
  BY <1>1, <1>4, <1>5 DEF TypeInv, MailType, Boxes
<1>7. /\ Len(s) \in Nat \ {0} /\ Len(Tail(s)) = Len(s) - 1 /\ Head(s) = s[1]
      /\ \A x \in 1 .. Len(Tail(s)) : Tail(s)[x] = s[x + 1]
  <2>1. Len(s) # 0
    BY <1>6, SequenceEmpty
  <2> QED  BY <1>6, <2>1
<1>8. Len(s) = 1 => Tail(s) = <<>>
  <2>1. PICK t \in Seq(Asking) : t = Tail(s)
    BY <1>6, TailType
  <2>2. Len(s) = 1 => Len(t) = 0
    BY <1>7, <2>1
  <2> QED  BY <2>1, <2>2, SequenceEmpty
<1>9. Passes(c)
  <2>1. NoWork' = NoWork
    BY <1>4 DEF NoWork
  <2> QED  BY <1>1, <1>3, <1>4, <1>5, <1>6, <1>7, <1>8, <2>1 DEF Passes
<1>10. SUFFICES ASSUME Way[1].pid = c
                PROVE  Gets(c)
  BY <1>9
<1>11. PICK l \in Seq(Asking) : l = replies[c]
  BY DEF TypeInv, MailType
<1>12. PICK m : m = Way[1]
  OBVIOUS
<1>13. Reply(m)
  <2>1. Head(box["answer"]) = m
    BY <1>4, <1>5, <1>7, <1>12
  <2> HIDE DEF Reply
  <2> QED  BY <2>1 DEF ForwardAnswer
<1>14. replies'[c] = Append(l, m)
  BY <1>10, <1>11, <1>12, <1>13 DEF Reply
<1>15. /\ Len(l) \in Nat /\ Len(Append(l, m)) = Len(l) + 1
       /\ \A x \in 1 .. Len(l) : Append(l, m)[x] = l[x]
       /\ Append(l, m)[Len(l) + 1] = m
  OBVIOUS
<1> QED  BY <1>11, <1>12, <1>14, <1>15 DEF Gets

(* What the client waits for does not change with it.                       *)
LEMMA PassesSame ==
  ASSUME NEW c, Passes(c)
  PROVE  /\ Ranging(c)' = Ranging(c) /\ Whole(c)' = Whole(c)
         /\ \A p \in Pids : Stray(c, p) => Stray(c, p)'
         /\ \A m : Settles(c, m) => Settles(c, m)'
         /\ \A m, x : Record(c, m, x) => Record(c, m, x)'
         /\ \A m, last : Half(c, m, last) => Half(c, m, last)'
<1>1. UNCHANGED client /\ \A p \in Pids : Work(p)' = Work(p) /\ store'[p] = store[p]
  BY DEF Passes
<1>2. Ranging(c)' = Ranging(c) /\ \A m : Mine(c, m)' = Mine(c, m)
  BY <1>1 DEF Ranging, Mine
<1>3. Whole(c)' = Whole(c)
  <2>1. PICK e : e = client[c].coll
    OBVIOUS
  <2>2. StoredIn(e)' = StoredIn(e)
    BY <1>1 DEF StoredIn
  <2>3. Whole(c)' = InRange(StoredIn(e)', client[c].lo, client[c].hi)
    BY <1>1, <2>1 DEF Whole
  <2> QED  BY <2>1, <2>2, <2>3 DEF Whole
<1>4. \A m : IsPart(c, m)' = IsPart(c, m)
  BY <1>1, <1>2 DEF IsPart
<1>5. \A p \in Pids : Stray(c, p) => Stray(c, p)'
  BY <1>1, <1>4 DEF Stray
<1>6. \A m, x : Record(c, m, x) => Record(c, m, x)'
  BY <1>2, <1>3 DEF Record
<1>7. \A m, last : Half(c, m, last) => Half(c, m, last)'
  BY <1>2 DEF Half
<1> QED  BY <1>2, <1>3, <1>5, <1>6, <1>7 DEF Settles

(* A record of a range on its way.                                          *)
LEMMA RangePasses ==
  ASSUME TypeInv, NEW c, Passes(c), Gets(c), RangeAnswered(c)
  PROVE  RangeAnswered(c)'
<1>1. PICK g \in Nat : \E r \in Nat : Records(c, g, r)
  BY DEF RangeAnswered
<1>2. PICK r \in Nat : Records(c, g, r)
  BY <1>1
<1>3. r = Len(replies[c]) /\ g = Len(client[c].got)
  BY <1>2 DEF Records
<1>4. PICK w \in Nat : w = Len(Way)
  BY DEF Passes
<1>5. w # 0 /\ Len(Way') = w - 1
  BY <1>4 DEF Passes
<1>6. /\ Ranging(c)' = Ranging(c) /\ Whole(c)' = Whole(c) /\ UNCHANGED client
      /\ \A m, x : Record(c, m, x) => Record(c, m, x)'
  BY PassesSame DEF Passes
<1>7. g = Len(client'[c].got) /\ r + 1 = Len(replies'[c])
  BY <1>3, <1>6 DEF Gets
<1>8. g + (r + 1) + Len(Way') = Len(Whole(c)') /\ g < Len(Whole(c)')
  <2>1. g + r + w = Len(Whole(c)) /\ g < Len(Whole(c))
    BY <1>2, <1>4 DEF Records
  <2>2. g + (r + 1) + (w - 1) = g + r + w
    OBVIOUS
  <2> QED  BY <1>5, <1>6, <2>1, <2>2
<1>9. /\ IF g = 0 THEN client'[c].at = "asked" ELSE client'[c].at = "range" /\ client'[c].due = 1
      /\ \A x \in 1 .. g : client'[c].got[x] = Whole(c)'[x]
  BY <1>2, <1>6 DEF Records
<1>10. \A x \in 1 .. r + 1 : Record(c, replies[c][x], g + x)'
  <2>1. SUFFICES ASSUME NEW x \in 1 .. r + 1
                 PROVE  Record(c, replies[c][x], g + x)'
    OBVIOUS
  <2>2. CASE x \in 1 .. r
    <3>1. PICK l : l = replies[c][x]
      OBVIOUS
    <3>2. replies'[c][x] = l
      BY <1>3, <2>2, <3>1 DEF Gets
    <3>3. Record(c, l, g + x)
      BY <1>2, <2>2, <3>1 DEF Records
    <3>4. Record(c, l, g + x)'
      BY <1>6, <3>3
    <3> QED  BY <3>2, <3>4
  <2>3. CASE x = r + 1
    <3>1. PICK l : l = Way[1]
      OBVIOUS
    <3>2. replies'[c][x] = l
      BY <1>3, <2>3, <3>1 DEF Gets
    <3>3. Record(c, l, g + r + 1)
      <4>1. \A y \in 1 .. w : Record(c, Way[y], g + r + y)
        BY <1>2, <1>4 DEF Records
      <4>2. 1 \in 1 .. w
        BY <1>5
      <4> QED  BY <3>1, <4>1, <4>2
    <3>4. g + r + 1 = g + x
      BY <2>3
    <3>5. Record(c, l, g + x)'
      BY <1>6, <3>3, <3>4
    <3> QED  BY <3>2, <3>5
  <2> QED  BY <2>1, <2>2, <2>3
<1>11. \A x \in 1 .. Len(Way') : Record(c, Way[x], g + (r + 1) + x)'
  <2>1. SUFFICES ASSUME NEW x \in 1 .. w - 1
                 PROVE  Record(c, Way[x], g + (r + 1) + x)'
    BY <1>5
  <2>2. PICK l : l = Way[x + 1]
    OBVIOUS
  <2>3. Way'[x] = l
    BY <1>5, <2>2 DEF Passes
  <2>4. Record(c, l, g + r + (x + 1))
    <3>1. \A y \in 1 .. w : Record(c, Way[y], g + r + y)
      BY <1>2, <1>4 DEF Records
    <3>2. x + 1 \in 1 .. w
      OBVIOUS
    <3> QED  BY <2>2, <3>1, <3>2
  <2>5. g + r + (x + 1) = g + (r + 1) + x
    OBVIOUS
  <2>6. Record(c, l, g + (r + 1) + x)'
    BY <1>6, <2>4, <2>5
  <2> QED  BY <2>3, <2>6
<1>12. Records(c, g, r + 1)'
  BY <1>7, <1>8, <1>9, <1>10, <1>11 DEF Records
<1>13. r + 1 \in Nat /\ NoWork' = NoWork
  BY DEF Passes
<1> QED  BY <1>6, <1>12, <1>13 DEF RangeAnswered

(* One of the first of its two parts.                                       *)
LEMMA HalfPasses ==
  ASSUME TypeInv, NEW c, Passes(c), Gets(c), HalfAnswered(c)
  PROVE  HalfAnswered(c)'
<1>1. PICK r \in Nat :
        /\ r = Len(replies[c])
        /\ \A x \in 1 .. r : Half(c, replies[c][x], x = r + Len(Way))
        /\ \A x \in 1 .. Len(Way) : Half(c, Way[x], x = Len(Way))
  BY DEF HalfAnswered
<1>2. PICK w \in Nat : w = Len(Way)
  BY DEF Passes
<1>3. w # 0 /\ Len(Way') = w - 1 /\ UNCHANGED client
  BY <1>2 DEF Passes
<1>4. \A m, last : Half(c, m, last) => Half(c, m, last)'
  BY PassesSame
<1>5. r + 1 \in Nat /\ r + 1 = Len(replies'[c])
  BY <1>1 DEF Gets
<1>6. \A x \in 1 .. r + 1 : Half(c, replies[c][x], x = (r + 1) + Len(Way))'
  <2>1. SUFFICES ASSUME NEW x \in 1 .. r + 1
                 PROVE  Half(c, replies[c][x], x = (r + 1) + Len(Way))'
    OBVIOUS
  <2>2. PICK last \in BOOLEAN : last = (x = r + w)
    OBVIOUS
  <2>3. (x = (r + 1) + Len(Way')) = last
    BY <1>3, <2>2
  <2>4. PICK l : l = replies'[c][x]
    OBVIOUS
  <2>5. Half(c, l, last)
    <3>1. CASE x \in 1 .. r
      <4>1. l = replies[c][x]
        BY <1>1, <2>4, <3>1 DEF Gets
      <4> QED  BY <1>1, <1>2, <2>2, <3>1, <4>1
    <3>2. CASE x = r + 1
      <4>1. l = Way[1]
        BY <1>1, <2>4, <3>2 DEF Gets
      <4>2. Half(c, l, 1 = w)
        BY <1>1, <1>2, <1>3, <4>1
      <4>3. (1 = w) = last
        BY <2>2, <3>2
      <4> QED  BY <4>2, <4>3 DEF Half
    <3> QED  BY <3>1, <3>2
  <2>6. Half(c, l, last)'
    BY <1>4, <2>5
  <2> QED  BY <2>3, <2>4, <2>6 DEF Half
<1>7. \A x \in 1 .. Len(Way') : Half(c, Way[x], x = Len(Way))'
  <2>1. SUFFICES ASSUME NEW x \in 1 .. w - 1
                 PROVE  Half(c, Way[x], x = Len(Way))'
    BY <1>3
  <2>2. PICK last \in BOOLEAN : last = (x = w - 1)
    OBVIOUS
  <2>3. PICK l : l = Way[x + 1]
    OBVIOUS
  <2>4. Way'[x] = l
    BY <1>3, <2>3 DEF Passes
  <2>5. Half(c, l, last)
    <3>1. x + 1 \in 1 .. w /\ (x + 1 = w) = last
      BY <2>2
    <3>2. Half(c, l, x + 1 = w)
      BY <1>1, <1>2, <2>3, <3>1
    <3> QED  BY <3>1, <3>2 DEF Half
  <2>6. Half(c, l, last)'
    BY <1>4, <2>5
  <2> QED  BY <1>3, <2>2, <2>4, <2>6 DEF Half
<1> QED  BY <1>3, <1>5, <1>6, <1>7 DEF HalfAnswered

(* The manager forwards an answer.                                          *)
LEMMA StageAnswers ==
  ASSUME TypeInv, NEW c \in Clients, ForwardAnswer, Stage(c)
  PROVE  Stage(c)'
<1>1. Passes(c) /\ (Way[1].pid = c => Gets(c))
  BY AnswerPasses
<1>2. PICK w \in Nat : w = Len(Way)
  BY <1>1 DEF Passes
<1>3. /\ w # 0 /\ Way # <<>> /\ UNCHANGED <<requests, client>> /\ NoWork' = NoWork /\ ~Cast /\ ~Cast'
      /\ \A p \in Pids : Work(p)' = Work(p)
      /\ w = 1 => Way' = <<>>
  BY <1>1, <1>2 DEF Passes
<1>4. /\ Ranging(c)' = Ranging(c)
      /\ \A p \in Pids : Stray(c, p) => Stray(c, p)'
      /\ \A m : Settles(c, m) => Settles(c, m)'
  BY <1>1, PassesSame
<1>5. client[c].at # "idle" /\ requests = <<>> /\ (Answered(c) \/ RangeAnswered(c) \/ RangeHalved(c))
  BY <1>3 DEF Stage, Free, Requested, Casting, UnderWay, Posted, Replied, RangeAsked
<1>6. SUFFICES UnderWay(c)'
  BY <1>3, <1>5 DEF Stage
<1>7. CASE Answered(c)
  <2>1. Settles(c, Way[1]) /\ replies[c] = <<>> /\ w = 1
    BY <1>2, <1>7 DEF Answered
  <2>2. Gets(c)
    BY <1>1, <2>1 DEF Settles, Mine
  <2>3. Len(replies'[c]) = 1 /\ replies'[c][1] = Way[1]
    BY <2>1, <2>2 DEF Gets
  <2>4. Settles(c, replies[c][1])'
    <3>1. PICK m : m = Way[1]
      OBVIOUS
    <3>2. Settles(c, m)'
      BY <1>4, <2>1, <3>1
    <3> QED  BY <2>3, <3>1, <3>2
  <2> QED  BY <1>3, <1>5, <1>7, <2>1, <2>3, <2>4 DEF UnderWay, Replied, Answered
<1>8. CASE RangeAnswered(c)
  <2>1. Way[1].pid = c
    <3>1. PICK g \in Nat : \E r \in Nat : Records(c, g, r)
      BY <1>8 DEF RangeAnswered
    <3>2. PICK r \in Nat : Records(c, g, r)
      BY <3>1
    <3>3. \A x \in 1 .. w : Record(c, Way[x], g + r + x)
      BY <1>2, <3>2 DEF Records
    <3>4. 1 \in 1 .. w
      BY <1>3
    <3> QED  BY <3>3, <3>4 DEF Record, Mine
  <2>2. RangeAnswered(c)'
    BY <1>1, <1>8, <2>1, RangePasses
  <2> QED  BY <1>3, <1>5, <2>2 DEF UnderWay
<1>9. CASE RangeHalved(c)
  <2>1. PICK left \in Pids :
       /\ \A p \in Pids : p # left => Stray(c, p)
       /\ \/ HalfAsked(c, left)
          \/ None(Work(left), Plain) /\ HalfAnswered(c)
          \/ None(Work(left), Plain) /\ Way = <<>> /\ replies[c] = <<>>
    BY <1>9 DEF RangeHalved
  <2>2. None(Work(left), Plain) /\ HalfAnswered(c)
    BY <1>3, <2>1 DEF HalfAsked
  <2>3. Way[1].pid = c
    <3>1. \A x \in 1 .. w : Half(c, Way[x], x = Len(Way))
      BY <1>2, <2>2 DEF HalfAnswered
    <3>2. 1 \in 1 .. w
      BY <1>3
    <3> QED  BY <3>1, <3>2 DEF Half, Mine
  <2>4. HalfAnswered(c)'
    BY <1>1, <2>2, <2>3, HalfPasses
  <2>5. RangeHalved(c)'
    BY <1>3, <1>4, <1>9, <2>1, <2>2, <2>4 DEF RangeHalved
  <2> QED  BY <1>3, <1>5, <2>5 DEF UnderWay
<1> QED  BY <1>5, <1>7, <1>8, <1>9

(* The one request of a client, in the manager's hands.                     *)
LEMMA RequestComes ==
  ASSUME TypeInv, ForwardRequest, NEW c \in Clients, Stage(c)
  PROVE  /\ Requested(c) /\ Mine(c, Asks) /\ (Ranging(c) => IsPart(c, Asks))
         /\ client'[c] = client[c] /\ client[c].at = "asked" /\ ~Busy /\ ~Cast'
         /\ requests' = <<>> /\ Way' = <<>> /\ replies[c] = <<>> /\ NoWork
         /\ \A p \in Pids : Work(p) = inbox[p] /\ Work(p)' = inbox'[p]
<1>1. /\ mgr.wait = "main" /\ box["answer"] = <<>> /\ requests # <<>> /\ requests' = Tail(requests)
      /\ UNCHANGED <<client, box>> /\ mgr'.wait \in {"main", "ended", "path", "dead"}
  BY ForwardShape
<1>2. Requested(c)
  BY <1>1 DEF Stage, Free, Casting, UnderWay
<1>3. PICK s \in Seq(Asking) : s = requests
  BY DEF TypeInv, MailType
<1>4. Len(s) = 1 /\ Asks = s[1]
  BY <1>2, <1>3 DEF Requested, Asks
<1>5. Tail(s) = <<>>
  <2>1. PICK t \in Seq(Asking) : t = Tail(s)
    BY <1>1, <1>3, TailType
  <2>2. Len(t) = 0
    BY <1>4, <2>1
  <2> QED  BY <2>1, <2>2, SequenceEmpty
<1>6. ~Busy /\ ~Busy' /\ ~Cast'
  BY <1>1 DEF Busy, TransferWaits, Cast, Broadcasting
<1>7. Way' = <<>> /\ \A p \in Pids : Work(p) = inbox[p] /\ Work(p)' = inbox'[p]
  BY <1>1, <1>6 DEF Way, Work
<1> QED  BY <1>1, <1>2, <1>3, <1>4, <1>5, <1>6, <1>7 DEF Requested

(* What a part of a request is, and whom it goes to.                        *)
LEMMA PartGoes ==
  ASSUME TypeInv, PidInv, ForwardRequest, NEW c \in Clients, Stage(c), Spread,
         DOMAIN seps = {} \/ Asks.coll \in DOMAIN seps, NEW a, a = Part
  PROVE  /\ a \in Asking /\ Mine(c, a)' /\ (Ranging(c) => IsPart(c, a)')
         /\ Left \in Nat /\ Right \in Nat /\ a.cnt = Cardinality(Left .. Right)
         /\ \A p \in Pids : IF GoesTo(p) THEN One(Work(p)', Plain, a) ELSE None(Work(p)', Plain)
<1>1. /\ Asks \in Asking /\ Asks.cmd \in Plain
  BY ForwardShape DEF Plain
<1>2. /\ Mine(c, Asks) /\ (Ranging(c) => IsPart(c, Asks)) /\ client'[c] = client[c] /\ NoWork
      /\ \A p \in Pids : Work(p) = inbox[p] /\ Work(p)' = inbox'[p]
  BY RequestComes
<1>3. Left \in Nat /\ Right \in Nat
  BY RouteIsNat DEF Left, Right, TypeInv
<1>4. Cardinality(Left .. Right) \in Nat
  <2>1. IsFiniteSet(Left .. Right)
    BY <1>3, FS_Interval
  <2> QED  BY <2>1, FS_CardinalityType
<1>5. PICK n \in Nat : n = Cardinality(Left .. Right)
  BY <1>4
<1>6. Part = [Asks EXCEPT !.cnt = n]
  BY <1>5 DEF Part
<1>7. /\ Part \in Asking /\ Part.cnt = n /\ Part.cmd = Asks.cmd /\ Part.pid = Asks.pid
      /\ Part.req = Asks.req /\ Part.coll = Asks.coll /\ Part.key = Asks.key /\ Part.hi = Asks.hi
  <2>1. Part \in Asking
    BY <1>1, <1>6, CountedType
  <2> QED  BY <1>1, <1>6, <2>1 DEF Asking, Message
<1>9. Mine(c, a) /\ (Ranging(c) => IsPart(c, a))
  BY <1>2, <1>7 DEF Mine, IsPart
<1>10. Mine(c, a)' /\ (Ranging(c) => IsPart(c, a)')
  BY <1>2, <1>9 DEF Mine, IsPart, Ranging
<1>11. ASSUME NEW p \in Pids
       PROVE  IF GoesTo(p) THEN One(inbox'[p], Plain, Part) ELSE None(inbox'[p], Plain)
  <2>1. None(inbox[p], Plain) /\ inbox[p] \in Seq(Asking)
    BY <1>2 DEF NoWork, TypeInv, MailType
  <2>2. inbox'[p] = IF GoesTo(p) THEN Append(inbox[p], Part) ELSE inbox[p]
    BY DEF Spread
  <2>3. One(Append(inbox[p], Part), Plain, Part)
    BY <1>1, <1>7, <2>1, AppendPuts
  <2> QED  BY <2>1, <2>2, <2>3
<1> QED  BY <1>2, <1>3, <1>5, <1>7, <1>10, <1>11

(* A command that is spread over one server goes to no other.               *)
LEMMA GoesAlone ==
  ASSUME TypeInv, Left = Right, Left \in Nat, NEW p \in Pids, NEW q \in Pids, GoesTo(p), GoesTo(q)
  PROVE  p = q /\ Left \in DOMAIN servers /\ servers[Left] = p
<1>1. \A i \in Left .. Right : i = Left
  OBVIOUS
<1> QED  BY <1>1 DEF GoesTo

(* A command on one key is with one server, or lost.                        *)
LEMMA SpreadPlain ==
  ASSUME TypeInv, PidInv, ForwardRequest, NEW c \in Clients, Stage(c), Spread, UNCHANGED replies,
         DOMAIN seps = {} \/ Asks.coll \in DOMAIN seps, ~Ranging(c)
  PROVE  Stage(c)'
<1>1. PICK a : a = Part
  OBVIOUS
<1>2. /\ a \in Asking /\ Mine(c, a)' /\ Left \in Nat
      /\ \A p \in Pids : IF GoesTo(p) THEN One(Work(p)', Plain, a) ELSE None(Work(p)', Plain)
  BY <1>1, PartGoes
<1>3. /\ Mine(c, Asks) /\ client'[c] = client[c] /\ client[c].at = "asked" /\ ~Cast'
      /\ requests' = <<>> /\ Way' = <<>> /\ replies'[c] = <<>>
  BY RequestComes
<1>4. Left = Right
  BY <1>3 DEF Right, Mine, Ranging
<1>5. CASE \E p \in Pids : GoesTo(p)
  <2>1. PICK p \in Pids : GoesTo(p)
    BY <1>5
  <2>2. \A q \in Pids : q # p => ~GoesTo(q)
    BY <1>2, <1>4, <2>1, GoesAlone
  <2>3. OnlyAt(p, a)'
    BY <1>2, <2>1, <2>2 DEF OnlyAt
  <2>4. Posted(c)'
    BY <1>2, <1>3, <2>3 DEF Posted, Ranging
  <2> QED  BY <1>3, <2>4 DEF Stage, UnderWay
<1>6. CASE ~\E p \in Pids : GoesTo(p)
  BY <1>2, <1>3, <1>6 DEF Stage, Free, NoWork
<1> QED  BY <1>5, <1>6

(* The separators order the servers a range is spread over.                 *)
LEMMA RangeRoutes ==
  ASSUME TypeInv, SepsInv, Asks \in Asking, Asks.cmd = "OBTAIN_BETWEEN",
         DOMAIN seps = {} \/ Asks.coll \in DOMAIN seps
  PROVE  /\ \/ Left = Right
            \/ Left = 1 /\ Right = 2 /\ Asks.coll \in DOMAIN seps /\ Asks.key <= Asks.hi
            \/ Left = 2 /\ Right = 1
         /\ Asks.key \in Keys /\ Asks.hi \in Keys
         /\ Asks.coll \in DOMAIN seps => \A k \in Keys : Asks.key <= k /\ k <= Asks.hi =>
              Left <= Route(Asks.coll, k) /\ Route(Asks.coll, k) <= Right
<1>1. Asks.key \in Keys /\ Asks.hi \in Keys /\ Keys \subseteq Nat
  BY FiniteData DEF Asking
<1>2. Left = Route(Asks.coll, Asks.key) /\ Right = Route(Asks.coll, Asks.hi)
  BY DEF Left, Right
<1>3. CASE DOMAIN seps = {}
  BY <1>1, <1>2, <1>3 DEF Route
<1>4. CASE Asks.coll \in DOMAIN seps
  <2>1. PICK d \in DOMAIN seps : d = Asks.coll
    BY <1>4
  <2>2. \A k \in Keys : Route(d, k) = IF seps[d] # <<>> /\ seps[d][1] <= k THEN 2 ELSE 1
    BY RouteIs
  <2>3. seps[d] # <<>> => seps[d][1] \in Nat
    <3>1. seps[d] \in Seq(Keys \cup {Top})
      BY DEF TypeInv, KnownType, IsMap
    <3>2. Keys \cup {Top} \subseteq Nat
      BY <1>1, ClusterAssumption DEF Top
    <3>3. PICK s \in Seq(Keys \cup {Top}) : s = seps[d]
      BY <3>1
    <3>4. s # <<>> => s[1] \in Keys \cup {Top}
      OBVIOUS
    <3> QED  BY <3>2, <3>3, <3>4
  <2>4. PICK x : x = seps[d][1]
    OBVIOUS
  <2>5. \A k, l \in Nat : k <= l /\ x \in Nat /\ x <= k => x <= l
    OBVIOUS
  <2>6. ASSUME NEW k \in Keys, NEW l \in Keys, k <= l
        PROVE  Route(d, k) <= Route(d, l) /\ Route(d, k) \in {1, 2} /\ Route(d, l) \in {1, 2}
    <3>1. PICK y \in {1, 2} : y = Route(d, k)
      BY <2>2
    <3>2. PICK z \in {1, 2} : z = Route(d, l)
      BY <2>2
    <3>3. y = 2 => z = 2
      <4>1. SUFFICES ASSUME y = 2  PROVE z = 2
        OBVIOUS
      <4>2. seps[d] # <<>> /\ x <= k
        <5>1. y = IF seps[d] # <<>> /\ x <= k THEN 2 ELSE 1
          BY <2>2, <2>4, <3>1
        <5> QED  BY <4>1, <5>1
      <4>3. x <= l
        BY <1>1, <2>3, <2>4, <2>5, <2>6, <4>2
      <4> QED  BY <2>2, <2>4, <3>2, <4>2, <4>3
    <3>4. y <= z
      BY <3>3
    <3> QED  BY <3>1, <3>2, <3>4
  <2>7. PICK y : y = Route(d, Asks.key)
    OBVIOUS
  <2>8. PICK z : z = Route(d, Asks.hi)
    OBVIOUS
  <2>9. Left = y /\ Right = z
    BY <1>2, <2>1, <2>7, <2>8
  <2>10. y \in {1, 2} /\ z \in {1, 2}
    BY <1>1, <2>2, <2>7, <2>8
  <2>11. y = z \/ (y = 1 /\ z = 2 /\ Asks.key <= Asks.hi) \/ (y = 2 /\ z = 1)
    <3>1. ~(Asks.key <= Asks.hi) => Asks.hi <= Asks.key
      <4>1. \A a, b \in Nat : ~(a <= b) => b <= a
        OBVIOUS
      <4>2. Asks.key \in Nat /\ Asks.hi \in Nat
        BY <1>1, FiniteData
      <4> QED  BY <4>1, <4>2
    <3>2. ~(Asks.key <= Asks.hi) => z <= y
      BY <1>1, <2>6, <2>7, <2>8, <3>1
    <3> QED  BY <2>10, <3>2
  <2>12. \A k \in Keys : Asks.key <= k /\ k <= Asks.hi => y <= Route(d, k) /\ Route(d, k) <= z
    BY <1>1, <2>6, <2>7, <2>8
  <2> QED  BY <1>1, <1>4, <2>1, <2>9, <2>11, <2>12
<1> QED  BY <1>3, <1>4

(* Of a range for one server no other has a key.                            *)
LEMMA RangeAlone ==
  ASSUME TypeInv, PidInv, SepsInv, HomeInv, ApartInv, NewInv, Settled, mgr.wait = "main",
         NEW c, Ranging(c), Mine(c, Asks), IsPart(c, Asks),
         Asks \in Asking, DOMAIN seps = {} \/ Asks.coll \in DOMAIN seps,
         Left = Right, NEW p \in Pids, GoesTo(p)
  PROVE  Sole(c, p)
<1>1. /\ Asks.cmd = "OBTAIN_BETWEEN" /\ Asks.coll = client[c].coll /\ Asks.key = client[c].lo
      /\ Asks.hi = client[c].hi
  BY DEF Mine, IsPart, Ranging
<1>2. Running
  BY DEF Running
<1>3. SUFFICES ASSUME NEW q \in Pids, q # p, Asks.coll \in DOMAIN store[q],
                      NEW k \in store[q][Asks.coll], Asks.key <= k, k <= Asks.hi
               PROVE  FALSE
  BY <1>1 DEF Sole
<1>4. k \in Keys
  BY <1>3 DEF TypeInv, ServersType, IsMap
<1>5. PICK j \in DOMAIN servers : servers[j] = q
  BY <1>3 DEF HomeInv, Nothing, IsServer
<1>6. Asks.coll \in DOMAIN seps
  BY <1>2, <1>3 DEF NewInv
<1>7. Belongs(j, Asks.coll, k)
  BY <1>2, <1>3, <1>5, <1>6 DEF ApartInv, Moved
<1>8. j \in {1, 2}
  BY ServerPids
<1>9. j = Route(Asks.coll, k) /\ Route(Asks.coll, k) \in {1, 2}
  BY <1>4, <1>6, <1>7, <1>8, RouteBelongs
<1>10. Left <= Route(Asks.coll, k) /\ Route(Asks.coll, k) <= Right /\ Left \in Nat
  BY <1>1, <1>3, <1>4, <1>6, RangeRoutes, RouteIsNat DEF TypeInv, Left
<1>11. j = Left
  BY <1>9, <1>10
<1>12. servers[Left] = p
  BY <1>10, GoesAlone
<1> QED  BY <1>3, <1>5, <1>11, <1>12

(* A range for one server is asked of the one that has its keys.            *)
LEMMA SpreadOne ==
  ASSUME TypeInv, PidInv, SepsInv, HomeInv, ApartInv, NewInv, Settled,
         ForwardRequest, NEW c \in Clients, Stage(c), Spread, UNCHANGED replies,
         DOMAIN seps = {} \/ Asks.coll \in DOMAIN seps, Ranging(c), Left = Right
  PROVE  Stage(c)'
<1>1. PICK a : a = Part
  OBVIOUS
<1>2. /\ a \in Asking /\ IsPart(c, a)' /\ Left \in Nat /\ a.cnt = Cardinality(Left .. Right)
      /\ \A p \in Pids : IF GoesTo(p) THEN One(Work(p)', Plain, a) ELSE None(Work(p)', Plain)
  BY <1>1, PartGoes
<1>3. /\ Mine(c, Asks) /\ IsPart(c, Asks)
      /\ client'[c] = client[c] /\ client[c].at = "asked" /\ ~Cast'
      /\ requests' = <<>> /\ Way' = <<>> /\ replies'[c] = <<>>
  BY RequestComes
<1>4. mgr.wait = "main" /\ Asks \in Asking /\ UNCHANGED store
  BY ForwardShape
<1>5. CASE \E p \in Pids : GoesTo(p)
  <2>1. PICK p \in Pids : GoesTo(p)
    BY <1>5
  <2>2. \A q \in Pids : q # p => ~GoesTo(q)
    BY <1>2, <2>1, GoesAlone
  <2>3. OnlyAt(p, a)'
    BY <1>2, <2>1, <2>2 DEF OnlyAt
  <2>4. Sole(c, p)
    BY <1>3, <1>4, <2>1, RangeAlone
  <2>5. Sole(c, p)'
    BY <1>3, <1>4, <2>4 DEF Sole
  <2>6. a.cnt = 1
    <3>1. PICK n \in Nat : n = Left
      BY <1>2
    <3>2. n .. n = {n}
      OBVIOUS
    <3>3. Cardinality({n}) = 1
      BY FS_Singleton
    <3> QED  BY <1>2, <3>1, <3>2, <3>3
  <2>7. RangeAsked(c)'
    BY <1>2, <1>3, <2>3, <2>5, <2>6 DEF RangeAsked, Ranging
  <2> QED  BY <1>3, <2>7 DEF Stage, UnderWay
<1>6. CASE ~\E p \in Pids : GoesTo(p)
  BY <1>2, <1>3, <1>6 DEF Stage, Free, NoWork
<1> QED  BY <1>5, <1>6

(* A range for two servers ends the second one, which has not its least key.*)
LEMMA SpreadTwo ==
  ASSUME TypeInv, PidInv, SepsInv, FullInv, ApartInv, Settled,
         ForwardRequest, NEW c \in Clients, Stage(c), Spread, UNCHANGED replies, servers # <<>>,
         Asks.coll \in DOMAIN seps, Ranging(c), Left = 1, Right = 2, Asks.key <= Asks.hi
  PROVE  Stage(c)'
<1>1. PICK a : a = Part
  OBVIOUS
<1>2. /\ a \in Asking /\ IsPart(c, a)' /\ a.cnt = Cardinality(Left .. Right)
      /\ \A p \in Pids : IF GoesTo(p) THEN One(Work(p)', Plain, a) ELSE None(Work(p)', Plain)
  BY <1>1, PartGoes
<1>3. /\ Mine(c, Asks) /\ IsPart(c, Asks)
      /\ client'[c] = client[c] /\ client[c].at = "asked" /\ ~Cast'
      /\ requests' = <<>> /\ Way' = <<>> /\ replies'[c] = <<>>
  BY RequestComes
<1>4. /\ mgr.wait = "main" /\ Asks \in Asking /\ UNCHANGED <<store, proc>>
  BY ForwardShape
<1>5. /\ Asks.cmd = "OBTAIN_BETWEEN" /\ Asks.coll = client[c].coll /\ Asks.key = client[c].lo
      /\ Asks.key \in Keys /\ client[c].lo <= client[c].hi
  BY <1>3, <1>4 DEF Mine, IsPart, Ranging, Asking
<1>6. a.cnt = 2
  <2>1. PICK l \in Int : l = Left
    OBVIOUS
  <2>2. PICK r \in Int : r = Right
    OBVIOUS
  <2>3. Cardinality(l .. r) = IF l > r THEN 0 ELSE r - l + 1
    BY FS_Interval
  <2>4. Cardinality(l .. r) = 2
    BY <2>1, <2>2, <2>3
  <2> QED  BY <1>2, <2>1, <2>2, <2>4
<1>7. 1 \in DOMAIN servers /\ servers[1] \in Pids /\ DOMAIN servers \subseteq {1, 2}
  <2>1. 1 \in DOMAIN servers
    <3>1. PICK s \in Seq(Pids) : s = servers
      BY ServerPids
    <3>2. Len(s) # 0
      BY <3>1, SequenceEmpty
    <3> QED  BY <3>1, <3>2
  <2> QED  BY <2>1, ServerPids
<1> DEFINE p1 == servers[1]
           coll == client[c].coll
<1>8. ASSUME NEW p \in Pids, p # p1, GoesTo(p)
      PROVE  /\ 2 \in DOMAIN servers /\ p = servers[2] /\ proc[p] = "up" /\ p1 # p
             /\ HasAll(2) \/ (DOMAIN store[p] = {} /\ proc[p1] # "up")
  <2>1. PICK i \in DOMAIN servers : servers[i] = p /\ proc[p] = "up"
    BY <1>8 DEF GoesTo
  <2>2. i = 2
    BY <1>7, <1>8, <2>1
  <2>3. HasAll(2) \/ Blank
    BY <1>4, <2>1, <2>2 DEF FullInv
  <2>4. ~Late
    BY <1>4 DEF Late
  <2> QED  BY <1>8, <2>1, <2>2, <2>3, <2>4 DEF Blank
<1>9. \A j \in DOMAIN servers : HasAll(j) => coll \in DOMAIN store[servers[j]]
  <2>1. \A j : ~Passed(j)
    BY <1>4 DEF Passed, Broadcasting
  <2> QED  BY <1>5, <2>1 DEF HasAll
<1>10. \A p \in Pids : proc[p] = "up" /\ p = p1 => GoesTo(p)
  <2>1. 1 \in Left .. Right
    OBVIOUS
  <2> QED  BY <1>7, <2>1 DEF GoesTo
<1>11. ASSUME NEW p \in Pids, p # p1, GoesTo(p), HasAll(2)
       PROVE  Stray(c, p)'
  <2>1. 2 \in DOMAIN servers /\ p = servers[2] /\ coll \in DOMAIN store[p]
    BY <1>8, <1>9, <1>11
  <2>2. client[c].lo \notin store[p][coll]
    <3>1. SUFFICES ASSUME client[c].lo \in store[p][coll]  PROVE FALSE
      OBVIOUS
    <3>2. Belongs(2, coll, client[c].lo)
      <4>1. Running
        BY <1>4 DEF Running
      <4>2. mgr.wait \notin {"add", "dispose"}
        BY <1>4
      <4> QED  BY <1>5, <2>1, <3>1, <4>1, <4>2 DEF ApartInv, Moved
    <3>3. 2 = Route(Asks.coll, Asks.key)
      BY <1>5, <3>2, RouteBelongs
    <3> QED  BY <3>3 DEF Left
  <2>3. One(Work(p)', Plain, a) /\ IsPart(c, a)'
    BY <1>2, <1>11
  <2> QED  BY <1>2, <1>3, <1>4, <2>1, <2>2, <2>3 DEF Stray
<1>12. ASSUME NEW p \in Pids, ~GoesTo(p)
       PROVE  None(Work(p)', Plain) /\ Stray(c, p)'
  BY <1>2, <1>12 DEF Stray
<1>13. Ranging(c)'
  BY <1>3 DEF Ranging
<1>14. SUFFICES Free(c)' \/ RangeAsked(c)' \/ RangeHalved(c)'
  BY <1>3 DEF Stage, UnderWay
<1>15. CASE proc[p1] = "up"
  <2>1. HasAll(1) /\ GoesTo(p1)
    BY <1>4, <1>7, <1>10, <1>15 DEF FullInv
  <2>2. HalfAsked(c, p1)'
    <3>1. coll \in DOMAIN store[p1]
      BY <1>7, <1>9, <2>1
    <3>3. PICK p \in Pids : p = p1
      BY <1>7
    <3>4. One(Work(p)', Plain, a) /\ IsPart(c, a)'
      BY <1>2, <2>1, <3>3
    <3>5. HalfAsked(c, p)'
      BY <1>2, <1>3, <1>4, <1>5, <1>6, <3>1, <3>3, <3>4 DEF HalfAsked
    <3>6. UNCHANGED servers
      BY ForwardShape
    <3> QED  BY <3>3, <3>5, <3>6
  <2>3. \A p \in Pids : p # p1 => Stray(c, p)'
    <3>1. TAKE p \in Pids
    <3>2. CASE GoesTo(p) /\ p # p1
      BY <1>8, <1>11, <1>15, <3>2
    <3>3. CASE ~GoesTo(p)
      BY <1>12, <3>3
    <3> QED  BY <3>2, <3>3
  <2>4. UNCHANGED servers
    BY ForwardShape
  <2>5. PICK p \in Pids : p = p1
    BY <1>7
  <2>6. HalfAsked(c, p)' /\ \A q \in Pids : q # p => Stray(c, q)'
    BY <2>2, <2>3, <2>4, <2>5
  <2>7. RangeHalved(c)'
    BY <1>13, <2>6 DEF RangeHalved
  <2> QED  BY <2>7
<1>16. CASE proc[p1] # "up"
  <2>1. ~GoesTo(p1)
    BY <1>16 DEF GoesTo
  <2>2. CASE \E p \in Pids : GoesTo(p)
    <3>1. PICK p \in Pids : GoesTo(p)
      BY <2>2
    <3>2. p # p1 /\ 2 \in DOMAIN servers /\ p = servers[2]
      BY <1>8, <2>1, <3>1
    <3>3. \A q \in Pids : q # p => ~GoesTo(q)
      BY <1>8, <2>1, <3>2
    <3>4. CASE HasAll(2)
      <4>1. Stray(c, p)'
        BY <1>11, <3>1, <3>2, <3>4
      <4>2. \A q \in Pids : q # p1 => Stray(c, q)'
        BY <1>12, <3>3, <4>1
      <4>3. PICK left \in Pids : left = p1
        BY <1>7
      <4>4. None(Work(left)', Plain)
        BY <1>12, <2>1, <4>3
      <4>5. RangeHalved(c)'
        BY <1>3, <1>13, <4>2, <4>3, <4>4 DEF RangeHalved
      <4> QED  BY <4>5
    <3>5. CASE DOMAIN store[p] = {}
      <4>1. OnlyAt(p, a)'
        BY <1>2, <3>1, <3>3 DEF OnlyAt
      <4>2. RangeAsked(c)'
        BY <1>2, <1>3, <1>4, <1>13, <3>5, <4>1 DEF RangeAsked
      <4> QED  BY <4>2
    <3> QED  BY <1>8, <3>1, <3>2, <3>4, <3>5
  <2>3. CASE ~\E p \in Pids : GoesTo(p)
    BY <1>2, <1>3, <2>3 DEF Free, NoWork
  <2> QED  BY <2>2, <2>3
<1> QED  BY <1>15, <1>16

(* A range whose bounds are the wrong way round may be sent to no server.   *)
LEMMA SpreadNone ==
  ASSUME TypeInv, PidInv, ForwardRequest, NEW c \in Clients, Stage(c), Spread, UNCHANGED replies,
         DOMAIN seps = {} \/ Asks.coll \in DOMAIN seps, Left = 2, Right = 1
  PROVE  Stage(c)'
<1>1. \A p \in Pids : None(Work(p)', Plain)
  <2>1. \A p \in Pids : ~GoesTo(p)
    BY DEF GoesTo
  <2> QED  BY <2>1, PartGoes
<1>2. ~Cast' /\ requests' = <<>> /\ Way' = <<>> /\ replies'[c] = <<>>
  BY RequestComes
<1> QED  BY <1>1, <1>2 DEF Stage, Free, NoWork

(* The manager forwards a request.                                          *)
LEMMA StageForwards ==
  ASSUME TypeInv, PidInv, SepsInv, HomeInv, FullInv, ApartInv, NewInv, Settled,
         ForwardRequest, NEW c \in Clients, Stage(c)
  PROVE  Stage(c)'
<1>1. /\ Asks \in Asking /\ UNCHANGED client
      /\ \/ servers = <<>> /\ Reply([Asks EXCEPT !.status = "FAILED"]) /\ UNCHANGED inbox
         \/ servers # <<>> /\ UNCHANGED <<inbox, replies>> /\ mgr'.wait = "dead"
         \/ /\ servers # <<>> /\ (DOMAIN seps = {} \/ Asks.coll \in DOMAIN seps)
            /\ Spread /\ UNCHANGED replies /\ (mgr'.wait = "dead" \/ Right <= Len(servers))
  BY ForwardShape
<1>2. /\ Requested(c) /\ Mine(c, Asks) /\ (Ranging(c) => IsPart(c, Asks))
      /\ client'[c] = client[c] /\ client[c].at = "asked" /\ ~Cast'
      /\ requests' = <<>> /\ Way' = <<>> /\ replies[c] = <<>> /\ NoWork
      /\ \A p \in Pids : Work(p) = inbox[p] /\ Work(p)' = inbox'[p]
  BY RequestComes
<1>3. UNCHANGED inbox => NoWork'
  BY <1>2 DEF NoWork
<1>4. CASE Reply([Asks EXCEPT !.status = "FAILED"]) /\ UNCHANGED inbox
  <2>1. PICK f : f = [Asks EXCEPT !.status = "FAILED"]
    OBVIOUS
  <2>2. /\ f.pid = Asks.pid /\ f.cmd = Asks.cmd /\ f.status = "FAILED" /\ f.req = Asks.req
        /\ f.coll = Asks.coll /\ f.hi = Asks.hi
    BY <1>1, <2>1 DEF Asking, Message
  <2>3. Settles(c, f)
    BY <1>2, <2>2 DEF Settles, Mine, Success
  <2>4. Settles(c, f)'
    BY <1>2, <2>3 DEF Settles, Mine, Ranging
  <2>5. replies'[c] = Append(<<>>, f)
    BY <1>2, <1>4, <2>1, <2>2 DEF Reply, Mine
  <2>6. Len(replies'[c]) = 1 /\ replies'[c][1] = f
    BY <2>5
  <2>7. Replied(c)'
    BY <1>2, <1>3, <1>4, <2>4, <2>6 DEF Replied
  <2> QED  BY <1>2, <2>7 DEF Stage, UnderWay
<1>5. CASE UNCHANGED <<inbox, replies>>
  BY <1>2, <1>3, <1>5 DEF Stage, Free
<1>6. CASE /\ servers # <<>> /\ (DOMAIN seps = {} \/ Asks.coll \in DOMAIN seps)
           /\ Spread /\ UNCHANGED replies
  <2>1. CASE ~Ranging(c)
    BY <1>6, <2>1, SpreadPlain
  <2>2. CASE Ranging(c)
    <3>1. Asks.cmd = "OBTAIN_BETWEEN"
      BY <1>2, <2>2 DEF Mine, IsPart, Ranging
    <3>2. \/ Left = Right
          \/ Left = 1 /\ Right = 2 /\ Asks.coll \in DOMAIN seps /\ Asks.key <= Asks.hi
          \/ Left = 2 /\ Right = 1
      BY <1>1, <1>6, <3>1, RangeRoutes
    <3> QED  BY <1>6, <2>2, <3>2, SpreadOne, SpreadTwo, SpreadNone
  <2> QED  BY <2>1, <2>2
<1> QED  BY <1>1, <1>4, <1>5, <1>6

(* A command for the structure leaves the commands on keys alone.           *)
LEMMA StructureAside ==
  ASSUME MailType, NoWork, ~Busy, ~Busy', UNCHANGED inbox \/ Sends(Structural)
  PROVE  NoWork'
<1>1. Structural \cap Plain = {}
  BY DEF Structural, AddStruct, DropStruct, Plain, DataChanges
<1>2. \A p \in Pids : Kept(inbox[p], inbox'[p], Plain)
  <2>1. UNCHANGED inbox => \A p \in Pids : Kept(inbox[p], inbox'[p], Plain)
    BY SameKeeps
  <2> QED  BY <1>1, <2>1, SendsKeeps
<1>3. \A p \in Pids : None(inbox[p], Plain)
  BY DEF NoWork, Work
<1>4. \A p \in Pids : None(inbox'[p], Plain)
  BY <1>2, <1>3 DEF Kept
<1> QED  BY <1>4 DEF NoWork, Work

(* The one answer a client gets to what is no range.                        *)
LEMMA ReplyEnds ==
  ASSUME TypeInv, NEW c \in Clients, client' = client, client[c].at = "asked", requests' = <<>>,
         replies[c] = <<>>, NoWork', Way' = <<>>, ~Cast',
         NEW f, Reply(f), f.pid = c, Settles(c, f)
  PROVE  Stage(c)'
<1>1. Settles(c, f)'
  BY DEF Settles, Mine, Ranging
<1>2. replies'[c] = Append(<<>>, f)
  BY DEF Reply
<1>3. Len(replies'[c]) = 1 /\ replies'[c][1] = f
  BY <1>2
<1>4. Replied(c)'
  BY <1>1, <1>3 DEF Replied
<1> QED  BY <1>4 DEF Stage, UnderWay

(* The manager begins to broadcast a command.                               *)
LEMMA StageBegins ==
  ASSUME TypeInv, BroadcastInv, Settled, HandleStruct, NEW c \in Clients, Stage(c)
  PROVE  Stage(c)'
<1>1. /\ mgr.wait = "main" /\ box["answer"] = <<>> /\ requests # <<>> /\ requests' = Tail(requests)
      /\ UNCHANGED <<client, box>> /\ Asks.cmd \in Structural
  BY DEF HandleStruct, Asked, Outside, Asks, Structural
<1>2. Requested(c)
  BY <1>1 DEF Stage, Free, Casting, UnderWay
<1>3. PICK s \in Seq(Asking) : s = requests
  BY DEF TypeInv, MailType
<1>4. Len(s) = 1 /\ Asks = s[1] /\ Asks \in Asking
  <2>1. Len(requests) = 1
    BY <1>2 DEF Requested
  <2>2. Len(s) = 1
    BY <1>3, <2>1
  <2>3. Head(s) = s[1] /\ s[1] \in Asking
    BY <2>2
  <2>4. Asks = Head(s)
    BY <1>3 DEF Asks
  <2> QED  BY <2>2, <2>3, <2>4
<1>5. requests' = <<>>
  <2>1. PICK t \in Seq(Asking) : t = Tail(s)
    BY <1>1, <1>3, TailType
  <2>2. Len(t) = 0
    BY <1>4, <2>1
  <2> QED  BY <1>1, <1>3, <2>1, <2>2, SequenceEmpty
<1>6. Mine(c, Asks) /\ ~Ranging(c) /\ client[c].at = "asked" /\ replies[c] = <<>> /\ NoWork /\ ~Busy
  <2>1. Mine(c, Asks) /\ client[c].at = "asked" /\ replies[c] = <<>> /\ NoWork
    BY <1>2, <1>3, <1>4 DEF Requested
  <2>2. ~Ranging(c)
    BY <1>1, <2>1 DEF Ranging, Mine, Structural, AddStruct, DropStruct
  <2> QED  BY <1>1, <2>1, <2>2 DEF Busy, TransferWaits
<1>7. MailType /\ KnownType /\ run \in BOOLEAN
  BY DEF TypeInv, HistoryType
<1>8. CASE servers = <<>>
  <2>1. PICK f : f = [Asks EXCEPT !.status = "FAILED"]
    OBVIOUS
  <2>2. Reply(f) /\ Return /\ UNCHANGED inbox
    <3> HIDE DEF Reply, Return
    <3> QED  BY <1>8, <2>1 DEF HandleStruct, Asks
  <2>3. mgr'.wait \in {"main", "ended", "path"}
    BY <1>7, <2>2, BodyTurns DEF Return
  <2>4. f.pid = c /\ Settles(c, f)
    <3>1. f.pid = Asks.pid /\ f.cmd = Asks.cmd
      BY <1>4, <2>1 DEF Asking, Message
    <3> QED  BY <1>6, <3>1 DEF Mine, Settles, Ranging
  <2>5. ~Busy' /\ ~Cast'
    BY <2>3 DEF Busy, TransferWaits, Cast, Broadcasting
  <2>6. NoWork' /\ Way' = <<>>
    BY <1>1, <1>6, <1>7, <2>2, <2>5, StructureAside DEF Way
  <2> QED  BY <1>1, <1>5, <1>6, <2>2, <2>4, <2>5, <2>6, ReplyEnds
<1>9. CASE servers # <<>>
  <2>1. PICK wait \in {"struct_add", "struct_dispose"} : SendStruct(1, Asks, wait) /\ UNCHANGED replies
    <3> HIDE DEF SendStruct
    <3> QED  BY <1>9 DEF HandleStruct, Asks
  <2>2. inbox' = Post(inbox, servers[1], Asks) /\ mgr'.wait = wait /\ mgr'.msg = Asks
    BY <2>1, StructSent
  <2>3. ~Busy' /\ Cast'
    BY <2>2 DEF Busy, TransferWaits, Cast, Broadcasting
  <2>4. NoWork' /\ Way' = <<>>
    <3>1. Sends(Structural)
      BY <1>1, <1>7, <2>2, PostSends
    <3> QED  BY <1>1, <1>6, <1>7, <2>3, <3>1, StructureAside DEF Way
  <2>5. box["added"] = <<>> /\ box["disposed"] = <<>>
    <3>1. Sound /\ ~Broadcasting
      BY <1>1 DEF Sound, Settled, Orderly, Broadcasting
    <3> QED  BY <3>1 DEF BroadcastInv
  <2>6. box'[Back'] = <<>>
    BY <1>1, <2>5 DEF Back
  <2>7. Mine(c, mgr.msg)'
    BY <1>1, <1>6, <2>2 DEF Mine, Ranging
  <2>8. \A k \in DOMAIN box'[Back'] : Mine(c, box[Back][k])'
    BY <2>6
  <2>9. Casting(c)'
    BY <1>1, <1>5, <1>6, <2>1, <2>3, <2>4, <2>7, <2>8 DEF Casting, Ranging
  <2> QED  BY <1>1, <1>6, <2>9 DEF Stage
<1> QED  BY <1>8, <1>9

(* Whose command is broadcast.                                              *)
LEMMA CastsFor ==
  ASSUME TypeInv, NEW c \in Clients, Stage(c), Cast
  PROVE  Casting(c) /\ client[c].at # "idle" /\ ~Busy
BY DEF Stage, Free, Requested, UnderWay, Cast, Broadcasting, Busy, TransferWaits

(* The manager goes on to another server.                                   *)
LEMMA CastSends ==
  ASSUME TypeInv, NEW c \in Clients, Stage(c), Cast, UNCHANGED <<client, requests, replies>>,
         box'["answer"] = box["answer"],
         NEW i, NEW n, NEW wait \in Elsewise, SendStruct(i, n, wait), n.cmd \in Structural,
         wait # "rollback" => Mine(c, n) /\ box'["added"] = <<>> /\ box'["disposed"] = <<>>
  PROVE  Stage(c)'
<1>1. Casting(c) /\ client[c].at # "idle" /\ ~Busy
  BY CastsFor
<1>2. inbox' = Post(inbox, servers[i], n) /\ mgr'.wait = wait /\ mgr'.msg = n
  BY StructSent
<1>3. ~Busy' /\ Cast' /\ (Broadcasting' => wait # "rollback")
  BY <1>2 DEF Busy, TransferWaits, Cast, Broadcasting, Elsewise
<1>4. NoWork' /\ Way' = <<>>
  <2>1. MailType
    BY DEF TypeInv
  <2>2. Sends(Structural)
    BY <1>2, <2>1, PostSends
  <2>3. NoWork'
    BY <1>1, <1>3, <2>1, <2>2, StructureAside DEF Casting
  <2> QED  BY <1>1, <1>3, <2>3 DEF Casting, Way
<1>5. Broadcasting' => Mine(c, mgr.msg)' /\ \A k \in DOMAIN box'[Back'] : Mine(c, box[Back][k])'
  <2>1. Broadcasting' => box'[Back'] = <<>>
    BY <1>3 DEF Back
  <2>2. Broadcasting' => Mine(c, mgr.msg)'
    BY <1>2, <1>3 DEF Mine, Ranging
  <2> QED  BY <2>1, <2>2
<1>6. Casting(c)'
  BY <1>1, <1>3, <1>4, <1>5 DEF Casting, Ranging
<1> QED  BY <1>1, <1>6 DEF Stage

(* The manager tells the client how a broadcast ended.                      *)
LEMMA CastReplies ==
  ASSUME TypeInv, NEW c \in Clients, Stage(c), Cast, UNCHANGED <<client, requests, inbox>>,
         box'["answer"] = box["answer"], Return, NEW f, Reply(f), Mine(c, f)
  PROVE  Stage(c)'
<1>1. Casting(c) /\ client[c].at # "idle" /\ ~Busy
  BY CastsFor
<1>2. mgr'.wait \in {"main", "ended", "path"}
  BY BodyTurns DEF Return, TypeInv, HistoryType
<1>3. ~Busy' /\ ~Cast'
  BY <1>2 DEF Busy, TransferWaits, Cast, Broadcasting
<1>4. NoWork' /\ Way' = <<>>
  <2>1. MailType
    BY DEF TypeInv
  <2>2. NoWork'
    BY <1>1, <1>3, <2>1, StructureAside DEF Casting
  <2> QED  BY <1>1, <1>3, <2>2 DEF Casting, Way
<1>5. f.pid = c /\ Settles(c, f)
  BY <1>1 DEF Mine, Settles, Casting
<1> QED  BY <1>1, <1>3, <1>4, <1>5, ReplyEnds DEF Casting

(* What comes back is what was sent.                                        *)
LEMMA CastHears ==
  ASSUME TypeInv, PidInv, BackInv, BroadcastInv, Settled', NEW c \in Clients, Stage(c), Broadcasting,
         UNCHANGED past, NEW m, Received(Back, m)
  PROVE  /\ m \in Asking /\ m.cmd \in Structural /\ Mine(c, m) /\ box'["answer"] = box["answer"]
         /\ box'["added"] = <<>> /\ box'["disposed"] = <<>>
         /\ \A n : n.pid = m.pid /\ n.cmd = m.cmd => Mine(c, n)
<1>1. Casting(c)
  BY CastsFor DEF Cast
<1>2. mgr.wait \in Elsewise /\ Back \in {"added", "disposed"}
  BY DEF Broadcasting, Elsewise, Back
<1>3. m \in Asking /\ m.cmd \in Structural
  BY <1>2, BackReceived
<1>4. Heard(m)
  BY StructHeard DEF Settled, Orderly
<1>5. m = mgr.msg \/ (box[Back] # <<>> /\ m = box[Back][1])
  BY DEF Received
<1>6. Mine(c, m)
  <2>1. box[Back] \in Seq(Asking)
    BY <1>2 DEF TypeInv, MailType, Boxes
  <2>2. box[Back] # <<>> => 1 \in DOMAIN box[Back]
    BY <2>1, TailAt
  <2> QED  BY <1>1, <1>5, <2>2 DEF Casting
<1>7. box'["answer"] = box["answer"]
  BY <1>2 DEF Received, TypeInv, MailType, Boxes
<1>8. \A n : n.pid = m.pid /\ n.cmd = m.cmd => Mine(c, n)
  BY <1>1, <1>6 DEF Mine, Casting
<1> QED  BY <1>3, <1>4, <1>6, <1>7, <1>8 DEF Heard

(* A broadcast that adds.                                                   *)
LEMMA StageAdds ==
  ASSUME TypeInv, PidInv, BackInv, BroadcastInv, Settled', NEW c \in Clients, Stage(c), AddStructGoesOn
  PROVE  Stage(c)'
<1>1. Broadcasting /\ Back = "added" /\ UNCHANGED <<client, requests, past>>
  BY DEF AddStructGoesOn, Broadcasting, Back, Outside
<1>2. PICK m :
       /\ Received("added", m)
       /\ \/ /\ Reply([m EXCEPT !.status = IF @ = "OK" THEN "FAILED" ELSE @])
             /\ Return /\ UNCHANGED inbox
          \/ /\ SendStruct(mgr.i - 1, [m EXCEPT !.status = "OK", !.cmd = DisposeOf(@)], "rollback")
             /\ UNCHANGED replies
          \/ /\ SendStruct(mgr.i + 1, m, "struct_add") /\ UNCHANGED replies
          \/ Reply(m) /\ Return /\ UNCHANGED inbox
  <2> HIDE DEF Reply, Return, SendStruct, Received, Candidates
  <2> QED  BY DEF AddStructGoesOn
<1>3. /\ m \in Asking /\ m.cmd \in Structural /\ Mine(c, m) /\ box'["answer"] = box["answer"]
      /\ box'["added"] = <<>> /\ box'["disposed"] = <<>>
      /\ \A n : n.pid = m.pid /\ n.cmd = m.cmd => Mine(c, n)
  BY <1>1, <1>2, CastHears
<1>4. Cast
  BY <1>1 DEF Cast
<1>5. CASE Reply([m EXCEPT !.status = IF @ = "OK" THEN "FAILED" ELSE @]) /\ Return /\ UNCHANGED inbox
  <2>1. PICK f : f = [m EXCEPT !.status = IF @ = "OK" THEN "FAILED" ELSE @]
    OBVIOUS
  <2>2. f.pid = m.pid /\ f.cmd = m.cmd
    BY <1>3, <2>1 DEF Asking, Message
  <2>3. Reply(f) /\ Mine(c, f)
    BY <1>3, <1>5, <2>1, <2>2
  <2> QED  BY <1>1, <1>3, <1>4, <1>5, <2>3, CastReplies
<1>6. CASE /\ SendStruct(mgr.i - 1, [m EXCEPT !.status = "OK", !.cmd = DisposeOf(@)], "rollback")
           /\ UNCHANGED replies
  <2>1. PICK n : n = [m EXCEPT !.status = "OK", !.cmd = DisposeOf(@)]
    OBVIOUS
  <2>2. n.cmd \in Structural
    BY <1>3, <2>1 DEF Asking, Message, DisposeOf, Structural, DropStruct
  <2>3. SendStruct(mgr.i - 1, n, "rollback") /\ "rollback" \in Elsewise
    BY <1>6, <2>1 DEF Elsewise
  <2>4. PICK i : i = mgr.i - 1
    OBVIOUS
  <2> HIDE DEF SendStruct
  <2>5. SendStruct(i, n, "rollback")
    BY <2>3, <2>4
  <2> QED  BY <1>1, <1>3, <1>4, <1>6, <2>2, <2>3, <2>5, CastSends
<1>7. CASE SendStruct(mgr.i + 1, m, "struct_add") /\ UNCHANGED replies
  <2>1. "struct_add" \in Elsewise
    BY DEF Elsewise
  <2>2. PICK i : i = mgr.i + 1
    OBVIOUS
  <2> HIDE DEF SendStruct
  <2>3. SendStruct(i, m, "struct_add")
    BY <1>7, <2>2
  <2> QED  BY <1>1, <1>3, <1>4, <1>7, <2>1, <2>3, CastSends
<1>8. CASE Reply(m) /\ Return /\ UNCHANGED inbox
  BY <1>1, <1>3, <1>4, <1>8, CastReplies
<1> QED  BY <1>2, <1>5, <1>6, <1>7, <1>8

(* A broadcast that disposes.                                               *)
LEMMA StageDisposes ==
  ASSUME TypeInv, PidInv, BackInv, BroadcastInv, Settled', NEW c \in Clients, Stage(c), DisposeStructGoesOn
  PROVE  Stage(c)'
<1>1. Broadcasting /\ Back = "disposed" /\ UNCHANGED <<client, requests, past>>
  BY DEF DisposeStructGoesOn, Broadcasting, Back, Outside
<1>2. PICK m :
       /\ Received("disposed", m)
       /\ \/ SendStruct(mgr.i + 1, m, "struct_dispose") /\ UNCHANGED replies
          \/ Reply([m EXCEPT !.status = "OK"]) /\ Return /\ UNCHANGED inbox
  <2> HIDE DEF Reply, Return, SendStruct, Received, Candidates
  <2> QED  BY DEF DisposeStructGoesOn
<1>3. /\ m \in Asking /\ m.cmd \in Structural /\ Mine(c, m) /\ box'["answer"] = box["answer"]
      /\ box'["added"] = <<>> /\ box'["disposed"] = <<>>
      /\ \A n : n.pid = m.pid /\ n.cmd = m.cmd => Mine(c, n)
  BY <1>1, <1>2, CastHears
<1>4. Cast
  BY <1>1 DEF Cast
<1>5. CASE Reply([m EXCEPT !.status = "OK"]) /\ Return /\ UNCHANGED inbox
  <2>1. PICK f : f = [m EXCEPT !.status = "OK"]
    OBVIOUS
  <2>2. f.pid = m.pid /\ f.cmd = m.cmd
    BY <1>3, <2>1 DEF Asking, Message
  <2>3. Reply(f) /\ Mine(c, f)
    BY <1>3, <1>5, <2>1, <2>2
  <2> QED  BY <1>1, <1>3, <1>4, <1>5, <2>3, CastReplies
<1>6. CASE SendStruct(mgr.i + 1, m, "struct_dispose") /\ UNCHANGED replies
  <2>1. "struct_dispose" \in Elsewise
    BY DEF Elsewise
  <2>2. PICK i : i = mgr.i + 1
    OBVIOUS
  <2> HIDE DEF SendStruct
  <2>3. SendStruct(i, m, "struct_dispose")
    BY <1>6, <2>2
  <2> QED  BY <1>1, <1>3, <1>4, <1>6, <2>1, <2>3, CastSends
<1> QED  BY <1>2, <1>5, <1>6

(* A broadcast that is taken back for ever.                                 *)
LEMMA StageRollsBack ==
  ASSUME TypeInv, BackInv, NEW c \in Clients, Stage(c), RollbackGoesOn
  PROVE  Stage(c)'
<1>1. mgr.wait = "rollback" /\ UNCHANGED <<client, requests, replies, past>>
  BY DEF RollbackGoesOn, Outside
<1>2. PICK m : Received("disposed", m) /\ SendStruct(mgr.i, [m EXCEPT !.status = "OK"], "rollback")
  BY DEF RollbackGoesOn
<1>3. m \in Asking /\ m.cmd \in Structural
  <2>1. mgr.wait \in Elsewise
    BY <1>1 DEF Elsewise
  <2> QED  BY <1>1, <1>2, <2>1, BackReceived
<1>4. PICK n : n = [m EXCEPT !.status = "OK"]
  OBVIOUS
<1>5. PICK i : i = mgr.i
  OBVIOUS
<1>6. n.cmd \in Structural /\ SendStruct(i, n, "rollback") /\ "rollback" \in Elsewise
  BY <1>2, <1>3, <1>4, <1>5 DEF Asking, Message, Elsewise
<1>7. box'["answer"] = box["answer"]
  BY <1>2 DEF Received, TypeInv, MailType, Boxes
<1>8. Cast
  BY <1>1 DEF Cast
<1> QED  BY <1>1, <1>6, <1>7, <1>8, CastSends

(* Who changes what a client waits for.                                     *)
LEMMA ClientGoes ==
  ASSUME TypeInv, [Next]_vars
  PROVE  UNCHANGED client \/ \E d \in Clients : Request(d) \/ Client(d)
<1>1. (\E p \in Pids : Server(p)) => UNCHANGED client
  BY ServerGoes
<1>2. Terminal => UNCHANGED client
  BY DEF Terminal, HandleRun, HandleTerminate, TypeShutdown, Outside
<1>3. Manager => UNCHANGED client
  BY DEF Manager, ForwardAnswer, ForwardRequest, HandleStruct, AddStructGoesOn, RollbackGoesOn,
         DisposeStructGoesOn, NextPath, CountAnswer, CountTimeout, BeginTransfer, TransferAnswer,
         TransferTimeout, SetupAnswer, SetupTimeout, HandleShutdown, Outside
<1>4. UNCHANGED vars => UNCHANGED client
  BY DEF vars
<1> QED  BY <1>1, <1>2, <1>3, <1>4 DEF Next

(* Of a manager that stopped nobody asks any more.                          *)
LEMMA StageStops ==
  ASSUME TypeInv, [Next]_vars, Settled', NEW c \in Clients, \A d \in Clients : d = c,
         client[c].at = "idle", Halted
  PROVE  client'[c].at = "idle" /\ Halted'
<1>1. Halted'
  <2>1. ~Running
    BY DEF Running, Halted
  <2>2. ~Running'
    BY <2>1, RunningGoesOn
  <2> QED  BY <2>2 DEF Running, Halted
<1>2. ~Request(c)
  BY DEF Request, MayAsk, Halted
<1>3. ~Client(c)
  BY DEF Client, TakeReply, TakeRangeReply, ClientTimeout
<1>4. UNCHANGED client
  BY <1>2, <1>3, ClientGoes
<1> QED  BY <1>1, <1>4

(* A server's step.                                                         *)
LEMMA StageServes ==
  ASSUME TypeInv, PidInv, GoneInv, ThereInv, FullInv, CountInv, BroadcastInv, RightInv, GotInv,
         Settled, Settled', NEW q \in Pids, Server(q), NEW c \in Clients, Stage(c)
  PROVE  Stage(c)'
<1>1. CASE Busy \/ ServeSetup(q) \/ ServeCount(q) \/ ServeEnd(q) \/ LoseQueue(q)
  <2>1. /\ Bypasses(c) /\ UNCHANGED mgr
        /\ Cast => box'["added"] = box["added"] /\ box'["disposed"] = box["disposed"]
    BY <1>1, ServesBypass
  <2>2. CASE Cast
    BY <2>1, <2>2, CastKept
  <2>3. CASE ~Cast
    <3>1. ~Cast'
      BY <2>1, <2>3 DEF Cast, Broadcasting
    <3> QED  BY <2>1, <2>3, <3>1, StageKept
  <2> QED  BY <2>2, <2>3
<1>2. CASE ServeAddStruct(q) \/ ServeDisposeStruct(q)
  BY <1>2, StageCast
<1>3. CASE ~Busy /\ ServeData(q)
  BY <1>3, StageData
<1>4. CASE ~Busy /\ ServeRange(q)
  BY <1>4, StageRange
<1>5. ~NoMemory(q)
  BY NoMemoryUnsound DEF Settled, Orderly
<1> QED  BY <1>1, <1>2, <1>3, <1>4, <1>5 DEF Server

(* Nothing happens.                                                         *)
LEMMA StageStays ==
  ASSUME UNCHANGED vars, NEW c \in Clients, Stage(c)
  PROVE  Stage(c)'
<1>1. UNCHANGED <<requests, replies, client, inbox, box, mgr, store>>
  BY DEF vars, mail, data
<1>2. Bypasses(c) /\ (Cast' <=> Cast)
  <2>1. Way' = Way /\ \A p \in Pids : Work(p)' = Work(p)
    BY <1>1 DEF Way, Work, Busy
  <2>2. \A p \in Pids : WorkStays(p)
    BY <1>1, <2>1, SameKeeps DEF WorkStays
  <2>3. StoredIn(client[c].coll)' = StoredIn(client[c].coll)
    BY <1>1 DEF StoredIn
  <2> QED  BY <1>1, <2>1, <2>2, <2>3 DEF Bypasses, Cast, Broadcasting
<1> QED  BY <1>1, <1>2, StageKept, CastKept

(* Where the one command of the one client is, step by step.                *)
LEMMA StageStep ==
  ASSUME TypeInv, PidInv, GoneInv, BackInv, ThereInv, HomeInv, FullInv, CountInv, BroadcastInv, SepsInv,
         ApartInv, NewInv, RightInv, GotInv, StageInv, [Next]_vars,
         NEW c \in Clients, \A d \in Clients : d = c
  PROVE  StageInv'
<1>1. SUFFICES ASSUME Settled', Settled
               PROVE  (client'[c].at = "idle" /\ Halted') \/ Stage(c)'
  <2>1. Settled' => Settled
    BY TimeGoesOn
  <2> QED  BY <1>1, <2>1 DEF StageInv
<1>2. CASE client[c].at = "idle" /\ Halted
  BY <1>1, <1>2, StageStops
<1>3. CASE Stage(c)
  <2>1. CASE \E q \in Pids : Server(q)
    BY <1>1, <1>3, <2>1, StageServes
  <2>2. CASE Moves
    BY <1>1, <1>3, <2>2, MovesBypass, StageKept
  <2>3. CASE ForwardAnswer \/ ForwardRequest \/ HandleStruct
    BY <1>1, <1>3, <2>3, StageAnswers, StageForwards, StageBegins
  <2>4. CASE AddStructGoesOn \/ RollbackGoesOn \/ DisposeStructGoesOn
    BY <1>1, <1>3, <2>4, StageAdds, StageRollsBack, StageDisposes
  <2>5. CASE \E d \in Clients : Request(d) \/ Client(d)
    <3>1. Request(c) \/ Client(c)
      BY <2>5
    <3> QED  BY <1>1, <1>3, <3>1, StageRequest, StageTakes, StageForgets DEF Client
  <2>6. CASE TypeShutdown
    BY <1>1, <2>6 DEF TypeShutdown, Settled
  <2>7. CASE UNCHANGED vars
    BY <1>3, <2>7, StageStays
  <2> QED  BY <2>1, <2>2, <2>3, <2>4, <2>5, <2>6, <2>7 DEF Next, Manager, Terminal, Moves
<1> QED  BY <1>1, <1>2, <1>3 DEF StageInv

(* A list that agrees with another one up to its last member.               *)
LEMMA ListCompleted ==
  ASSUME NEW S, NEW s \in Seq(S), NEW l \in Seq(S), NEW k \in S, Len(l) = Len(s) + 1,
         \A x \in 1 .. Len(s) : s[x] = l[x], k = l[Len(l)]
  PROVE  Append(s, k) = l
<1>1. Append(s, k) \in Seq(S) /\ Len(Append(s, k)) = Len(l)
  OBVIOUS
<1>2. \A x \in 1 .. Len(l) : Append(s, k)[x] = l[x]
  <2>1. TAKE x \in 1 .. Len(l)
  <2>2. x \in 1 .. Len(s) \/ x = Len(s) + 1
    OBVIOUS
  <2> QED  BY <2>2
<1> QED  BY <1>1, <1>2

(* All that is stored of a collection is keys.                              *)
LEMMA WholeListed ==
  ASSUME TypeInv, NEW c
  PROVE  Whole(c) \in Seq(Keys) /\ Len(Whole(c)) \in Nat
<1>1. StoredIn(client[c].coll) \in SUBSET Keys
  <2>1. \A p \in Pids : \A d \in DOMAIN store[p] : store[p][d] \subseteq Keys
    BY DEF TypeInv, ServersType, IsMap
  <2> QED  BY <2>1 DEF StoredIn
<1> QED  BY <1>1, RangeListed DEF Whole

(* Who takes a last record takes a reply.                                   *)
LEMMA LastTaken ==
  ASSUME TypeInv, [Next]_vars, NEW c \in Clients, \A d \in Clients : d = c, TakesLast(c)
  PROVE  TakeReply(c) \/ TakeRangeReply(c)
<1>1. client[c].at # "idle" /\ client'[c].at = "idle" /\ replies[c] # <<>>
  BY DEF TakesLast
<1>2. Request(c) \/ Client(c)
  BY <1>1, ClientGoes
<1> QED  BY <1>1, <1>2 DEF Request, Client, ClientTimeout

(* When a client takes a last record it has the whole range.                *)
LEMMA LastIsWhole ==
  ASSUME TypeInv, GotInv, StageInv, Settled, [Next]_vars,
         NEW c \in Clients, \A d \in Clients : d = c, TakesLast(c)
  PROVE  Append(client[c].got, Head(replies[c]).key) = Whole(c)
<1>1. /\ client[c].at \in {"asked", "range"} /\ client'[c].at = "idle" /\ Ranging(c)
      /\ client[c].at = "asked" => Head(replies[c]).status = "END"
  BY DEF TakesLast, Ranging
<1>2. TakeReply(c) \/ TakeRangeReply(c)
  BY LastTaken
<1>3. /\ replies[c] # <<>> /\ Head(replies[c]) = replies[c][1] /\ replies[c][1] \in Asking
      /\ Len(replies[c]) \in Nat
  BY <1>2, ReplyTaken
<1>4. Replied(c) \/ RangeAnswered(c) \/ RangeHalved(c)
  <2>1. Stage(c)
    BY <1>1 DEF StageInv
  <2> QED  BY <1>1, <1>3, <2>1 DEF Stage, Free, Requested, Casting, UnderWay, Posted, Answered, RangeAsked
<1>5. ~\E left : Reads(c, left)
  BY <1>1 DEF Reads
<1>6. ~Replied(c)
  BY <1>1, <1>3 DEF Replied, Settles, Success
<1>7. ~RangeHalved(c)
  <2>1. RangeHalved(c) => HalfAnswered(c)
    BY <1>3 DEF RangeHalved, HalfAsked
  <2> QED  BY <1>1, <1>2, <1>5, <2>1, HalfRead
<1>8. RangeAnswered(c)
  BY <1>4, <1>6, <1>7
<1>9. PICK g \in Nat : \E r \in Nat : Records(c, g, r)
  BY <1>8 DEF RangeAnswered
<1>10. PICK r \in Nat : Records(c, g, r)
  BY <1>9
<1> DEFINE n == Len(Whole(c))
<1>11. PICK m : m = Head(replies[c])
  OBVIOUS
<1>12. r >= 1
  <2>1. PICK s \in Seq(Asking) : s = replies[c]
    BY DEF TypeInv, MailType
  <2>2. Len(s) # 0
    BY <1>3, <2>1, SequenceEmpty
  <2> QED  BY <1>10, <2>1, <2>2 DEF Records
<1>13. Record(c, m, g + 1)
  <2>1. \A x \in 1 .. r : Record(c, replies[c][x], g + x)
    BY <1>10 DEF Records
  <2>2. 1 \in 1 .. r
    BY <1>12
  <2> QED  BY <1>3, <1>11, <2>1, <2>2
<1>14. g + 1 = n /\ m.key = Whole(c)[n]
  <2>1. SUFFICES ASSUME g + 1 # n  PROVE FALSE
    BY <1>13 DEF Record
  <2>2. Mine(c, m) /\ m.cnt = 1 /\ m.status = "OK"
    BY <1>13, <2>1 DEF Record
  <2>3. client[c].at = "range" => client[c].due = 1
    BY <1>10 DEF Records
  <2> QED  BY <1>1, <1>2, <1>5, <1>11, <2>2, <2>3, RecordRead
<1>15. client[c].got \in Seq(Keys \cup {NoOne})
  BY DEF TypeInv, ClientType, Waiting
<1>16. Whole(c) \in Seq(Keys \cup {NoOne}) /\ n \in Nat
  <2>1. PICK l \in Seq(Keys) : l = Whole(c)
    BY WholeListed
  <2>2. /\ Len(l) \in Nat /\ l = [i \in 1 .. Len(l) |-> l[i]]
        /\ \A i \in 1 .. Len(l) : l[i] \in Keys \cup {NoOne}
    OBVIOUS
  <2>3. l \in Seq(Keys \cup {NoOne})
    BY <2>2
  <2> QED  BY <2>1, <2>2, <2>3
<1>17. PICK s \in Seq(Keys \cup {NoOne}) : s = client[c].got
  BY <1>15
<1>18. PICK l \in Seq(Keys \cup {NoOne}) : l = Whole(c)
  BY <1>16
<1>19. Len(s) = g /\ \A x \in 1 .. g : s[x] = l[x]
  BY <1>10, <1>17, <1>18 DEF Records
<1>20. Len(l) = g + 1 /\ m.key = l[Len(l)]
  BY <1>14, <1>18
<1>21. m.key \in Keys \cup {NoOne}
  BY <1>20
<1>22. PICK k \in Keys \cup {NoOne} : k = m.key
  BY <1>21
<1>23. Append(s, k) = l
  BY <1>19, <1>20, <1>22, ListCompleted
<1> QED  BY <1>11, <1>17, <1>18, <1>22, <1>23

-----------------------------------------------------------------------------
(* All of it together.                                                      *)
RangeInv ==
  /\ ThereInv /\ HomeInv /\ FullInv /\ SepsInv /\ RightInv
  /\ NewInv /\ ApartInv /\ AddedInv /\ GotInv /\ StageInv

(* At the start there is one server, which has nothing to do but be set up. *)
LEMMA RangeInit ==
  ASSUME Init
  PROVE  RangeInv
<1>1. /\ servers = <<>> /\ spawned = 1 /\ mgr.wait = "setup" /\ requests = <<>> /\ DOMAIN seps = {}
      /\ proc = [p \in Pids |-> IF p = 1 THEN "up" ELSE "unborn"]
      /\ inbox = [p \in Pids |-> IF p = 1 THEN <<SetUp>> ELSE <<>>]
      /\ box = [b \in Boxes |-> <<>>] /\ replies = [d \in Clients |-> <<>>]
      /\ store = [p \in Pids |-> EmptyMap] /\ client = [d \in Clients |-> Idle]
  BY DEF Init, At, SetUp, EmptyMap
<1> HIDE DEF SetUp
<1>2. \A C : "SET_IN_MEMORY_CACHE_MODE" \notin C => \A p \in Pids : None(inbox[p], C)
  <2>1. \A p \in Pids : inbox[p] = <<SetUp>> \/ inbox[p] = <<>>
    BY <1>1
  <2> QED  BY <2>1, SetUpAlone, NothingThere
<1>3. \A p \in Pids : DOMAIN store[p] = {}
  BY <1>1 DEF EmptyMap
<1>4. box["answer"] = <<>> /\ DOMAIN servers = {}
  BY <1>1 DEF Boxes
<1>5. ~Busy /\ ~Cast /\ ~Broadcasting
  BY <1>1 DEF Busy, TransferWaits, Cast, Broadcasting
<1>6. ThereInv
  BY <1>1, <1>2, <1>3 DEF ThereInv
<1>7. HomeInv
  BY <1>1, <1>3 DEF HomeInv, Nothing
<1>8. FullInv /\ SepsInv /\ RightInv /\ NewInv /\ ApartInv /\ AddedInv
  BY <1>1, <1>3, <1>4, <1>5 DEF FullInv, AddsNew, SepsInv, RightInv, NewInv, ApartInv, AddedInv
<1>9. GotInv
  BY <1>1 DEF GotInv, Idle
<1>10. StageInv
  <2>1. NoWork /\ Way = <<>>
    <3>1. "SET_IN_MEMORY_CACHE_MODE" \notin Plain
      BY DEF Plain, DataChanges
    <3> QED  BY <1>2, <1>4, <1>5, <3>1 DEF NoWork, Work, Way
  <2> QED  BY <1>1, <1>5, <2>1 DEF StageInv, Stage, Free
<1> QED  BY <1>6, <1>7, <1>8, <1>9, <1>10 DEF RangeInv

(* A step of a cluster with one client.                                     *)
LEMMA RangeStep ==
  ASSUME TypeInv, TypeInv', StructInv, CountInv, EndInv, RangeInv, [Next]_vars,
         NEW c \in Clients, \A d \in Clients : d = c
  PROVE  RangeInv'
<1>1. /\ PidInv /\ BroadcastInv /\ GoneInv /\ BackInv
      /\ ThereInv /\ HomeInv /\ FullInv /\ SepsInv /\ RightInv
      /\ NewInv /\ ApartInv /\ AddedInv /\ GotInv /\ StageInv
  BY DEF StructInv, EndInv, RangeInv
<1>2. ThereInv'
  BY <1>1, ThereStep
<1>3. HomeInv'
  BY <1>1, HomeStep
<1>4. FullInv'
  BY <1>1, FullStep
<1>5. SepsInv'
  BY <1>1, SepsStep
<1>6. RightInv'
  BY <1>1, RightStep
<1>7. NewInv'
  BY <1>1, <1>2, <1>3, <1>4, NewStep
<1>8. ApartInv'
  BY <1>1, ApartStep
<1>9. AddedInv'
  BY <1>1, AddedStep
<1>10. GotInv'
  BY <1>1, GotStep
<1>11. StageInv'
  BY <1>1, StageStep
<1> QED  BY <1>2, <1>3, <1>4, <1>5, <1>6, <1>7, <1>8, <1>9, <1>10, <1>11 DEF RangeInv

(* The range a client is given is every stored key between its bounds, in   *)
(* order, once each, whatever servers joined and ended and wherever its     *)
(* keys had moved, with one client and as long as nothing was late, keys    *)
(* moved to the right with nothing in their way, no schema was disposed     *)
(* with what is in it, and no server that was to end was counted with fewer *)
(* keys than it had.                                                        *)
THEOREM RangesAreExact ==
  ASSUME NEW only, Clients = {only}
  PROVE  Spec => RangeExact
<1> DEFINE Exact == \A c \in Clients :
             TakesLast(c) /\ run /\ Orderly({"crossed", "moved_left", "dropped_above", "short_count"}) =>
             Append(client[c].got, Head(replies[c]).key)
               = InRange(StoredIn(client[c].coll), client[c].lo, client[c].hi)
<1>1. only \in Clients /\ \A d \in Clients : d = only
  OBVIOUS
<1>2. Init => RangeInv
  BY RangeInit
<1>3. TypeInv /\ TypeInv' /\ StructInv /\ CountInv /\ EndInv /\ RangeInv /\ [Next]_vars => RangeInv'
  BY <1>1, RangeStep
<1>4. TypeInv /\ RangeInv /\ [Next]_vars => Exact
  <2>1. SUFFICES ASSUME TypeInv, RangeInv, [Next]_vars, TakesLast(only), Settled
                 PROVE  Append(client[only].got, Head(replies[only]).key) = Whole(only)
    BY <1>1 DEF Settled, Whole
  <2>2. GotInv /\ StageInv
    BY <2>1 DEF RangeInv
  <2> QED  BY <1>1, <2>1, <2>2, LastIsWhole
<1>5. Spec => [](TypeInv /\ StructInv) /\ [](TypeInv /\ CountInv /\ SafeInv) /\ [](TypeInv /\ EndInv)
  BY StructInvHolds, SafeInvHolds, EndInvHolds
<1> HIDE DEF Exact
<1>6. Spec => [](TypeInv /\ RangeInv)
  BY <1>2, <1>3, <1>5, PTL DEF Spec
<1>7. Spec => [][Exact]_vars
  BY <1>4, <1>6, PTL DEF Spec
<1> QED  BY <1>7, PTL DEF RangeExact, Exact

=============================================================================
