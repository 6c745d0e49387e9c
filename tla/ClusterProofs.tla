---------------------------- MODULE ClusterProofs ---------------------------
(***************************************************************************)
(* Theorems about the manager as the keeper of its servers, for any number *)
(* of clients, collections and keys, any servers started and ended, and    *)
(* any waits that run out.                                                 *)
(***************************************************************************)
EXTENDS Cluster, FiniteSetTheorems, TLAPS

RP == INSTANCE RedistributionProofs WITH NServers <- 2, rd <- mgr

-----------------------------------------------------------------------------
(* A finite set of numbers can be put in order: its least member, then the *)
(* rest.                                                                   *)
LEMMA OrderExists ==
  ASSUME NEW S \in SUBSET Nat, IsFiniteSet(S)
  PROVE  \E l \in [1 .. Cardinality(S) -> S] :
           \A i, j \in 1 .. Cardinality(S) : i < j => l[i] < l[j]
<1> DEFINE Order(T, n) == \E l \in [1 .. n -> T] : \A i, j \in 1 .. n : i < j => l[i] < l[j]
           Bad == {n \in Nat : \E T \in SUBSET Nat :
                     IsFiniteSet(T) /\ Cardinality(T) = n /\ ~Order(T, n)}
<1>1. ASSUME Bad # {}  PROVE FALSE
  <2>0. Bad \in SUBSET Nat
    OBVIOUS
  <2>1. PICK n \in Bad : \A b \in Bad : n <= b
    <3> HIDE DEF Bad
    <3> QED  BY <1>1, <2>0, RP!LeastExists
  <2>2. PICK T \in SUBSET Nat : IsFiniteSet(T) /\ Cardinality(T) = n /\ ~Order(T, n)
    BY <2>1
  <2>3. T # {}
    <3>1. SUFFICES ASSUME T = {}  PROVE FALSE
      OBVIOUS
    <3>2. n = 0
      BY <2>2, <3>1, FS_EmptySet
    <3> DEFINE l == [i \in 1 .. 0 |-> 0]
    <3>3. l \in [1 .. 0 -> T] /\ \A i, j \in 1 .. 0 : i < j => l[i] < l[j]
      OBVIOUS
    <3>4. Order(T, 0)
      <4> HIDE DEF l
      <4> QED  BY <3>3
    <3> HIDE DEF Order
    <3> QED  BY <2>2, <3>2, <3>4
  <2>4. PICK k \in T : \A l \in T : k <= l
    BY <2>3, RP!LeastExists
  <2>5. IsFiniteSet(T \ {k}) /\ Cardinality(T \ {k}) = n - 1 /\ n - 1 \in Nat
    <3>1. IsFiniteSet(T \ {k}) /\ Cardinality(T \ {k}) = Cardinality(T) - 1
      BY <2>2, <2>4, FS_RemoveElement
    <3>2. Cardinality(T \ {k}) \in Nat
      BY <3>1, FS_CardinalityType
    <3> QED  BY <2>2, <3>1, <3>2
  <2>6. Order(T \ {k}, n - 1)
    BY <2>1, <2>2, <2>5
  <2>7. PICK r \in [1 .. n - 1 -> T \ {k}] : \A i, j \in 1 .. n - 1 : i < j => r[i] < r[j]
    BY <2>6
  <2> DEFINE l == [i \in 1 .. n |-> IF i = 1 THEN k ELSE r[i - 1]]
  <2>8. \A i \in 1 .. n : i # 1 => i - 1 \in 1 .. n - 1 /\ r[i - 1] \in T \ {k}
    BY <2>5, <2>7
  <2>9. l \in [1 .. n -> T]
    <3>1. \A i \in 1 .. n : i = 1 \/ r[i - 1] \in T
      BY <2>8
    <3>2. \A i \in 1 .. n : (IF i = 1 THEN k ELSE r[i - 1]) \in T
      BY <2>4, <3>1
    <3> QED  BY <3>2
  <2>10. ASSUME NEW i \in 1 .. n, NEW j \in 1 .. n, i < j  PROVE l[i] < l[j]
    <3>1. j # 1 /\ j - 1 \in 1 .. n - 1 /\ l[j] = r[j - 1] /\ r[j - 1] \in T \ {k}
      BY <2>8, <2>10
    <3>2. CASE i = 1
      <4>1. k <= r[j - 1] /\ k # r[j - 1] /\ k \in Nat /\ r[j - 1] \in Nat
        BY <2>4, <3>1
      <4> QED  BY <3>1, <3>2, <4>1
    <3>3. CASE i # 1
      BY <2>7, <2>8, <2>10, <3>1, <3>3
    <3> QED  BY <3>2, <3>3
  <2> QED  BY <2>2, <2>9, <2>10
<1>2. Cardinality(S) \in Nat
  BY FS_CardinalityType
<1> QED  BY <1>1, <1>2

(* Ordered(S) lists the members of S, each once.                           *)
LEMMA OrderedList ==
  ASSUME NEW S \in SUBSET Nat, IsFiniteSet(S)
  PROVE  /\ Ordered(S) \in Seq(S) /\ Len(Ordered(S)) = Cardinality(S)
         /\ \A i, j \in 1 .. Cardinality(S) : i < j => Ordered(S)[i] < Ordered(S)[j]
<1>1. /\ Ordered(S) \in [1 .. Cardinality(S) -> S]
      /\ \A i, j \in 1 .. Cardinality(S) : i < j => Ordered(S)[i] < Ordered(S)[j]
  BY OrderExists DEF Ordered
<1>2. Cardinality(S) \in Nat
  BY FS_CardinalityType
<1> HIDE DEF Ordered
<1> QED  BY <1>1, <1>2

(* Keys and collections are finitely many numbers.                         *)
LEMMA FiniteData ==
  /\ Keys \subseteq Nat \ {0} /\ IsFiniteSet(Keys)
  /\ Collections \subseteq Nat \ {0} /\ IsFiniteSet(Collections)
<1>1. NKeys \in Nat /\ NCollections \in Nat
  BY ClusterAssumption
<1>2. IsFiniteSet(1 .. NKeys) /\ IsFiniteSet(1 .. NCollections)
  BY <1>1, FS_Interval
<1> QED  BY <1>1, <1>2 DEF Keys, Collections

(* A set of numbers has a least member, a set of keys a greatest.          *)
LEMMA LeastMember ==
  ASSUME NEW S \in SUBSET Nat, S # {}
  PROVE  Least(S) \in S /\ \A k \in S : Least(S) <= k
<1>1. PICK k \in S : \A l \in S : k <= l
  BY RP!LeastExists
<1> QED  BY <1>1 DEF Least

(* A set of keys has a greatest.                                           *)
LEMMA GreatestMember ==
  ASSUME NEW S \in SUBSET Keys, S # {}
  PROVE  Greatest(S) \in S /\ \A k \in S : k <= Greatest(S)
<1> DEFINE Below == {n \in Nat : \E k \in S : k = NKeys - n}
<1>1. NKeys \in Nat /\ Keys = 1 .. NKeys
  BY ClusterAssumption DEF Keys
<1>2. \A k \in S : k \in 1 .. NKeys /\ NKeys - k \in Below
  <2>1. \A k \in 1 .. NKeys : NKeys - k \in Nat /\ k = NKeys - (NKeys - k)
    BY <1>1
  <2> QED  BY <1>1, <2>1
<1>3. PICK n \in Below : \A l \in Below : n <= l
  <2>1. Below \in SUBSET Nat /\ Below # {}
    BY <1>2
  <2> HIDE DEF Below
  <2> QED  BY <2>1, RP!LeastExists
<1>4. PICK g \in S : g = NKeys - n
  BY <1>3
<1>5. ASSUME NEW l \in S  PROVE l <= g
  <2>1. l \in 1 .. NKeys /\ n <= NKeys - l /\ n \in Nat /\ g = NKeys - n
    BY <1>2, <1>3, <1>4
  <2> QED  BY ONLY <1>1, <2>1
<1>6. Greatest(S) \in S /\ \A l \in S : Greatest(S) >= l
  <2>1. \A l \in S : g >= l
    BY <1>1, <1>4, <1>5
  <2> QED  BY <1>4, <2>1 DEF Greatest
<1> QED  BY <1>1, <1>6

(* The counts of redistribute_path_keys, with two servers.                 *)
LEMMA SurplusType ==
  ASSUME NEW cnts \in [0 .. 1 -> Int]
  PROVE  R!Differ(cnts)[0] \in Int
<1>1. RP!Differ(cnts) \in [0 .. 1 -> Int]
  <2>1. RP!Servers = 0 .. 1
    BY DEF RP!Servers
  <2> QED  BY <2>1, RP!DifferType
<1>2. R!Differ(cnts) = RP!Differ(cnts)
  BY Zenon DEF R!Differ, RP!Differ, R!Target, RP!Target, R!Servers, RP!Servers,
     R!Sum, RP!Sum, R!Prefix, RP!Prefix
<1> QED  BY <1>1, <1>2

-----------------------------------------------------------------------------
Commands ==
  DataChanges \cup AddStruct \cup DropStruct \cup
  {"OBTAIN", "OBTAIN_BETWEEN", "OBTAIN_MIN", "OBTAIN_MAX", "OBTAIN_NEXT",
   "GET_RECORDS_CNT", "SET_IN_MEMORY_CACHE_MODE", "TERMINATE", "SHUTDOWN", "none"}

Statuses == {"CLIENT", "OK", "END", "KEY", "INVALID_PATH", "DUPLICATE",
             "NOT_EXIST", "BAD_ALLOC", "FAILED"}

Message ==
  [pid : Clients \cup {Itself}, req : Nat, cmd : Commands, status : Statuses,
   coll : Collections \cup {NoOne}, key : Keys \cup {NoOne},
   hi : Keys \cup {NoOne}, cnt : Nat, named : BOOLEAN]

(* What names all that its command works on.                               *)
Asking ==
  {m \in Message :
     /\ m.cmd \in DataChanges \cup {"OBTAIN", "OBTAIN_NEXT", "OBTAIN_BETWEEN"} => m.key \in Keys
     /\ m.cmd = "OBTAIN_BETWEEN" => m.hi \in Keys
     /\ m.cmd = "ADD_COLLECTION" => m.coll \in Collections}

(* An answer of success names a key.                                       *)
Answering == {m \in Asking : m.status = "OK" => m.key \in Keys}

(* A function on some of the collections.                                  *)
IsMap(f, T) == DOMAIN f \subseteq Collections /\ f \in [DOMAIN f -> T]

ServersType ==
  /\ proc \in [Pids -> {"unborn", "up", "gone"}] /\ spawned \in Pids
  /\ has \in [Pids -> SUBSET {"pool", "schema"}]
  /\ store = [p \in Pids |-> store[p]]
  /\ \A p \in Pids : IsMap(store[p], SUBSET Keys)

MailType ==
  /\ inbox \in [Pids -> Seq(Asking)]
  /\ box \in [Boxes -> Seq(Asking)] /\ box["answer"] \in Seq(Answering)
  /\ requests \in Seq(Asking)
  /\ replies \in [Clients -> Seq(Asking)]

KnownType ==
  /\ servers \in Seq(Pids) /\ Len(servers) <= MaxServers
  /\ IsMap(seps, Seq(Keys \cup {Top}))
  /\ changes \in Nat
  /\ servers = <<>> => DOMAIN seps = {}

TransferWaits == {"obtain", "next", "add", "dispose"}

Places ==
  [wait : Waits, i : 0 .. MaxServers, msg : Asking,
   job : {"none", "terminate", "redistribute"}, todo : Seq(Collections),
   cnts : [0 .. 1 -> Int], dir : {"none", "left", "right"}, n : Int,
   newsep : Keys \cup {NoOne}]

(* Between two loop bodies no redistribution is due.                       *)
NotDue ==
  mgr.wait \in {"main", "struct_add", "struct_dispose"} =>
    changes < ChangesPerServer * (1 + Len(servers))

MgrType ==
  /\ mgr \in Places /\ mgr.todo \in Seq(DOMAIN seps) /\ NotDue
  /\ mgr.wait = "setup" => Len(servers) < MaxServers
  /\ mgr.wait \in {"count", "move"} \cup TransferWaits => mgr.todo # <<>>
  /\ mgr.wait = "count" => mgr.i # 0
  /\ mgr.wait \in {"add", "dispose"} => mgr.newsep \in Keys
  /\ mgr.wait \in {"struct_add", "struct_dispose", "rollback"} => mgr.i # 0 /\ servers # <<>>
  /\ mgr.wait \in TransferWaits \/ mgr.n > 0 => Len(servers) = MaxServers
  /\ mgr.wait \in {"path", "count", "move"} \cup TransferWaits => mgr.job # "none"
  /\ mgr.job = "terminate" => Len(servers) = MaxServers

Waiting ==
  [at : {"idle", "asked", "range"}, ctr : 1 .. MaxReqId, cmd : Commands,
   coll : Collections \cup {NoOne}, lo : Keys \cup {NoOne}, hi : Keys \cup {NoOne},
   got : Seq(Keys \cup {NoOne}), due : Int]

ClientType == client \in [Clients -> Waiting]

HistoryType == run \in BOOLEAN /\ faults \in 0 .. MaxFaults /\ past \subseteq Events

TypeInv ==
  ServersType /\ MailType /\ KnownType /\ MgrType /\ ClientType /\ HistoryType

(* Behind the last server there is no separator but the greatest.          *)
RouteInv ==
  "ended_keeper" \notin past /\ servers # <<>> =>
    \A c \in DOMAIN seps : \A i \in DOMAIN seps[c] :
      i >= Len(servers) => seps[c][i] = Top

-----------------------------------------------------------------------------
(* Messages sent and taken keep the type of a mailbox.                     *)
LEMMA SentTo ==
  ASSUME NEW M, NEW D, NEW f \in [D -> Seq(M)], NEW m \in M, NEW d
  PROVE  [f EXCEPT ![d] = Append(@, m)] \in [D -> Seq(M)]
<1>1. \A l \in Seq(M) : Append(l, m) \in Seq(M)
  OBVIOUS
<1> QED  BY <1>1

(* The oldest message of a mailbox is taken.                               *)
LEMMA TakenFrom ==
  ASSUME NEW M, NEW D, NEW f \in [D -> Seq(M)], NEW d \in D, f[d] # <<>>
  PROVE  /\ [f EXCEPT ![d] = Tail(@)] \in [D -> Seq(M)]
         /\ Head(f[d]) \in M
OBVIOUS

(* A message is put into the inbox of a server that is up.                 *)
LEMMA PostType ==
  ASSUME inbox \in [Pids -> Seq(Asking)], NEW m \in Asking, NEW p
  PROVE  Post(inbox, p, m) \in [Pids -> Seq(Asking)]
BY SentTo DEF Post

(* The manager's own commands are well-typed messages.                     *)
LEMMA OwnMsgType ==
  ASSUME NEW cmd \in {"OBTAIN_MIN", "OBTAIN_MAX", "GET_RECORDS_CNT", "none",
                      "SET_IN_MEMORY_CACHE_MODE", "TERMINATE", "SHUTDOWN"},
         NEW coll \in Collections \cup {NoOne}
  PROVE  /\ OwnMsg(cmd, coll) \in Asking
         /\ OwnMsg(cmd, coll).pid = Itself /\ OwnMsg(cmd, coll).cmd = cmd
         /\ OwnMsg(cmd, coll).status = "OK" /\ OwnMsg(cmd, coll).coll = coll
<1> DEFINE m == Msg(Itself, 0, cmd, coll, NoOne, NoOne)
<1>1. m \in Message /\ m.pid = Itself /\ m.cmd = cmd /\ m.coll = coll
  BY DEF Msg, Message, Commands, Statuses
<1>2. OwnMsg(cmd, coll) = [m EXCEPT !.status = "OK"]
  BY DEF OwnMsg
<1> HIDE DEF m
<1>3. /\ OwnMsg(cmd, coll) \in Message /\ OwnMsg(cmd, coll).status = "OK"
      /\ OwnMsg(cmd, coll).pid = Itself /\ OwnMsg(cmd, coll).cmd = cmd
      /\ OwnMsg(cmd, coll).coll = coll
  BY <1>1, <1>2 DEF Message, Statuses
<1> QED  BY <1>3 DEF Asking, DataChanges

(* Where the manager goes by itself.                                       *)
LEMMA AtType ==
  ASSUME NEW wait \in Waits
  PROVE  /\ At(wait) \in Places
         /\ At(wait).wait = wait /\ At(wait).i = 0 /\ At(wait).n = 0
         /\ At(wait).job = "none" /\ At(wait).todo = <<>>
         /\ At(wait).msg = OwnMsg("none", NoOne)
<1>1. OwnMsg("none", NoOne) \in Asking
  BY OwnMsgType
<1> HIDE DEF OwnMsg
<1>2. 0 \in 0 .. MaxServers /\ [s \in 0 .. 1 |-> 0] \in [0 .. 1 -> Int] /\ <<>> \in Seq(Collections)
  BY DEF MaxServers
<1> QED  BY <1>1, <1>2 DEF At, Places

(* The paths that are gone through are collections that are known.         *)
LEMMA PathsType ==
  ASSUME KnownType
  PROVE  Paths \in Seq(DOMAIN seps) /\ Paths \in Seq(Collections)
<1>1. DOMAIN seps \subseteq Collections
  BY DEF KnownType, IsMap
<1>2. DOMAIN seps \in SUBSET Nat /\ IsFiniteSet(DOMAIN seps)
  BY <1>1, FiniteData, FS_Subset
<1>3. Paths \in Seq(DOMAIN seps)
  BY <1>2, OrderedList DEF Paths
<1> QED  BY <1>1, <1>3

(* The manager at the head of a list of paths.                             *)
LEMMA OverType ==
  ASSUME NEW job \in {"terminate", "redistribute"}, NEW paths \in Seq(Collections)
  PROVE  /\ Over(job, paths) \in Places
         /\ Over(job, paths).wait = "path" /\ Over(job, paths).n = 0
         /\ Over(job, paths).job = job /\ Over(job, paths).todo = paths
         /\ Over(job, paths).msg = OwnMsg("none", NoOne) /\ Over(job, paths).i = 0
<1>1. /\ At("path") \in Places
      /\ At("path").wait = "path" /\ At("path").n = 0 /\ At("path").i = 0
      /\ At("path").msg = OwnMsg("none", NoOne)
  BY AtType DEF Waits
<1> HIDE DEF At
<1> QED  BY <1>1 DEF Over, Places

(* After a loop body, or a call in it, the manager is in a place that      *)
(* needs nothing of the servers.                                           *)
AtRest(m) ==
  /\ m \in Places /\ m.n = 0 /\ m.i = 0 /\ m.msg = OwnMsg("none", NoOne)
  /\ m.job # "terminate"
  /\ m.wait \in {"main", "ended", "dead", "path"}
  /\ m.wait = "path" => m.job = "redistribute"

(* A place that needs nothing of the servers is a proper place.            *)
LEMMA RestType ==
  ASSUME AtRest(mgr'), mgr'.todo \in Seq(DOMAIN seps'), NotDue'
  PROVE  MgrType'
BY DEF AtRest, MgrType, TransferWaits

(* Where the end of the loop body leaves the manager: in the loop, ended,  *)
(* or about to redistribute all there is.                                  *)
LEMMA EndBodyType ==
  ASSUME KnownType, run \in BOOLEAN, NEW changed \in Nat, NEW n \in Nat, EndBody(changed, n)
  PROVE  /\ AtRest(mgr') /\ changes' \in Nat
         /\ mgr'.todo \in Seq(DOMAIN seps)
         /\ mgr'.wait = "main" => changes' < ChangesPerServer * (1 + n)
         /\ changed < ChangesPerServer * (1 + n) => mgr'.todo = <<>>
<1>1. Paths \in Seq(Collections) /\ Paths \in Seq(DOMAIN seps)
  BY PathsType
<1>2. /\ AtRest(Over("redistribute", Paths)) /\ Over("redistribute", Paths).todo = Paths
      /\ Over("redistribute", Paths).wait = "path"
  BY <1>1, OverType DEF AtRest
<1>3. "main" \in Waits /\ "ended" \in Waits
  BY DEF Waits
<1>4. /\ AtRest(At("main")) /\ AtRest(At("ended"))
      /\ At("main").todo = <<>> /\ At("ended").todo = <<>> /\ At("ended").wait = "ended"
  BY <1>3, AtType DEF AtRest
<1> DEFINE bound == ChangesPerServer * (1 + n)
<1>5. bound \in Nat
  BY ClusterAssumption
<1> HIDE DEF Over, At, AtRest, bound
<1>6. CASE changed >= bound
  BY <1>1, <1>2, <1>5, <1>6 DEF EndBody, bound
<1>7. CASE ~(changed >= bound)
  <2>1. changes' = changed /\ mgr' = At(IF run THEN "main" ELSE "ended") /\ changed < bound
    BY <1>5, <1>7 DEF EndBody, bound
  <2>2. <<>> \in Seq(DOMAIN seps)
    OBVIOUS
  <2>3. mgr' = At("main") \/ mgr' = At("ended")
    BY <2>1
  <2>4. AtRest(mgr') /\ mgr'.todo = <<>>
    BY <1>4, <2>3
  <2> QED  BY <2>1, <2>2, <2>4 DEF bound
<1> QED  BY <1>6, <1>7 DEF bound

(* The loop body ends with the servers that are there then.                *)
LEMMA BodyEnds ==
  ASSUME KnownType, run \in BOOLEAN, NEW changed \in Nat, EndBody(changed, Len(servers')),
         Len(servers') \in Nat, DOMAIN seps \subseteq DOMAIN seps'
  PROVE  MgrType' /\ AtRest(mgr') /\ changes' \in Nat
<1>1. /\ AtRest(mgr') /\ changes' \in Nat
      /\ mgr'.todo \in Seq(DOMAIN seps)
      /\ mgr'.wait = "main" => changes' < ChangesPerServer * (1 + Len(servers'))
  BY EndBodyType
<1>2. NotDue'
  BY <1>1 DEF NotDue, AtRest
<1> QED  BY <1>1, <1>2, RestType

(* An answer is the message with another status; whoever is asked next     *)
(* gets what was answered with another command.                            *)
LEMMA StatusType ==
  ASSUME NEW m \in Asking, NEW status \in Statuses
  PROVE  /\ [m EXCEPT !.status = status] \in Asking
         /\ [m EXCEPT !.status = status].status = status
         /\ [m EXCEPT !.status = status].cmd = m.cmd
         /\ [m EXCEPT !.status = status].coll = m.coll
         /\ [m EXCEPT !.status = status].key = m.key
         /\ [m EXCEPT !.status = status].pid = m.pid
         /\ [m EXCEPT !.status = status].named = m.named
BY DEF Asking, Message

(* An answer that names a key.                                             *)
LEMMA KeyNamedType ==
  ASSUME NEW m \in Asking, NEW status \in Statuses, NEW key \in Keys
  PROVE  /\ [m EXCEPT !.status = status, !.key = key] \in Answering
         /\ [m EXCEPT !.status = status, !.key = key].key = key
         /\ [m EXCEPT !.status = status, !.key = key].cmd = m.cmd
         /\ [m EXCEPT !.status = status, !.key = key].pid = m.pid
BY DEF Asking, Answering, Message

(* A message with a count, of messages to come or of records.              *)
LEMMA CountedType ==
  ASSUME NEW m \in Asking, NEW cnt \in Nat
  PROVE  /\ [m EXCEPT !.cnt = cnt] \in Asking
         /\ [m EXCEPT !.cnt = cnt].cmd = m.cmd /\ [m EXCEPT !.cnt = cnt].pid = m.pid
         /\ [m EXCEPT !.status = "OK", !.cnt = cnt] \in Asking
         /\ [m EXCEPT !.status = "OK", !.cnt = cnt].cmd = m.cmd
         /\ [m EXCEPT !.status = "OK", !.cnt = cnt].cnt = cnt
         /\ [m EXCEPT !.status = "OK", !.cnt = cnt].coll = m.coll
         /\ [m EXCEPT !.status = "OK", !.cnt = cnt].pid = m.pid
<1>1. "OK" \in Statuses
  BY DEF Statuses
<1> QED  BY <1>1 DEF Asking, Message

(* A key that was obtained is sent on in the message it came in.           *)
LEMMA SentOnType ==
  ASSUME NEW m \in Answering, m.status = "OK",
         NEW cmd \in {"OBTAIN_MIN", "OBTAIN_MAX", "OBTAIN_NEXT", "ADD", "DISPOSE"}
  PROVE  /\ [m EXCEPT !.cmd = cmd] \in Asking
         /\ [m EXCEPT !.cmd = cmd].cmd = cmd /\ [m EXCEPT !.cmd = cmd].pid = m.pid
<1>1. cmd \in Commands
  BY DEF Commands, DataChanges
<1> QED  BY <1>1 DEF Asking, Answering, Message

(* While the first server sets up, nothing else is asked of the place.     *)
LEMMA SetUpType ==
  ASSUME mgr = At("setup"), servers = <<>>
  PROVE  MgrType
<1>1. "setup" \in Waits /\ <<>> \in Seq(DOMAIN seps) /\ Len(servers) < MaxServers
  BY DEF Waits, MaxServers
<1>2. /\ mgr \in Places /\ mgr.wait = "setup" /\ mgr.n = 0
      /\ mgr.job = "none" /\ mgr.todo = <<>>
  BY <1>1, AtType
<1>3. NotDue
  BY <1>2 DEF NotDue
<1>4. mgr.wait \notin {"count", "move"} \cup TransferWaits
  BY <1>2 DEF TransferWaits
<1>5. mgr.wait \notin {"struct_add", "struct_dispose", "rollback"}
  BY <1>2
<1>6. mgr.wait \notin {"path", "count", "move"} \cup TransferWaits /\ mgr.wait \notin {"add", "dispose"}
  BY <1>2 DEF TransferWaits
<1>7. ~(mgr.n > 0) /\ mgr.job # "terminate" /\ mgr.todo \in Seq(DOMAIN seps)
  <2>1. ~(mgr.n > 0)
    BY <1>2
  <2>2. mgr.job # "terminate"
    BY <1>2
  <2>3. mgr.todo \in Seq(DOMAIN seps)
    BY <1>1, <1>2, Zenon
  <2> QED  BY <2>1, <2>2, <2>3
<1> QED  BY <1>1, <1>2, <1>3, <1>4, <1>5, <1>6, <1>7 DEF MgrType

-----------------------------------------------------------------------------
(* The system starts in a state of the type invariant.                     *)
LEMMA TypeInvInit ==
  ASSUME Init
  PROVE  TypeInv /\ RouteInv
<1> USE DEF Init
<1>1. 1 \in Pids /\ 1 \in 1 .. MaxReqId /\ 0 \in 0 .. MaxFaults
  BY ClusterAssumption DEF Pids
<1>2. ServersType
  BY <1>1 DEF ServersType, EmptyMap, IsMap
<1>3. MailType
  <2>1. OwnMsg("SET_IN_MEMORY_CACHE_MODE", NoOne) \in Asking
    BY OwnMsgType
  <2> HIDE DEF OwnMsg
  <2>2. inbox \in [Pids -> Seq(Asking)]
    BY <2>1
  <2> QED  BY <2>2 DEF MailType, Boxes
<1>4. KnownType
  BY DEF KnownType, EmptyMap, IsMap, MaxServers
<1>5. MgrType
  <2>1. mgr = At("setup") /\ servers = <<>>
    OBVIOUS
  <2> QED  BY ONLY <2>1, SetUpType
<1>6. ClientType
  <2>1. Idle \in Waiting
    BY <1>1 DEF Idle, Waiting, Commands
  <2> QED  BY <2>1 DEF ClientType
<1>7. HistoryType
  BY <1>1 DEF HistoryType
<1>8. RouteInv
  BY DEF RouteInv
<1> QED  BY <1>2, <1>3, <1>4, <1>5, <1>6, <1>7, <1>8 DEF TypeInv

(* A client asks with a message that names all that its command needs.     *)
LEMMA RequestShape ==
  ASSUME TypeInv, NEW c \in Clients, Request(c)
  PROVE  \E m \in Asking : m.pid = c /\ m.named /\ Ask(c, m)
<1>1. client[c].ctr \in Nat
  BY ClusterAssumption DEF TypeInv, ClientType, Waiting
<1>2. ASSUME NEW cmd \in Commands, NEW coll \in Collections \cup {NoOne},
             NEW key \in Keys \cup {NoOne}, NEW hi \in Keys \cup {NoOne},
             Ask(c, Msg(c, client[c].ctr, cmd, coll, key, hi)),
             cmd \in DataChanges \cup {"OBTAIN", "OBTAIN_NEXT", "OBTAIN_BETWEEN"} => key \in Keys,
             cmd = "OBTAIN_BETWEEN" => hi \in Keys,
             cmd = "ADD_COLLECTION" => coll \in Collections
      PROVE  \E m \in Asking : m.pid = c /\ m.named /\ Ask(c, m)
  <2> DEFINE m == Msg(c, client[c].ctr, cmd, coll, key, hi)
  <2>1. m \in Message /\ m.cmd = cmd /\ m.coll = coll /\ m.key = key /\ m.hi = hi
        /\ m.pid = c /\ m.named
    BY <1>1 DEF Msg, Message, Statuses
  <2>2. Ask(c, m)
    BY <1>2
  <2> HIDE DEF m
  <2>3. m \in Asking
    BY <1>2, <2>1 DEF Asking
  <2> QED  BY <2>1, <2>2, <2>3
<1>3. ASSUME NEW cmd \in {"ADD_POOL", "ADD_SCHEMA", "DISPOSE_POOL", "DISPOSE_SCHEMA"}
      PROVE  cmd \in Commands \ (DataChanges \cup
               {"OBTAIN", "OBTAIN_NEXT", "OBTAIN_BETWEEN", "ADD_COLLECTION"})
  BY DEF Commands, AddStruct, DropStruct, DataChanges
<1>4. /\ DataChanges \cup {"OBTAIN", "OBTAIN_BETWEEN", "ADD_COLLECTION", "DISPOSE_COLLECTION"}
           \subseteq Commands
      /\ "ADD_COLLECTION" \notin DataChanges /\ "DISPOSE_COLLECTION" \notin DataChanges
      /\ "OBTAIN_BETWEEN" \notin DataChanges
  BY DEF Commands, AddStruct, DropStruct, DataChanges
<1> DEFINE Asks(cmd, coll, key, hi) == Ask(c, Msg(c, client[c].ctr, cmd, coll, key, hi))
<1>5. \E cmd \in ClientCmds :
        \/ cmd \in {"ADD_POOL", "ADD_SCHEMA", "DISPOSE_POOL", "DISPOSE_SCHEMA"}
           /\ Asks(cmd, NoOne, NoOne, NoOne)
        \/ cmd \in {"ADD_COLLECTION", "DISPOSE_COLLECTION"}
           /\ \E coll \in Collections : Asks(cmd, coll, NoOne, NoOne)
        \/ cmd \in DataChanges \cup {"OBTAIN"}
           /\ \E coll \in Collections, key \in Keys : Asks(cmd, coll, key, NoOne)
        \/ cmd = "OBTAIN_BETWEEN"
           /\ \E coll \in Collections, lo, hi \in Keys : Asks(cmd, coll, lo, hi)
  BY DEF Request
<1>6. PICK cmd \in ClientCmds :
        \/ cmd \in {"ADD_POOL", "ADD_SCHEMA", "DISPOSE_POOL", "DISPOSE_SCHEMA"}
           /\ Asks(cmd, NoOne, NoOne, NoOne)
        \/ cmd \in {"ADD_COLLECTION", "DISPOSE_COLLECTION"}
           /\ \E coll \in Collections : Asks(cmd, coll, NoOne, NoOne)
        \/ cmd \in DataChanges \cup {"OBTAIN"}
           /\ \E coll \in Collections, key \in Keys : Asks(cmd, coll, key, NoOne)
        \/ cmd = "OBTAIN_BETWEEN"
           /\ \E coll \in Collections, lo, hi \in Keys : Asks(cmd, coll, lo, hi)
  BY <1>5
<1>7. CASE cmd \in {"ADD_POOL", "ADD_SCHEMA", "DISPOSE_POOL", "DISPOSE_SCHEMA"}
           /\ Asks(cmd, NoOne, NoOne, NoOne)
  BY <1>2, <1>3, <1>7
<1>8. CASE cmd \in {"ADD_COLLECTION", "DISPOSE_COLLECTION"}
           /\ \E coll \in Collections : Asks(cmd, coll, NoOne, NoOne)
  BY <1>2, <1>4, <1>8
<1>9. CASE cmd \in DataChanges \cup {"OBTAIN"}
           /\ \E coll \in Collections, key \in Keys : Asks(cmd, coll, key, NoOne)
  BY <1>2, <1>4, <1>9
<1>10. CASE cmd = "OBTAIN_BETWEEN"
           /\ \E coll \in Collections, lo, hi \in Keys : Asks(cmd, coll, lo, hi)
  BY <1>2, <1>4, <1>10
<1> QED  BY <1>6, <1>7, <1>8, <1>9, <1>10

(* A request is put together and sent.                                     *)
LEMMA TypeRequest ==
  ASSUME TypeInv, NEW c \in Clients, Request(c)
  PROVE  TypeInv'
<1>1. PICK m \in Asking : Ask(c, m)
  BY RequestShape
<1>2. /\ requests' \in Seq(Asking) /\ ClientType'
  <2>1. requests' \in Seq(Asking)
    BY <1>1 DEF Ask, TypeInv, MailType
  <2>2. /\ m.cmd \in Commands /\ m.coll \in Collections \cup {NoOne}
        /\ m.key \in Keys \cup {NoOne} /\ m.hi \in Keys \cup {NoOne}
    BY DEF Asking, Message
  <2>3. ClientType'
    BY <1>1, <2>2, ZenonT(40) DEF Ask, TypeInv, ClientType, Waiting
  <2> QED  BY <2>1, <2>3
<1>3. UNCHANGED <<proc, spawned, inbox, box, replies, data, servers, seps,
                  changes, mgr, run, faults, past>>
  BY DEF Request
<1>4. ServersType' /\ KnownType' /\ HistoryType' /\ MgrType'
  BY <1>3 DEF TypeInv, ServersType, KnownType, HistoryType, MgrType, NotDue, data, IsMap
<1>5. MailType'
  BY <1>2, <1>3 DEF TypeInv, MailType
<1> QED  BY <1>2, <1>4, <1>5 DEF TypeInv

(* A client that has its answer, or gives up, asks again from here.        *)
LEMMA IdleType == \A ctr \in 1 .. MaxReqId : [Idle EXCEPT !.ctr = ctr] \in Waiting
<1>1. Idle \in Waiting
  BY ClusterAssumption DEF Idle, Waiting, Commands
<1> HIDE DEF Idle
<1> QED  BY <1>1 DEF Waiting

(* A client takes a reply, or gives up.                                    *)
LEMMA FinishType ==
  ASSUME ClientType, NEW c \in Clients, NEW m, Finish(c, m)
  PROVE  ClientType'
<1>1. (client[c].ctr % MaxReqId) + 1 \in 1 .. MaxReqId
  BY ClusterAssumption DEF ClientType, Waiting
<1>2. client[c].ctr \in 1 .. MaxReqId
  BY DEF ClientType, Waiting
<1> HIDE DEF Idle
<1> QED  BY <1>1, <1>2, IdleType DEF Finish, ClientType

(* A client takes an answer or stops waiting.                              *)
LEMMA TypeClient ==
  ASSUME TypeInv, NEW c \in Clients, Client(c)
  PROVE  TypeInv'
<1>1. ClientType /\ replies \in [Clients -> Seq(Asking)]
  BY DEF TypeInv, MailType
<1>2. replies[c] # <<>> => Head(replies[c]) \in Asking
  BY <1>1
<1>3. \A m \in Asking : m.key \in Keys \cup {NoOne} /\ m.cnt \in Int
  BY DEF Asking, Message
<1>4. UNCHANGED <<proc, spawned, inbox, box, requests, data, servers, seps,
                  changes, mgr, run, faults, past>>
      /\ \/ replies' = replies
         \/ replies[c] # <<>> /\ replies' = [replies EXCEPT ![c] = Tail(@)]
  <2>1. CASE TakeReply(c)
    BY <2>1 DEF TakeReply
  <2>2. CASE TakeRangeReply(c)
    BY <2>2 DEF TakeRangeReply
  <2>3. CASE ClientTimeout(c)
    <3>1. UNCHANGED <<proc, spawned, inbox, box, requests, data, servers, seps,
                      changes, mgr, run, faults, past>>
      BY <2>3 DEF ClientTimeout, mail
    <3>2. replies' = replies
      BY <2>3 DEF ClientTimeout, mail
    <3> QED  BY <3>1, <3>2
  <2> QED  BY <2>1, <2>2, <2>3 DEF Client
<1>5. replies' \in [Clients -> Seq(Asking)]
  <2>1. CASE replies' = replies
    BY <1>1, <2>1
  <2>2. CASE replies[c] # <<>> /\ replies' = [replies EXCEPT ![c] = Tail(@)]
    <3>1. Tail(replies[c]) \in Seq(Asking)
      BY <1>1, <2>2
    <3> QED  BY <1>1, <2>2, <3>1
  <2> QED  BY <1>4, <2>1, <2>2
<1>6. ClientType'
  <2>1. CASE TakeReply(c)
    <3>1. CASE \E m : Finish(c, m)
      BY <1>1, <3>1, FinishType
    <3>2. CASE \E got \in Seq(Keys \cup {NoOne}), due \in Int :
                 client' = [client EXCEPT ![c] = [@ EXCEPT !.at = "range", !.got = got, !.due = due]]
      <4>1. PICK got \in Seq(Keys \cup {NoOne}), due \in Int :
              client' = [client EXCEPT ![c] = [@ EXCEPT !.at = "range", !.got = got, !.due = due]]
        BY <3>2
      <4>2. client[c] \in Waiting
        BY <1>1 DEF ClientType
      <4>3. [client[c] EXCEPT !.at = "range", !.got = got, !.due = due] \in Waiting
        BY <4>2 DEF Waiting
      <4> QED  BY <1>1, <4>1, <4>3 DEF ClientType
    <3>3. CASE UNCHANGED client
      BY <1>1, <3>3 DEF ClientType
    <3>4. Head(replies[c]).cnt - (IF Head(replies[c]).status = "END" THEN 1 ELSE 0) \in Int
          /\ <<Head(replies[c]).key>> \in Seq(Keys \cup {NoOne})
      BY <1>2, <1>3, <2>1 DEF TakeReply
    <3> QED  BY <2>1, <3>1, <3>2, <3>3, <3>4 DEF TakeReply
  <2>2. CASE TakeRangeReply(c)
    <3>1. CASE \E m : Finish(c, m)
      BY <1>1, <3>1, FinishType
    <3>2. CASE \E key \in Keys \cup {NoOne}, due \in Int :
                 client' = [client EXCEPT ![c] =
                   [client[c] EXCEPT !.got = Append(client[c].got, key), !.due = due]]
      <4>1. PICK key \in Keys \cup {NoOne}, due \in Int :
              client' = [client EXCEPT ![c] =
                   [client[c] EXCEPT !.got = Append(client[c].got, key), !.due = due]]
        BY <3>2
      <4>2. client[c] \in Waiting
        BY <1>1 DEF ClientType
      <4> DEFINE later == [client[c] EXCEPT !.got = Append(client[c].got, key), !.due = due]
      <4>3. Append(client[c].got, key) \in Seq(Keys \cup {NoOne})
        BY <4>2 DEF Waiting
      <4>4. later \in Waiting
        BY <4>2, <4>3 DEF Waiting
      <4>5. client' = [client EXCEPT ![c] = later]
        BY <4>1
      <4> HIDE DEF later
      <4> QED  BY <1>1, <4>4, <4>5 DEF ClientType
    <3>3. /\ client[c].due - (IF Head(replies[c]).status = "END" THEN 1 ELSE 0) \in Int
          /\ Head(replies[c]).key \in Keys \cup {NoOne}
      BY <1>1, <1>2, <1>3, <2>2 DEF TakeRangeReply, ClientType, Waiting
    <3> DEFINE m   == Head(replies[c])
               left == client[c].due - (IF m.status = "END" THEN 1 ELSE 0)
    <3>4. \/ Finish(c, [m EXCEPT !.status = "OK"])
          \/ client' = [client EXCEPT ![c] =
                [client[c] EXCEPT !.got = Append(client[c].got, m.key), !.due = left]]
      BY <1>1, <2>2 DEF TakeRangeReply, ClientType, Waiting
    <3> QED  BY <3>1, <3>2, <3>3, <3>4
  <2>3. CASE ClientTimeout(c)
    <3>1. client[c].ctr \in 1 .. MaxReqId
      BY <1>1 DEF ClientType, Waiting
    <3> HIDE DEF Idle
    <3> QED  BY <1>1, <2>3, <3>1, IdleType DEF ClientTimeout, ClientType
  <2> QED  BY <2>1, <2>2, <2>3 DEF Client
<1>7. ServersType' /\ KnownType' /\ HistoryType' /\ MgrType'
  BY <1>4 DEF TypeInv, ServersType, KnownType, HistoryType, MgrType, NotDue, data, IsMap
<1>8. MailType'
  BY <1>4, <1>5 DEF TypeInv, MailType
<1> QED  BY <1>6, <1>7, <1>8 DEF TypeInv

-----------------------------------------------------------------------------
(* A server takes its oldest message and answers it, or ends.              *)
ServerData == ServersType /\ MailType /\ HistoryType

(* What a server takes from its inbox.                                     *)
LEMMA ServesType ==
  ASSUME MailType, NEW p \in Pids, NEW cmds, Serves(p, cmds)
  PROVE  /\ Head(inbox[p]) \in Asking /\ Head(inbox[p]).cmd \in cmds
         /\ Taken(p) \in [Pids -> Seq(Asking)]
<1>1. inbox \in [Pids -> Seq(Asking)] /\ inbox[p] # <<>>
  BY DEF MailType, Serves
<1> QED  BY <1>1, TakenFrom DEF Taken, Serves

(* What a server puts into a mailbox of the manager.                       *)
LEMMA AnswerType ==
  ASSUME MailType, NEW p \in Pids, NEW cmds, Serves(p, cmds), NEW b \in Boxes,
         NEW m \in Asking, b = "answer" => m \in Answering, Answer(p, b, m),
         UNCHANGED <<requests, replies>>
  PROVE  MailType'
<1>1. inbox' \in [Pids -> Seq(Asking)]
  BY ServesType DEF Answer
<1>2. box' \in [Boxes -> Seq(Asking)]
  BY SentTo DEF MailType, Answer
<1>3. box'["answer"] \in Seq(Answering)
  <2>1. box'["answer"] = IF b = "answer" THEN Append(box["answer"], m) ELSE box["answer"]
    BY DEF MailType, Answer, Boxes
  <2> QED  BY <2>1 DEF MailType
<1> QED  BY <1>1, <1>2, <1>3 DEF MailType

(* A server that ends leaves nothing behind.                               *)
LEMMA DiesType ==
  ASSUME ServersType, MailType, NEW p \in Pids, Dies(p), UNCHANGED <<requests, replies, spawned>>
  PROVE  ServersType' /\ MailType'
<1>1. ServersType'
  BY DEF ServersType, Dies, EmptyMap, IsMap
<1>2. inbox' \in [Pids -> Seq(Asking)]
  BY DEF MailType, Dies
<1> QED  BY <1>1, <1>2 DEF MailType, Dies

(* A data command that succeeds names a key, and leaves keys.              *)
LEMMA SucceedsNames ==
  ASSUME NEW m \in Asking, NEW S \in SUBSET Keys, Succeeds(m, S),
         m.cmd \in DataChanges \cup {"OBTAIN", "OBTAIN_MIN", "OBTAIN_MAX", "OBTAIN_NEXT"}
  PROVE  Named(m, S) \in Keys /\ Effect(m, S) \in SUBSET Keys
<1>1. S \in SUBSET Nat /\ IsFiniteSet(S)
  BY FiniteData, FS_Subset
<1>2. \A T \in SUBSET S : T # {} => Least(T) \in T
  BY <1>1, LeastMember
<1>3. S # {} => Greatest(S) \in S
  BY GreatestMember
<1>4. m.cmd \in DataChanges \cup {"OBTAIN", "OBTAIN_NEXT"} => m.key \in Keys
  BY DEF Asking
<1>5. Effect(m, S) \in SUBSET Keys
  BY <1>4 DEF Effect, DataChanges
<1>6. CASE m.cmd = "OBTAIN_MIN"
  BY <1>2, <1>5, <1>6 DEF Named, Succeeds
<1>7. CASE m.cmd = "OBTAIN_MAX"
  BY <1>3, <1>5, <1>7 DEF Named, Succeeds
<1>8. CASE m.cmd = "OBTAIN_NEXT"
  <2>1. {k \in S : k > m.key} \in SUBSET S
    OBVIOUS
  <2> QED  BY <1>2, <1>4, <1>5, <1>8, <2>1 DEF Named
<1>9. CASE m.cmd \in DataChanges \cup {"OBTAIN"}
  BY <1>4, <1>5, <1>9 DEF Named, DataChanges
<1> QED  BY <1>6, <1>7, <1>8, <1>9

(* A range is answered with one message per key.                           *)
LEMMA RangeType ==
  ASSUME NEW m \in Asking, NEW S \in SUBSET Keys
  PROVE  RangeAnswers(m, S) \in Seq(Answering)
<1> DEFINE T == {k \in S : m.key <= k /\ k <= m.hi}
           keys == InRange(S, m.key, m.hi)
<1>1. T \in SUBSET Nat /\ IsFiniteSet(T)
  BY FiniteData, FS_Subset
<1>2. keys \in Seq(Keys)
  BY <1>1, OrderedList DEF InRange
<1> HIDE DEF keys
<1>3. ASSUME NEW i \in DOMAIN keys
      PROVE  [m EXCEPT !.status = IF i = Len(keys) THEN "END" ELSE "OK", !.key = keys[i]]
               \in Answering
  <2>1. keys[i] \in Keys /\ (IF i = Len(keys) THEN "END" ELSE "OK") \in Statuses
    BY <1>2 DEF Statuses
  <2> QED  BY <2>1, KeyNamedType
<1>4. CASE keys = <<>>
  <2>1. RangeAnswers(m, S) = <<[m EXCEPT !.status = "KEY"]>>
    BY <1>4 DEF RangeAnswers, keys
  <2>2. [m EXCEPT !.status = "KEY"] \in Answering
    BY StatusType DEF Answering, Statuses
  <2> QED  BY <2>1, <2>2
<1>5. CASE keys # <<>>
  <2> DEFINE answer(i) ==
        [m EXCEPT !.status = IF i = Len(keys) THEN "END" ELSE "OK", !.key = keys[i]]
  <2>1. RangeAnswers(m, S) = [i \in DOMAIN keys |-> answer(i)]
    BY <1>5 DEF RangeAnswers, keys
  <2>2. DOMAIN keys = 1 .. Len(keys) /\ Len(keys) \in Nat
    BY <1>2
  <2>3. \A i \in 1 .. Len(keys) : answer(i) \in Answering
    BY <1>3, <2>2
  <2> HIDE DEF answer
  <2> QED  BY <2>1, <2>2, <2>3
<1> QED  BY <1>4, <1>5

(* A server adds a pool, a schema or a collection, or says why not.        *)
LEMMA TypeServeAdd ==
  ASSUME ServerData, NEW p \in Pids, ServeAddStruct(p)
  PROVE  ServerData'
<1> DEFINE m == Head(inbox[p])
<1>1. m \in Asking /\ m.cmd \in AddStruct
  BY ServesType DEF ServerData, ServeAddStruct
<1>2. PICK status \in Statuses : Answer(p, "added", [m EXCEPT !.status = status])
  BY DEF ServeAddStruct, Statuses
<1>3. [m EXCEPT !.status = status] \in Asking
  BY <1>1, StatusType
<1>4. MailType'
  <2>1. "added" \in Boxes /\ Serves(p, AddStruct) /\ UNCHANGED <<requests, replies>>
    BY DEF Boxes, ServeAddStruct, Elsewhere
  <2> HIDE DEF m
  <2> QED  BY <1>2, <1>3, <2>1, AnswerType DEF ServerData
<1>5. faults' \in 0 .. MaxFaults
  BY ClusterAssumption DEF ServeAddStruct, ServerData, HistoryType
<1>6. /\ has' \in [Pids -> SUBSET {"pool", "schema"}]
      /\ store' = [q \in Pids |-> store'[q]]
      /\ \A q \in Pids : IsMap(store'[q], SUBSET Keys)
  <2>1. CASE UNCHANGED <<has, store>>
    BY <2>1 DEF ServerData, ServersType
  <2>2. CASE /\ store' = [store EXCEPT ![p] = [c \in DOMAIN @ \cup {m.coll} |->
                            IF c = m.coll THEN {} ELSE @[c]]]
             /\ m.cmd = "ADD_COLLECTION" /\ UNCHANGED has
    <3> DEFINE new == [c \in DOMAIN store[p] \cup {m.coll} |->
                         IF c = m.coll THEN {} ELSE store[p][c]]
    <3>1. m.coll \in Collections
      BY <1>1, <2>2 DEF Asking
    <3>2. IsMap(store[p], SUBSET Keys)
      BY DEF ServerData, ServersType
    <3>3. IsMap(new, SUBSET Keys)
      BY <3>1, <3>2 DEF IsMap
    <3>4. store' = [store EXCEPT ![p] = new]
      BY <2>2
    <3> HIDE DEF new
    <3> QED  BY <2>2, <3>3, <3>4 DEF ServerData, ServersType
  <2>3. CASE /\ \E what \in {"pool", "schema"} : has' = [has EXCEPT ![p] = @ \cup {what}]
             /\ UNCHANGED store
    <3>1. has \in [Pids -> SUBSET {"pool", "schema"}]
      BY DEF ServerData, ServersType
    <3>2. PICK what \in {"pool", "schema"} : has' = [has EXCEPT ![p] = has[p] \cup {what}]
      BY <2>3
    <3>3. has[p] \cup {what} \in SUBSET {"pool", "schema"}
      BY <3>1
    <3> QED  BY <2>3, <3>1, <3>2, <3>3 DEF ServerData, ServersType
  <2> QED  BY <2>1, <2>2, <2>3 DEF ServeAddStruct, data
<1>7. proc' = proc /\ spawned' = spawned /\ run' = run /\ past' = past
  BY DEF ServeAddStruct, Elsewhere
<1> QED  BY <1>4, <1>5, <1>6, <1>7 DEF ServerData, ServersType, HistoryType

(* A server disposes a pool, a schema or a collection, or says why not.    *)
LEMMA TypeServeDispose ==
  ASSUME ServerData, NEW p \in Pids, ServeDisposeStruct(p)
  PROVE  ServerData'
<1> DEFINE m == Head(inbox[p])
<1>1. m \in Asking /\ m.cmd \in DropStruct
  BY ServesType DEF ServerData, ServeDisposeStruct
<1>2. PICK status \in Statuses : Answer(p, "disposed", [WithoutName(m) EXCEPT !.status = status])
  BY DEF ServeDisposeStruct, Statuses
<1>3. [WithoutName(m) EXCEPT !.status = status] \in Asking
  <2>1. WithoutName(m) \in Asking
    BY <1>1 DEF WithoutName, Asking, Message
  <2> QED  BY <2>1, StatusType
<1>4. MailType'
  <2>1. "disposed" \in Boxes /\ Serves(p, DropStruct) /\ UNCHANGED <<requests, replies>>
    BY DEF Boxes, ServeDisposeStruct, Elsewhere
  <2> HIDE DEF m
  <2> QED  BY <1>2, <1>3, <2>1, AnswerType DEF ServerData
<1>5. past' \subseteq Events
  BY DEF ServeDisposeStruct, ServerData, HistoryType, Events
<1>6. /\ has' \in [Pids -> SUBSET {"pool", "schema"}]
      /\ store' = [q \in Pids |-> store'[q]]
      /\ \A q \in Pids : IsMap(store'[q], SUBSET Keys)
  <2>1. CASE UNCHANGED <<has, store>>
    BY <2>1 DEF ServerData, ServersType
  <2>2. CASE /\ \E H \in SUBSET {"pool", "schema"} : has' = [has EXCEPT ![p] = H]
             /\ \E new : IsMap(new, SUBSET Keys) /\ store' = [store EXCEPT ![p] = new]
    BY <2>2 DEF ServerData, ServersType
  <2>3. has[p] \in SUBSET {"pool", "schema"} /\ IsMap(store[p], SUBSET Keys)
    BY DEF ServerData, ServersType
  <2>4. /\ IsMap(EmptyMap, SUBSET Keys)
        /\ IsMap([c \in DOMAIN store[p] \ {m.coll} |-> store[p][c]], SUBSET Keys)
    BY <2>3 DEF IsMap, EmptyMap
  <2>5. (CASE m.cmd = "DISPOSE_POOL" -> {} [] m.cmd = "DISPOSE_SCHEMA" -> {"pool"}
           [] OTHER -> has[p]) \in SUBSET {"pool", "schema"}
    BY <2>3
  <2>6. IsMap(IF m.cmd = "DISPOSE_COLLECTION"
              THEN [c \in DOMAIN store[p] \ {m.coll} |-> store[p][c]] ELSE EmptyMap, SUBSET Keys)
    BY <2>4
  <2>7. \/ UNCHANGED <<has, store>>
        \/ /\ has' = [has EXCEPT ![p] = CASE m.cmd = "DISPOSE_POOL" -> {}
                         [] m.cmd = "DISPOSE_SCHEMA" -> {"pool"} [] OTHER -> has[p]]
           /\ store' = [store EXCEPT ![p] = IF m.cmd = "DISPOSE_COLLECTION"
                THEN [c \in DOMAIN store[p] \ {m.coll} |-> store[p][c]] ELSE EmptyMap]
    BY DEF ServeDisposeStruct, data
  <2> HIDE DEF m
  <2> QED  BY <2>1, <2>2, <2>5, <2>6, <2>7
<1>7. proc' = proc /\ spawned' = spawned /\ run' = run /\ faults' = faults
  BY DEF ServeDisposeStruct, Elsewhere
<1> QED  BY <1>4, <1>5, <1>6, <1>7 DEF ServerData, ServersType, HistoryType

(* A server counts, or ends.                                               *)
LEMMA TypeServeCount ==
  ASSUME ServerData, NEW p \in Pids, ServeCount(p)
  PROVE  ServerData'
<1> DEFINE m == Head(inbox[p])
<1>1. m \in Asking
  BY ServesType DEF ServerData, ServeCount
<1>2. UNCHANGED <<spawned, requests, replies, run, faults>> /\ past' \subseteq Events
  BY DEF ServeCount, Elsewhere, ServerData, HistoryType, Events
<1>3. CASE Dies(p)
  BY <1>2, <1>3, DiesType DEF ServerData, HistoryType
<1>4. CASE ~Dies(p)
  <2> DEFINE size == Cardinality(store[p][m.coll])
  <2>1. /\ m.coll \in DOMAIN store[p] /\ UNCHANGED <<proc, has, store>>
        /\ \E cnt \in {size} \cup Uninitialised :
             Answer(p, "count", [m EXCEPT !.status = "OK", !.cnt = cnt])
    BY <1>4 DEF ServeCount, data
  <2>2. PICK cnt \in {size} \cup Uninitialised :
          Answer(p, "count", [m EXCEPT !.status = "OK", !.cnt = cnt])
    BY <2>1
  <2>3. [m EXCEPT !.status = "OK", !.cnt = cnt] \in Asking
    <3>1. store[p][m.coll] \in SUBSET Keys
      BY <2>1 DEF ServerData, ServersType, IsMap
    <3>2. size \in Nat
      BY <3>1, FiniteData, FS_Subset, FS_CardinalityType
    <3> HIDE DEF size
    <3>3. cnt \in Nat
      BY <2>2, <3>2, ClusterAssumption
    <3> QED  BY <1>1, <3>3, CountedType
  <2>4. "count" \in Boxes /\ Serves(p, {"GET_RECORDS_CNT"})
    BY DEF Boxes, ServeCount
  <2> HIDE DEF m
  <2>5. MailType'
    BY <1>2, <2>2, <2>3, <2>4, AnswerType DEF ServerData
  <2> QED  BY <1>2, <2>1, <2>5 DEF ServerData, ServersType, HistoryType
<1> QED  BY <1>3, <1>4

(* A server reads or writes a record.                                      *)
LEMMA TypeServeData ==
  ASSUME ServerData, NEW p \in Pids, ServeData(p)
  PROVE  ServerData'
<1> DEFINE m == Head(inbox[p])
           S == store[p][m.coll]
           cmds == DataChanges \cup {"OBTAIN", "OBTAIN_MIN", "OBTAIN_MAX", "OBTAIN_NEXT"}
<1>1. m \in Asking /\ m.cmd \in cmds /\ Serves(p, cmds)
  BY ServesType DEF ServerData, ServeData
<1>2. UNCHANGED <<proc, spawned, has, requests, replies, run, faults, past>>
  BY DEF ServeData, Elsewhere
<1>3. \A a \in Answering : a \in Asking
  BY DEF Answering
<1>4. CASE m.coll \in DOMAIN store[p] /\ Succeeds(m, S)
  <2>1. /\ Answer(p, "answer", [m EXCEPT !.status = "OK", !.key = Named(m, S)])
        /\ store' = [store EXCEPT ![p][m.coll] = Effect(m, S)]
    BY <1>4 DEF ServeData
  <2>2. IsMap(store[p], SUBSET Keys) /\ S \in SUBSET Keys
    BY <1>4 DEF ServerData, ServersType, IsMap
  <2>3. Named(m, S) \in Keys /\ Effect(m, S) \in SUBSET Keys
    BY <1>1, <1>4, <2>2, SucceedsNames
  <2>4. [m EXCEPT !.status = "OK", !.key = Named(m, S)] \in Answering
    BY <1>1, <2>3, KeyNamedType DEF Statuses
  <2>5. MailType'
    <3> HIDE DEF m, S, cmds
    <3> QED  BY <1>1, <1>2, <1>3, <2>1, <2>4, AnswerType DEF ServerData, Boxes
  <2>6. /\ store' = [q \in Pids |-> store'[q]]
        /\ \A q \in Pids : IsMap(store'[q], SUBSET Keys)
    <3> HIDE DEF m, S, cmds
    <3> QED  BY <2>1, <2>2, <2>3 DEF ServerData, ServersType, IsMap
  <2> QED  BY <1>2, <2>5, <2>6 DEF ServerData, ServersType, HistoryType
<1>5. CASE ~(m.coll \in DOMAIN store[p] /\ Succeeds(m, S))
  <2>1. PICK status \in {"INVALID_PATH", "KEY"} :
          Answer(p, "answer", [m EXCEPT !.status = status]) /\ UNCHANGED store
    BY <1>5 DEF ServeData
  <2>2. [m EXCEPT !.status = status] \in Answering
    BY <1>1, StatusType DEF Answering, Statuses
  <2>3. MailType'
    <3> HIDE DEF m, S, cmds
    <3> QED  BY <1>1, <1>2, <1>3, <2>1, <2>2, AnswerType DEF ServerData, Boxes
  <2> QED  BY <1>2, <2>1, <2>3 DEF ServerData, ServersType, HistoryType
<1> QED  BY <1>4, <1>5

(* A server finds no memory for a value.                                   *)
LEMMA TypeNoMemory ==
  ASSUME ServerData, NEW p \in Pids, NoMemory(p)
  PROVE  ServerData'
<1> DEFINE m == Head(inbox[p])
<1>1. m \in Asking /\ Serves(p, {"ADD", "UPDATE"})
  BY ServesType DEF ServerData, NoMemory
<1>2. [m EXCEPT !.status = "BAD_ALLOC"] \in Answering
      /\ [m EXCEPT !.status = "BAD_ALLOC"] \in Asking
  BY <1>1, StatusType DEF Answering, Statuses
<1>3. /\ Answer(p, "answer", [m EXCEPT !.status = "BAD_ALLOC"])
      /\ UNCHANGED <<proc, spawned, has, store, requests, replies, run, past>>
      /\ faults' \in 0 .. MaxFaults
  BY ClusterAssumption DEF NoMemory, Elsewhere, data, ServerData, HistoryType
<1> HIDE DEF m
<1>4. MailType'
  BY <1>1, <1>2, <1>3, AnswerType DEF ServerData, Boxes
<1> QED  BY <1>3, <1>4 DEF ServerData, ServersType, HistoryType

(* A server sets up, answers a range, or ends.                             *)
LEMMA TypeServeRest ==
  ASSUME ServerData, NEW p \in Pids,
         ServeSetup(p) \/ ServeRange(p) \/ ServeEnd(p) \/ LoseQueue(p)
  PROVE  ServerData'
<1> DEFINE m == Head(inbox[p])
<1>1. UNCHANGED <<spawned, requests, replies, run, faults>>
  BY DEF ServeSetup, ServeRange, ServeEnd, LoseQueue, Elsewhere
<1>2. past' \subseteq Events
  BY DEF ServeSetup, ServeRange, ServeEnd, LoseQueue, ServerData, HistoryType, Events
<1>3. CASE Dies(p)
  BY <1>1, <1>2, <1>3, DiesType DEF ServerData, HistoryType
<1>4. ServeEnd(p) \/ LoseQueue(p) => Dies(p)
  BY DEF ServeEnd, LoseQueue
<1>5. CASE ServeSetup(p)
  <2>1. m \in Asking /\ Serves(p, {"SET_IN_MEMORY_CACHE_MODE"})
    BY <1>5, ServesType DEF ServerData, ServeSetup
  <2>2. Answer(p, "setup", [m EXCEPT !.status = "OK"]) /\ UNCHANGED <<proc, has, store>>
    BY <1>5 DEF ServeSetup, data
  <2>3. [m EXCEPT !.status = "OK"] \in Asking /\ "setup" \in Boxes
    BY <2>1, StatusType DEF Statuses, Boxes
  <2> HIDE DEF m
  <2>4. MailType'
    BY <1>1, <2>1, <2>2, <2>3, AnswerType DEF ServerData
  <2> QED  BY <1>1, <1>2, <2>2, <2>4 DEF ServerData, ServersType, HistoryType
<1>6. CASE ServeRange(p) /\ ~Dies(p)
  <2>1. m \in Asking /\ Serves(p, {"OBTAIN_BETWEEN"}) /\ Taken(p) \in [Pids -> Seq(Asking)]
    BY <1>6, ServesType DEF ServerData, ServeRange
  <2>2. UNCHANGED <<proc, has, store>>
    BY <1>6 DEF ServeRange, data
  <2>3. CASE Answer(p, "answer", [m EXCEPT !.status = "KEY"])
    <3>1. [m EXCEPT !.status = "KEY"] \in Answering /\ [m EXCEPT !.status = "KEY"] \in Asking
      BY <2>1, StatusType DEF Answering, Statuses
    <3> HIDE DEF m
    <3>2. MailType'
      BY <1>1, <2>1, <2>3, <3>1, AnswerType DEF ServerData, Boxes
    <3> QED  BY <1>1, <1>2, <2>2, <3>2 DEF ServerData, ServersType, HistoryType
  <2>4. CASE /\ m.coll \in DOMAIN store[p]
             /\ box' = [box EXCEPT !["answer"] = @ \o RangeAnswers(m, store[p][m.coll])]
             /\ inbox' = Taken(p)
    <3> DEFINE more == RangeAnswers(m, store[p][m.coll])
    <3>1. more \in Seq(Answering)
      <4>1. store[p][m.coll] \in SUBSET Keys
        BY <2>4 DEF ServerData, ServersType, IsMap
      <4> QED  BY <2>1, <4>1, RangeType
    <3>2. more \in Seq(Asking)
      <4>1. Answering \subseteq Asking
        BY DEF Answering
      <4> HIDE DEF more
      <4> QED  BY <3>1, <4>1
    <3>3. box' = [box EXCEPT !["answer"] = box["answer"] \o more]
      BY <2>4
    <3> HIDE DEF more
    <3>4. /\ box["answer"] \in Seq(Asking) /\ box["answer"] \in Seq(Answering)
          /\ "answer" \in Boxes /\ box \in [Boxes -> Seq(Asking)]
      BY DEF ServerData, MailType, Boxes
    <3>5. box["answer"] \o more \in Seq(Asking) /\ box["answer"] \o more \in Seq(Answering)
      BY <3>1, <3>2, <3>4
    <3>6. box' \in [Boxes -> Seq(Asking)] /\ box'["answer"] \in Seq(Answering)
      BY <3>3, <3>4, <3>5
    <3>7. MailType'
      BY <1>1, <2>1, <2>4, <3>6 DEF ServerData, MailType
    <3> QED  BY <1>1, <1>2, <2>2, <3>7 DEF ServerData, ServersType, HistoryType
  <2> QED  BY <1>6, <2>3, <2>4 DEF ServeRange
<1> QED  BY <1>3, <1>4, <1>5, <1>6

(* No server touches what the manager keeps.                               *)
LEMMA TypeServer ==
  ASSUME TypeInv, RouteInv, NEW p \in Pids, Server(p)
  PROVE  TypeInv' /\ RouteInv'
<1>1. ServerData'
  <2>1. ServerData
    BY DEF TypeInv, ServerData
  <2> QED  BY <2>1, TypeServeAdd, TypeServeDispose, TypeServeCount, TypeServeData,
              TypeNoMemory, TypeServeRest DEF Server
<1>2. UNCHANGED <<servers, seps, changes, mgr, client>>
  BY DEF Server, ServeSetup, ServeAddStruct, ServeDisposeStruct, ServeCount, ServeData, NoMemory,
     ServeRange, ServeEnd, LoseQueue, Elsewhere
<1>3. past \subseteq past'
  BY DEF Server, ServeSetup, ServeAddStruct, ServeDisposeStruct, ServeCount, ServeData, NoMemory,
     ServeRange, ServeEnd, LoseQueue
<1>4. KnownType' /\ MgrType' /\ ClientType'
  BY <1>2 DEF TypeInv, KnownType, MgrType, NotDue, ClientType, IsMap
<1>5. RouteInv'
  BY <1>2, <1>3 DEF RouteInv
<1> QED  BY <1>1, <1>4, <1>5 DEF TypeInv, ServerData

-----------------------------------------------------------------------------
(* Steps of the manager.  Most of them change neither the servers nor the  *)
(* separators.                                                             *)
LEMMA RouteKept ==
  ASSUME RouteInv, UNCHANGED <<servers, seps>>, past \subseteq past'
  PROVE  RouteInv'
BY DEF RouteInv

(* What the manager knows does not change with the rest.                   *)
LEMMA KnownKept ==
  ASSUME KnownType, UNCHANGED <<servers, seps>>, changes' \in Nat
  PROVE  KnownType'
BY DEF KnownType, IsMap

(* Most handlers of the manager touch no server and no client.             *)
LEMMA OutsideKept ==
  ASSUME ServersType, ClientType, UNCHANGED Outside
  PROVE  ServersType' /\ ClientType'
<1>1. UNCHANGED <<proc, spawned, has, store, client>>
  BY DEF Outside, data
<1> QED  BY <1>1 DEF ServersType, ClientType

(* What a client is sent.                                                  *)
LEMMA ReplyType ==
  ASSUME MailType, NEW m \in Asking, Reply(m)
  PROVE  replies' \in [Clients -> Seq(Asking)]
<1>1. replies \in [Clients -> Seq(Asking)]
  BY DEF MailType
<1>2. \A c \in Clients : Append(replies[c], m) \in Seq(Asking)
  BY <1>1
<1> QED  BY <1>1, <1>2 DEF Reply

(* The manager takes the oldest message of a mailbox.                      *)
LEMMA BoxTaken ==
  ASSUME MailType, NEW b \in Boxes, box[b] # <<>>, box' = [box EXCEPT ![b] = Tail(@)]
  PROVE  /\ Head(box[b]) \in Asking
         /\ b = "answer" => Head(box[b]) \in Answering
         /\ box' \in [Boxes -> Seq(Asking)] /\ box'["answer"] \in Seq(Answering)
<1>1. /\ box \in [Boxes -> Seq(Asking)] /\ box["answer"] \in Seq(Answering)
      /\ "answer" \in Boxes
  BY DEF MailType, Boxes
<1>2. Head(box[b]) \in Asking /\ box' \in [Boxes -> Seq(Asking)]
  BY <1>1, TakenFrom
<1>3. CASE b = "answer"
  <2>1. box'["answer"] = Tail(box["answer"])
    BY <1>1, <1>3
  <2> QED  BY <1>1, <1>2, <1>3, <2>1
<1>4. CASE b # "answer"
  <2>1. box'["answer"] = box["answer"]
    BY <1>1, <1>4
  <2> QED  BY <1>1, <1>2, <1>4, <2>1
<1> QED  BY <1>3, <1>4

(* A wait runs out.                                                        *)
LEMMA FaultsType ==
  ASSUME HistoryType, NEW b, RunsOut(b)
  PROVE  faults' \in 0 .. MaxFaults
BY ClusterAssumption DEF HistoryType, RunsOut

(* The manager takes a request of the commands it handles.                 *)
LEMMA RequestTaken ==
  ASSUME MailType, NEW cmds, Asked(cmds)
  PROVE  requests' \in Seq(Asking) /\ Head(requests) \in Asking /\ Head(requests).cmd \in cmds
BY DEF MailType, Asked

(* The counter of data changes.                                            *)
LEMMA CountedIsNat ==
  ASSUME KnownType, NEW m
  PROVE  Counted(m) \in Nat
BY DEF KnownType, Counted

(* The server a key is routed to, when the separators are known.           *)
LEMMA RouteIsNat ==
  ASSUME KnownType, NEW coll, NEW key, DOMAIN seps = {} \/ coll \in DOMAIN seps
  PROVE  Route(coll, key) \in Nat
<1> DEFINE below == {i \in DOMAIN seps[coll] : \A j \in 1 .. i : seps[coll][j] <= key}
<1>1. CASE DOMAIN seps = {}
  BY <1>1 DEF Route
<1>2. CASE coll \in DOMAIN seps
  <2>1. seps[coll] \in Seq(Keys \cup {Top})
    BY <1>2 DEF KnownType, IsMap
  <2>2. below \subseteq 1 .. Len(seps[coll]) /\ Len(seps[coll]) \in Nat
    BY <2>1
  <2>3. Cardinality(below) \in Nat
    <3>1. IsFiniteSet(1 .. Len(seps[coll]))
      BY <2>2, FS_Interval
    <3> HIDE DEF below
    <3>2. IsFiniteSet(below)
      BY <2>2, <3>1, FS_Subset
    <3> QED  BY <3>2, FS_CardinalityType
  <2> QED  BY <1>2, <2>3 DEF Route
<1> QED  BY <1>1, <1>2

(* What a forwarded request becomes.                                       *)
LEMMA TypeForward ==
  ASSUME TypeInv, RouteInv, ForwardAnswer \/ ForwardRequest
  PROVE  TypeInv' /\ RouteInv'
<1>1. KnownType /\ run \in BOOLEAN /\ MailType
  BY DEF TypeInv, HistoryType
<1>2. /\ UNCHANGED <<servers, seps, faults, run>> /\ UNCHANGED Outside
      /\ past \subseteq past' /\ past' \subseteq past \cup Events
  <2>1. CASE ForwardAnswer
    BY <2>1 DEF ForwardAnswer, Outside
  <2>2. CASE ForwardRequest
    <3>1. UNCHANGED <<servers, seps, faults, run>> /\ UNCHANGED Outside
      BY <2>2 DEF ForwardRequest, Outside
    <3>2. past' = past \/ past' = past \cup {"unknown_path"}
      BY <2>2 DEF ForwardRequest
    <3> QED  BY <3>1, <3>2 DEF Events
  <2> QED  BY <2>1, <2>2
<1>3. /\ requests' \in Seq(Asking) /\ replies' \in [Clients -> Seq(Asking)]
      /\ inbox' \in [Pids -> Seq(Asking)]
      /\ box' \in [Boxes -> Seq(Asking)] /\ box'["answer"] \in Seq(Answering)
      /\ MgrType' /\ changes' \in Nat
  <2>1. CASE ForwardAnswer
    <3>1. /\ Head(box["answer"]) \in Asking
          /\ box' \in [Boxes -> Seq(Asking)] /\ box'["answer"] \in Seq(Answering)
      BY <1>1, <2>1, BoxTaken DEF ForwardAnswer, Boxes
    <3>2. /\ Reply(Head(box["answer"]))
          /\ EndBody(Counted(Head(box["answer"])), Len(servers))
          /\ UNCHANGED <<inbox, requests>>
      BY <2>1 DEF ForwardAnswer
    <3>3. MgrType' /\ changes' \in Nat
      BY <1>1, <1>2, <3>2, CountedIsNat, BodyEnds DEF KnownType
    <3> QED  BY <1>1, <3>1, <3>2, <3>3, ReplyType DEF MailType
  <2>2. CASE ForwardRequest
    <3> DEFINE m     == Head(requests)
               left  == Route(m.coll, m.key)
               right == IF m.cmd = "OBTAIN_BETWEEN" THEN Route(m.coll, m.hi) ELSE left
               ids   == left .. right
               part  == [m EXCEPT !.cnt = Cardinality(ids)]
               sent  == [p \in Pids |->
                           IF proc[p] = "up" /\ \E i \in ids \cap DOMAIN servers : servers[i] = p
                           THEN Append(inbox[p], part) ELSE inbox[p]]
    <3>1. m \in Asking /\ requests' \in Seq(Asking)
      BY <1>1, <2>2, RequestTaken DEF ForwardRequest
    <3>2. /\ UNCHANGED box
          /\ \/ /\ Reply([m EXCEPT !.status = "FAILED"]) /\ servers = <<>>
                /\ EndBody(Counted(m), 0) /\ UNCHANGED inbox
             \/ Aborts /\ inbox' \in {inbox, sent}
             \/ /\ servers # <<>> /\ (DOMAIN seps = {} \/ m.coll \in DOMAIN seps)
                /\ inbox' = sent /\ EndBody(Counted(m), Len(servers)) /\ UNCHANGED replies
          /\ \/ inbox' = inbox
             \/ inbox' = sent /\ (DOMAIN seps = {} \/ m.coll \in DOMAIN seps)
      BY <2>2 DEF ForwardRequest
    <3>3. (DOMAIN seps = {} \/ m.coll \in DOMAIN seps) => left \in Nat /\ right \in Nat
      BY <1>1, RouteIsNat
    <3>4. (DOMAIN seps = {} \/ m.coll \in DOMAIN seps) => part \in Asking
      <4>1. ASSUME left \in Nat, right \in Nat  PROVE Cardinality(ids) \in Nat
        <5>1. \A a, b \in Nat : IsFiniteSet(a .. b)
          BY FS_Interval
        <5> HIDE DEF left, right
        <5> QED  BY <4>1, <5>1, FS_CardinalityType
      <4> HIDE DEF ids
      <4>2. ASSUME Cardinality(ids) \in Nat  PROVE part \in Asking
        BY <3>1, <4>2, CountedType
      <4> QED  BY <3>3, <4>1, <4>2
    <3>5. inbox' \in [Pids -> Seq(Asking)]
      <4>1. inbox \in [Pids -> Seq(Asking)]
        BY <1>1 DEF MailType
      <4>2. ASSUME part \in Asking  PROVE sent \in [Pids -> Seq(Asking)]
        <5>1. \A p \in Pids : Append(inbox[p], part) \in Seq(Asking)
          BY <4>1, <4>2
        <5> HIDE DEF part, ids
        <5> QED  BY <4>1, <5>1
      <4> HIDE DEF sent, part
      <4> QED  BY <3>2, <3>4, <4>1, <4>2
    <3>6. MgrType' /\ changes' \in Nat
      <4>1. AtRest(At("dead")) /\ At("dead").todo = <<>> /\ At("dead").wait = "dead"
        BY AtType DEF AtRest, Waits
      <4>2. Counted(m) \in Nat /\ changes \in Nat
        BY <1>1, CountedIsNat DEF KnownType
      <4> HIDE DEF m, sent
      <4>3. CASE Aborts
        <5>1. mgr' = At("dead") /\ changes' = changes /\ <<>> \in Seq(DOMAIN seps')
          BY <4>3 DEF Aborts
        <5> HIDE DEF At
        <5>2. NotDue'
          BY <4>1, <5>1 DEF NotDue
        <5> QED  BY <4>1, <4>2, <5>1, <5>2, RestType
      <4>4. CASE EndBody(Counted(m), Len(servers'))
        BY <1>1, <1>2, <4>2, <4>4, BodyEnds DEF KnownType
      <4>5. servers' = servers /\ (servers = <<>> => Len(servers) = 0)
        BY <1>2
      <4> QED  BY <3>2, <4>3, <4>4, <4>5
    <3>7. replies' \in [Clients -> Seq(Asking)]
      <4>1. [m EXCEPT !.status = "FAILED"] \in Asking
        BY <3>1, StatusType DEF Statuses
      <4>2. Reply([m EXCEPT !.status = "FAILED"]) \/ UNCHANGED replies
        BY <3>2 DEF Aborts
      <4> HIDE DEF m
      <4> QED  BY <1>1, <4>1, <4>2, ReplyType DEF MailType
    <3> QED  BY <1>1, <3>1, <3>2, <3>5, <3>6, <3>7 DEF MailType
  <2> QED  BY <2>1, <2>2
<1>4. MailType' /\ MgrType' /\ KnownType' /\ RouteInv'
  BY <1>1, <1>2, <1>3, KnownKept, RouteKept DEF MailType
<1>5. ServersType' /\ ClientType' /\ HistoryType'
  BY <1>2, OutsideKept DEF TypeInv, HistoryType
<1> QED  BY <1>4, <1>5 DEF TypeInv

(* Broadcasts.                                                             *)
LEMMA SendStructType ==
  ASSUME inbox \in [Pids -> Seq(Asking)], servers # <<>>, NEW m \in Asking, NEW i \in 1 .. MaxServers,
         NEW wait \in {"struct_add", "struct_dispose", "rollback"}, SendStruct(i, m, wait),
         UNCHANGED <<servers, changes>>, NotDue,
         mgr.wait \in {"main", "struct_add", "struct_dispose"} \/ wait = "rollback"
  PROVE  /\ inbox' \in [Pids -> Seq(Asking)] /\ MgrType'
         /\ mgr'.wait = wait /\ mgr'.i = i /\ mgr'.msg = m
<1>1. inbox' \in [Pids -> Seq(Asking)]
  BY PostType DEF SendStruct
<1>2. wait \in Waits
  BY DEF Waits
<1>3. /\ At(wait) \in Places /\ At(wait).wait = wait /\ At(wait).n = 0
      /\ At(wait).job = "none" /\ At(wait).todo = <<>>
  BY <1>2, AtType
<1>4. mgr' = [At(wait) EXCEPT !.i = i, !.msg = m]
  BY DEF SendStruct
<1> HIDE DEF At
<1>5. /\ mgr' \in Places /\ mgr'.wait = wait /\ mgr'.n = 0 /\ mgr'.job = "none"
      /\ mgr'.i = i /\ mgr'.msg = m /\ mgr'.todo = <<>>
  <2>1. i \in 0 .. MaxServers /\ i # 0
    BY DEF MaxServers
  <2> DEFINE there == At(wait)
  <2>2. /\ there \in Places /\ there.wait = wait /\ there.n = 0 /\ there.job = "none"
        /\ there.todo = <<>>
    BY <1>3
  <2>3. mgr' = [there EXCEPT !.i = i, !.msg = m]
    BY <1>4
  <2> HIDE DEF there
  <2> QED  BY <2>1, <2>2, <2>3 DEF Places
<1>6. <<>> \in Seq(DOMAIN seps') /\ i # 0 /\ servers' # <<>>
  OBVIOUS
<1>7. NotDue'
  BY <1>5 DEF NotDue
<1> QED  BY ONLY <1>1, <1>5, <1>6, <1>7, wait \in {"struct_add", "struct_dispose", "rollback"}
         DEF MgrType, TransferWaits

(* What a broadcast goes on with.                                          *)
LEMMA StructReceived ==
  ASSUME TypeInv, NEW b \in {"added", "disposed"}, NEW m, Received(b, m),
         mgr.wait \in {"struct_add", "struct_dispose", "rollback"}
  PROVE  /\ m \in Asking /\ faults' \in 0 .. MaxFaults
         /\ box' \in [Boxes -> Seq(Asking)] /\ box'["answer"] \in Seq(Answering)
<1>1. b \in Boxes /\ b # "answer" /\ MailType /\ HistoryType
  BY DEF Boxes, TypeInv
<1>2. mgr.msg \in Asking
  BY DEF TypeInv, MgrType, Places
<1>3. CASE box[b] # <<>> /\ m = Head(box[b]) /\ box' = [box EXCEPT ![b] = Tail(@)]
           /\ UNCHANGED faults
  BY <1>1, <1>3, BoxTaken DEF HistoryType
<1>4. CASE RunsOut(b) /\ m = mgr.msg /\ UNCHANGED box
  BY <1>1, <1>2, <1>4, FaultsType DEF MailType
<1> QED  BY <1>3, <1>4 DEF Received

(* A broadcast begins, or there is no server.                              *)
LEMMA TypeHandleStruct ==
  ASSUME TypeInv, RouteInv, HandleStruct
  PROVE  TypeInv' /\ RouteInv'
<1> DEFINE m == Head(requests)
<1>1. KnownType /\ run \in BOOLEAN /\ MailType
  BY DEF TypeInv, HistoryType
<1>2. /\ UNCHANGED <<servers, seps, faults, run>> /\ UNCHANGED Outside
      /\ past \subseteq past' /\ past' \subseteq past \cup Events
  BY DEF HandleStruct, Outside, Events
<1>3. m \in Asking /\ requests' \in Seq(Asking) /\ UNCHANGED box
  BY <1>1, RequestTaken DEF HandleStruct
<1>4. /\ replies' \in [Clients -> Seq(Asking)] /\ inbox' \in [Pids -> Seq(Asking)]
      /\ MgrType' /\ changes' \in Nat
  <2>1. CASE servers = <<>>
    <3>1. Reply([m EXCEPT !.status = "FAILED"]) /\ EndBody(changes, Len(servers)) /\ UNCHANGED inbox
      BY <2>1 DEF HandleStruct, Return
    <3>2. [m EXCEPT !.status = "FAILED"] \in Asking
      BY <1>3, StatusType DEF Statuses
    <3>3. changes \in Nat
      BY <1>1 DEF KnownType
    <3> HIDE DEF m
    <3>4. MgrType' /\ changes' \in Nat
      BY <1>1, <1>2, <3>1, <3>3, BodyEnds DEF KnownType
    <3> QED  BY <1>1, <3>1, <3>2, <3>4, ReplyType DEF MailType
  <2>2. CASE servers # <<>>
    <3>1. PICK wait \in {"struct_add", "struct_dispose"} : SendStruct(1, m, wait)
      BY <2>2 DEF HandleStruct
    <3>2. /\ UNCHANGED <<replies, changes>> /\ 1 \in 1 .. MaxServers
          /\ NotDue /\ mgr.wait = "main"
      BY <2>2 DEF HandleStruct, Asked, MaxServers, TypeInv, MgrType
    <3> HIDE DEF m
    <3> QED  BY <1>1, <1>2, <1>3, <2>2, <3>1, <3>2, SendStructType DEF MailType, KnownType
  <2> QED  BY <2>1, <2>2
<1>5. MailType' /\ KnownType' /\ RouteInv'
  BY <1>1, <1>2, <1>3, <1>4, KnownKept, RouteKept DEF MailType
<1>6. ServersType' /\ ClientType' /\ HistoryType'
  BY <1>2, OutsideKept DEF TypeInv, HistoryType
<1> QED  BY <1>4, <1>5, <1>6 DEF TypeInv

(* A broadcast that adds goes on, ends, or turns back.                     *)
LEMMA TypeAddStruct ==
  ASSUME TypeInv, RouteInv, AddStructGoesOn
  PROVE  TypeInv' /\ RouteInv'
<1>1. KnownType /\ run \in BOOLEAN /\ MailType /\ inbox \in [Pids -> Seq(Asking)]
  BY DEF TypeInv, HistoryType, MailType
<1>2. UNCHANGED <<servers, requests, past, run>> /\ UNCHANGED Outside /\ mgr.wait = "struct_add"
  BY DEF AddStructGoesOn, Outside
<1>3. servers # <<>> /\ Len(servers) <= MaxServers /\ Len(servers) \in Nat /\ mgr.i \in 0 .. MaxServers
  BY <1>2 DEF TypeInv, MgrType, Places, KnownType
<1> DEFINE ok(m)     == box["added"] # <<>> /\ m.status = "OK"
           failed(m) == [m EXCEPT !.status = IF m.status = "OK" THEN "FAILED" ELSE m.status]
           back(m)   == [m EXCEPT !.status = "OK", !.cmd = DisposeOf(m.cmd)]
<1>4. PICK m : /\ Received("added", m)
               /\ \/ /\ ~ok(m) /\ mgr.i = 1 /\ Reply(failed(m)) /\ Return /\ UNCHANGED <<inbox, seps>>
                  \/ /\ ~ok(m) /\ mgr.i > 1 /\ SendStruct(mgr.i - 1, back(m), "rollback")
                     /\ UNCHANGED <<replies, seps, changes>>
                  \/ /\ ok(m) /\ mgr.i < Len(servers) /\ SendStruct(mgr.i + 1, m, "struct_add")
                     /\ UNCHANGED <<replies, seps, changes>>
                  \/ /\ ok(m) /\ mgr.i = Len(servers) /\ Reply(m) /\ Return /\ UNCHANGED inbox
                     /\ seps' = IF m.cmd = "ADD_COLLECTION" THEN SepsWith(m.coll) ELSE seps
  BY DEF AddStructGoesOn
<1>5. /\ m \in Asking /\ faults' \in 0 .. MaxFaults
      /\ box' \in [Boxes -> Seq(Asking)] /\ box'["answer"] \in Seq(Answering)
  BY <1>2, <1>4, StructReceived
<1>6. failed(m) \in Asking
  <2>1. (IF m.status = "OK" THEN "FAILED" ELSE m.status) \in Statuses
    BY <1>5 DEF Asking, Message, Statuses
  <2> QED  BY <1>5, <2>1, StatusType
<1>7. back(m) \in Asking
  <2>1. DisposeOf(m.cmd) \in DropStruct /\ DisposeOf(m.cmd) \in Commands
    BY DEF DisposeOf, Commands, DropStruct
  <2>2. back(m) \in Message /\ back(m).cmd = DisposeOf(m.cmd)
    BY <1>5, <2>1 DEF Asking, Message, Statuses
  <2> QED  BY <2>1, <2>2 DEF Asking, DropStruct, DataChanges
<1>8. /\ replies' \in [Clients -> Seq(Asking)] /\ inbox' \in [Pids -> Seq(Asking)]
      /\ MgrType' /\ changes' \in Nat
  <2> HIDE DEF failed, back
  <2>1. changes \in Nat /\ replies \in [Clients -> Seq(Asking)]
    BY <1>1 DEF KnownType, MailType
  <2>2. mgr.i > 1 => mgr.i - 1 \in 1 .. MaxServers
    BY <1>3 DEF MaxServers
  <2>3. mgr.i < Len(servers) => mgr.i + 1 \in 1 .. MaxServers
    BY <1>3 DEF MaxServers
  <2>4. DOMAIN seps \subseteq DOMAIN seps'
    BY <1>4 DEF SepsWith
  <2>5. Return => MgrType' /\ changes' \in Nat
    BY <1>1, <1>2, <1>3, <2>1, <2>4, BodyEnds DEF Return
  <2>6. NotDue /\ mgr.wait \in {"main", "struct_add", "struct_dispose"}
    BY <1>2 DEF TypeInv, MgrType
  <2> QED  BY <1>1, <1>2, <1>3, <1>4, <1>5, <1>6, <1>7, <2>1, <2>2, <2>3, <2>5, <2>6,
              SendStructType, ReplyType
<1>9. KnownType' /\ RouteInv'
  <2>1. CASE UNCHANGED seps
    BY <1>1, <1>2, <1>8, <2>1, KnownKept, RouteKept
  <2>2. CASE seps' = SepsWith(m.coll) /\ m.cmd = "ADD_COLLECTION"
    <3>1. m.coll \in Collections
      BY <1>5, <2>2 DEF Asking
    <3>2. [i \in 1 .. Len(servers) - 1 |-> Top] \in Seq(Keys \cup {Top})
      BY <1>3
    <3>3. IsMap(seps', Seq(Keys \cup {Top}))
      BY <1>1, <2>2, <3>1, <3>2 DEF IsMap, SepsWith, KnownType
    <3>4. RouteInv'
      BY <1>2, <1>3, <2>2 DEF RouteInv, SepsWith
    <3> QED  BY <1>1, <1>2, <1>3, <1>8, <3>3, <3>4 DEF KnownType
  <2> QED  BY <1>4, <2>1, <2>2
<1>10. MailType' /\ ServersType' /\ ClientType' /\ HistoryType'
  BY <1>1, <1>2, <1>5, <1>8, OutsideKept DEF TypeInv, MailType, HistoryType
<1> QED  BY <1>8, <1>9, <1>10 DEF TypeInv

(* A broadcast that disposes goes on or ends.                              *)
LEMMA TypeDisposeStruct ==
  ASSUME TypeInv, RouteInv, DisposeStructGoesOn
  PROVE  TypeInv' /\ RouteInv'
<1>1. KnownType /\ run \in BOOLEAN /\ MailType /\ inbox \in [Pids -> Seq(Asking)]
  BY DEF TypeInv, HistoryType, MailType
<1>2. UNCHANGED <<servers, requests, past, run>> /\ UNCHANGED Outside /\ mgr.wait = "struct_dispose"
  BY DEF DisposeStructGoesOn, Outside
<1>3. servers # <<>> /\ Len(servers) <= MaxServers /\ Len(servers) \in Nat /\ mgr.i \in 0 .. MaxServers
  BY <1>2 DEF TypeInv, MgrType, Places, KnownType
<1> DEFINE done(m) == [m EXCEPT !.status = "OK"]
<1>4. PICK m : /\ Received("disposed", m)
               /\ \/ /\ mgr.i < Len(servers) /\ SendStruct(mgr.i + 1, m, "struct_dispose")
                     /\ UNCHANGED <<replies, seps, changes>>
                  \/ /\ Reply(done(m)) /\ Return /\ UNCHANGED inbox
                     /\ seps' = IF m.cmd = "DISPOSE_COLLECTION"
                                THEN [c \in DOMAIN seps \ {m.coll} |-> seps[c]] ELSE seps
  BY DEF DisposeStructGoesOn
<1>5. /\ m \in Asking /\ faults' \in 0 .. MaxFaults
      /\ box' \in [Boxes -> Seq(Asking)] /\ box'["answer"] \in Seq(Answering)
  BY <1>2, <1>4, StructReceived
<1>6. done(m) \in Asking
  BY <1>5, StatusType DEF Statuses
<1>7. /\ replies' \in [Clients -> Seq(Asking)] /\ inbox' \in [Pids -> Seq(Asking)]
      /\ MgrType' /\ changes' \in Nat
  <2> HIDE DEF done
  <2>1. changes \in Nat /\ replies \in [Clients -> Seq(Asking)]
    BY <1>1 DEF KnownType, MailType
  <2>2. mgr.i < Len(servers) => mgr.i + 1 \in 1 .. MaxServers
    BY <1>3 DEF MaxServers
  <2>3. NotDue /\ mgr.wait \in {"main", "struct_add", "struct_dispose"}
    BY <1>2 DEF TypeInv, MgrType
  <2>4. ASSUME Return  PROVE MgrType' /\ changes' \in Nat
    <3>1. /\ AtRest(mgr') /\ changes' \in Nat
          /\ mgr'.wait = "main" => changes' < ChangesPerServer * (1 + Len(servers))
          /\ mgr'.todo = <<>>
      BY <1>1, <1>2, <1>3, <2>1, <2>3, <2>4, EndBodyType DEF Return, NotDue
    <3>2. NotDue' /\ <<>> \in Seq(DOMAIN seps')
      BY <1>2, <3>1 DEF NotDue, AtRest
    <3> QED  BY <3>1, <3>2, RestType
  <2> QED  BY <1>1, <1>2, <1>3, <1>4, <1>5, <1>6, <2>1, <2>2, <2>3, <2>4,
              SendStructType, ReplyType
<1>8. KnownType' /\ RouteInv'
  <2>1. CASE UNCHANGED seps
    BY <1>1, <1>2, <1>7, <2>1, KnownKept, RouteKept
  <2>2. CASE seps' = [c \in DOMAIN seps \ {m.coll} |-> seps[c]]
    <3>1. IsMap(seps', Seq(Keys \cup {Top}))
      BY <1>1, <2>2 DEF IsMap, KnownType
    <3>2. RouteInv'
      BY <1>2, <2>2 DEF RouteInv
    <3> QED  BY <1>1, <1>2, <1>3, <1>7, <3>1, <3>2 DEF KnownType
  <2> QED  BY <1>4, <2>1, <2>2
<1>9. MailType' /\ ServersType' /\ ClientType' /\ HistoryType'
  BY <1>1, <1>2, <1>5, <1>7, OutsideKept DEF TypeInv, MailType, HistoryType
<1> QED  BY <1>7, <1>8, <1>9 DEF TypeInv

(* The loop that never ends.                                               *)
LEMMA TypeRollback ==
  ASSUME TypeInv, RouteInv, RollbackGoesOn
  PROVE  TypeInv' /\ RouteInv'
<1>1. KnownType /\ MailType /\ inbox \in [Pids -> Seq(Asking)]
  BY DEF TypeInv, MailType
<1>2. /\ UNCHANGED <<servers, seps, changes, requests, replies, past, run>> /\ UNCHANGED Outside
      /\ mgr.wait = "rollback"
  BY DEF RollbackGoesOn, Outside
<1>3. servers # <<>>
  BY <1>2 DEF TypeInv, MgrType
<1>4. PICK m : /\ Received("disposed", m)
               /\ SendStruct(mgr.i, [m EXCEPT !.status = "OK"], "rollback")
  BY DEF RollbackGoesOn
<1>5. /\ m \in Asking /\ faults' \in 0 .. MaxFaults
      /\ box' \in [Boxes -> Seq(Asking)] /\ box'["answer"] \in Seq(Answering)
  BY <1>2, <1>4, StructReceived
<1>6. [m EXCEPT !.status = "OK"] \in Asking
  BY <1>5, StatusType DEF Statuses
<1>7. inbox' \in [Pids -> Seq(Asking)] /\ MgrType'
  <2>1. mgr.i \in 1 .. MaxServers
    BY <1>2 DEF TypeInv, MgrType, Places, MaxServers
  <2>2. NotDue
    BY DEF TypeInv, MgrType
  <2> QED  BY <1>1, <1>2, <1>3, <1>4, <1>6, <2>1, <2>2, SendStructType
<1>8. KnownType' /\ RouteInv'
  BY <1>1, <1>2, KnownKept, RouteKept DEF KnownType
<1>9. MailType' /\ ServersType' /\ ClientType' /\ HistoryType'
  BY <1>1, <1>2, <1>5, <1>7, OutsideKept DEF TypeInv, MailType, HistoryType
<1> QED  BY <1>7, <1>8, <1>9 DEF TypeInv

-----------------------------------------------------------------------------
(* Moving keys.                                                            *)
Moving == {"path", "count", "move"} \cup TransferWaits

(* A server is asked for a count.                                          *)
LEMMA AskCountType ==
  ASSUME TypeInv, mgr.wait = "path", mgr.todo # <<>>, NEW i \in 1 .. MaxServers,
         AskCount(i), UNCHANGED <<servers, seps>>
  PROVE  inbox' \in [Pids -> Seq(Asking)] /\ MgrType'
<1>1. Head(mgr.todo) \in Collections
  BY DEF TypeInv, MgrType, Places
<1>2. OwnMsg("GET_RECORDS_CNT", Head(mgr.todo)) \in Asking
  BY <1>1, OwnMsgType
<1>3. inbox \in [Pids -> Seq(Asking)]
  BY DEF TypeInv, MailType
<1>4. inbox' \in [Pids -> Seq(Asking)]
  BY <1>2, <1>3, PostType DEF AskCount
<1>5. mgr' = [mgr EXCEPT !.wait = "count", !.i = i] /\ "count" \in Waits
  BY DEF AskCount, Waits
<1>6. /\ mgr' \in Places /\ mgr'.wait = "count" /\ mgr'.i = i /\ mgr'.n = mgr.n
      /\ mgr'.job = mgr.job /\ mgr'.todo = mgr.todo
  <2>1. mgr \in Places /\ i \in 0 .. MaxServers
    BY DEF TypeInv, MgrType, MaxServers
  <2> QED  BY <1>5, <2>1 DEF Places
<1>7. NotDue'
  BY <1>6 DEF NotDue
<1>8. i # 0 /\ mgr.todo \in Seq(DOMAIN seps)
  BY DEF TypeInv, MgrType
<1>9. MgrType'
  BY <1>6, <1>7, <1>8 DEF TypeInv, MgrType, TransferWaits
<1> QED  BY <1>4, <1>9

(* The next path of a redistribution, or of a server that ends; or the     *)
(* server is let go.                                                       *)
LEMMA TypeNextPath ==
  ASSUME TypeInv, RouteInv, NextPath
  PROVE  TypeInv' /\ RouteInv'
<1>1. /\ KnownType /\ run \in BOOLEAN /\ MailType /\ MgrType /\ inbox \in [Pids -> Seq(Asking)]
      /\ changes \in Nat /\ Len(servers) \in Nat
  BY DEF TypeInv, HistoryType, MailType, KnownType
<1>2. UNCHANGED <<box, requests, replies, seps, faults, run>> /\ UNCHANGED Outside
  BY DEF NextPath, Outside
<1>3. mgr.wait = "path" /\ mgr.job # "none" /\ mgr.job \in {"none", "terminate", "redistribute"}
  BY <1>1 DEF NextPath, MgrType, Places
<1>4. CASE mgr.todo # <<>>
  <2>1. /\ AskCount(IF mgr.job = "terminate" THEN Len(servers) ELSE 1)
        /\ UNCHANGED <<servers, changes, past>>
    BY <1>4 DEF NextPath
  <2>2. (IF mgr.job = "terminate" THEN Len(servers) ELSE 1) \in 1 .. MaxServers
    BY <1>1 DEF MgrType, MaxServers
  <2>3. inbox' \in [Pids -> Seq(Asking)] /\ MgrType'
    BY <1>2, <1>3, <1>4, <2>1, <2>2, AskCountType
  <2>4. KnownType' /\ RouteInv'
    BY <1>1, <1>2, <2>1, KnownKept, RouteKept DEF KnownType
  <2>5. MailType' /\ ServersType' /\ ClientType' /\ HistoryType'
    BY <1>1, <1>2, <2>1, <2>3, OutsideKept DEF TypeInv, MailType, HistoryType
  <2> QED  BY <2>3, <2>4, <2>5 DEF TypeInv
<1>5. CASE mgr.todo = <<>> /\ mgr.job = "terminate"
  <2>1. /\ LetGo /\ UNCHANGED changes
        /\ past' = IF \E c \in DOMAIN seps : seps[c][Len(servers) - 1] < Top
                   THEN past \cup {"ended_keeper"} ELSE past
    BY <1>5 DEF NextPath
  <2>2. Len(servers) = 2 /\ servers \in Seq(Pids)
    BY <1>1, <1>5 DEF MgrType, MaxServers, KnownType
  <2>3. servers' \in Seq(Pids) /\ Len(servers') = 1
    BY <2>1, <2>2 DEF LetGo, Front
  <2>4. inbox' \in [Pids -> Seq(Asking)]
    BY <1>1, <2>1, OwnMsgType, PostType DEF LetGo
  <2>5. MgrType'
    <3>1. mgr' = Over("redistribute", Paths) /\ Paths \in Seq(Collections) /\ Paths \in Seq(DOMAIN seps')
      BY <1>1, <1>2, <2>1, PathsType DEF LetGo
    <3> HIDE DEF Over, Paths
    <3>2. AtRest(mgr') /\ mgr'.todo = Paths /\ NotDue'
      BY <3>1, OverType DEF AtRest, NotDue
    <3> QED  BY <3>1, <3>2, RestType
  <2>6. KnownType'
    <3>1. servers' # <<>> /\ Len(servers') <= MaxServers
      BY <2>3 DEF MaxServers
    <3> QED  BY <1>1, <1>2, <2>1, <2>3, <3>1 DEF KnownType, IsMap
  <2>7. RouteInv'
    <3>1. SUFFICES ASSUME "ended_keeper" \notin past',
                          NEW c \in DOMAIN seps, NEW i \in DOMAIN seps[c], i >= 1
                   PROVE  seps[c][i] = Top
      BY <1>2, <2>3 DEF RouteInv
    <3>2. ~(seps[c][1] < Top) /\ "ended_keeper" \notin past
      BY <2>1, <2>2, <3>1
    <3>3. seps[c] \in Seq(Keys \cup {Top})
      BY <1>1 DEF KnownType, IsMap
    <3>4. i = 1 => seps[c][i] \in 1 .. NKeys \cup {NKeys + 1} /\ NKeys \in Nat
      BY <3>3, ClusterAssumption DEF Keys, Top
    <3>5. i = 1 => seps[c][i] = Top
      BY <3>2, <3>4 DEF Top
    <3>6. i \in Nat /\ servers # <<>>
      <4>1. DOMAIN seps[c] \subseteq Nat
        BY <3>3
      <4>2. servers # <<>>
        BY <2>2
      <4> QED  BY <3>1, <4>1, <4>2
    <3>7. i >= 2 => seps[c][i] = Top
      BY <2>2, <3>2, <3>6 DEF RouteInv
    <3> QED  BY <3>1, <3>5, <3>6, <3>7
  <2>8. past' \subseteq past \cup Events
    BY <2>1 DEF Events
  <2>9. MailType' /\ ServersType' /\ ClientType' /\ HistoryType'
    BY <1>1, <1>2, <2>4, <2>8, OutsideKept DEF TypeInv, MailType, HistoryType
  <2> QED  BY <2>5, <2>6, <2>7, <2>9 DEF TypeInv
<1>6. CASE mgr.todo = <<>> /\ mgr.job = "redistribute"
  <2>1. Return /\ UNCHANGED <<inbox, servers, past>>
    BY <1>6 DEF NextPath
  <2>2. MgrType' /\ changes' \in Nat
    BY <1>1, <1>2, <2>1, BodyEnds DEF Return
  <2>3. KnownType' /\ RouteInv'
    BY <1>1, <1>2, <2>1, <2>2, KnownKept, RouteKept
  <2>4. MailType' /\ ServersType' /\ ClientType' /\ HistoryType'
    BY <1>1, <1>2, <2>1, OutsideKept DEF TypeInv, MailType, HistoryType
  <2> QED  BY <2>2, <2>3, <2>4 DEF TypeInv
<1> QED  BY <1>3, <1>4, <1>5, <1>6

(* What is left of a list is a list of the same.                           *)
LEMMA TailType ==
  ASSUME NEW S, NEW l \in Seq(S), l # <<>>
  PROVE  Tail(l) \in Seq(S) /\ Head(l) \in S
OBVIOUS

(* Where a call that gives up leaves the manager.                          *)
LEMMA GiveUpType ==
  ASSUME TypeInv, mgr.wait \in {"count"} \cup TransferWaits, GiveUp, UNCHANGED <<servers, seps>>
  PROVE  MgrType' /\ changes' \in Nat
<1>1. /\ KnownType /\ run \in BOOLEAN /\ changes \in Nat
      /\ mgr.todo \in Seq(Collections) /\ mgr.todo # <<>>
      /\ mgr.todo \in Seq(DOMAIN seps)
  BY DEF TypeInv, HistoryType, KnownType, MgrType, Places
<1>2. CASE mgr.job = "terminate"
  BY <1>1, <1>2, BodyEnds DEF GiveUp, Return, KnownType
<1>3. CASE mgr.job # "terminate"
  <2>1. mgr' = Over("redistribute", Tail(mgr.todo)) /\ changes' = changes
    BY <1>3 DEF GiveUp
  <2>2. Tail(mgr.todo) \in Seq(Collections) /\ Tail(mgr.todo) \in Seq(DOMAIN seps')
    BY <1>1, TailType
  <2> HIDE DEF Over
  <2>3. AtRest(mgr') /\ mgr'.todo = Tail(mgr.todo) /\ NotDue'
    BY <2>1, <2>2, OverType DEF AtRest, NotDue
  <2> QED  BY <1>1, <2>1, <2>2, <2>3, RestType
<1> QED  BY <1>2, <1>3

(* A transfer of n keys is begun between two servers, or none is needed.   *)
LEMMA TransfersType ==
  ASSUME TypeInv, mgr.wait = "count", NEW dir \in {"left", "right"}, NEW n \in Int,
         n > 0 => Len(servers) = MaxServers, Transfers(dir, n), UNCHANGED <<servers, seps>>
  PROVE  MgrType'
<1>1. mgr' = [mgr EXCEPT !.wait = "move", !.dir = dir, !.n = n] /\ "move" \in Waits
  BY DEF Transfers, Waits
<1>2. mgr \in Places /\ mgr.todo # <<>> /\ mgr.todo \in Seq(DOMAIN seps) /\ mgr.job # "none"
  BY DEF TypeInv, MgrType
<1>3. /\ mgr' \in Places /\ mgr'.wait = "move" /\ mgr'.n = n /\ mgr'.todo = mgr.todo
      /\ mgr'.job = mgr.job
  BY <1>1, <1>2 DEF Places
<1>4. NotDue'
  BY <1>3 DEF NotDue
<1>5. mgr.job = "terminate" => Len(servers) = MaxServers
  BY DEF TypeInv, MgrType
<1> QED  BY <1>2, <1>3, <1>4, <1>5 DEF MgrType, TransferWaits

(* The count of one server of a path, and what follows from it.            *)
LEMMA CountedToType ==
  ASSUME TypeInv, mgr.wait = "count", NEW cnt \in Nat, CountedTo(cnt), UNCHANGED <<servers, seps>>
  PROVE  inbox' \in [Pids -> Seq(Asking)] /\ MgrType'
<1> DEFINE cnts == [mgr.cnts EXCEPT ![mgr.i - 1] = cnt]
           surplus == R!Differ(cnts)[0]
<1>1. /\ KnownType /\ MgrType /\ inbox \in [Pids -> Seq(Asking)]
      /\ Len(servers) \in Nat /\ Len(servers) <= MaxServers
  BY DEF TypeInv, MailType, KnownType
<1>2. /\ mgr \in Places /\ mgr.i \in 1 .. MaxServers /\ mgr.cnts \in [0 .. 1 -> Int]
      /\ mgr.todo # <<>> /\ mgr.todo \in Seq(DOMAIN seps) /\ mgr.job \in {"terminate", "redistribute"}
      /\ mgr.job = "terminate" => Len(servers) = MaxServers
      /\ Head(mgr.todo) \in Collections
  BY <1>1 DEF MgrType, Places, MaxServers
<1>3. cnts \in [0 .. 1 -> Int]
  BY <1>2 DEF MaxServers
<1>4. surplus \in Int
  <2> HIDE DEF cnts
  <2> QED  BY <1>3, SurplusType
<1>5. CASE mgr.job = "terminate"
  <2>1. Transfers("left", cnt) /\ UNCHANGED inbox
    BY <1>5 DEF CountedTo, HandOver
  <2> QED  BY <1>1, <1>2, <1>5, <2>1, TransfersType
<1>6. CASE mgr.job = "redistribute" /\ mgr.i < Len(servers)
  <2>1. /\ inbox' = Post(inbox, servers[mgr.i + 1], OwnMsg("GET_RECORDS_CNT", Head(mgr.todo)))
        /\ mgr' = [mgr EXCEPT !.i = mgr.i + 1, !.cnts = cnts]
    BY <1>6 DEF CountedTo
  <2>2. inbox' \in [Pids -> Seq(Asking)]
    <3>1. OwnMsg("GET_RECORDS_CNT", Head(mgr.todo)) \in Asking
      BY <1>2, OwnMsgType
    <3> QED  BY <1>1, <2>1, <3>1, PostType
  <2>3. mgr.i + 1 \in 0 .. MaxServers /\ mgr.i + 1 # 0
    BY <1>1, <1>2, <1>6 DEF MaxServers
  <2> HIDE DEF cnts
  <2>4. /\ mgr' \in Places /\ mgr'.wait = mgr.wait /\ mgr'.n = mgr.n /\ mgr'.i # 0
        /\ mgr'.todo = mgr.todo /\ mgr'.job = mgr.job
    BY <1>2, <1>3, <2>1, <2>3 DEF Places
  <2>5. NotDue'
    BY <2>4 DEF NotDue
  <2> QED  BY <1>1, <2>2, <2>4, <2>5 DEF MgrType, TransferWaits
<1>7. CASE mgr.job = "redistribute" /\ ~(mgr.i < Len(servers))
  <2>1. /\ UNCHANGED inbox
        /\ \/ Transfers("right", 0)
           \/ Len(servers) >= 2 /\ surplus < 0 /\ Transfers("left", -surplus)
           \/ Len(servers) >= 2 /\ Transfers("right", surplus)
    <3> HIDE DEF Transfers
    <3> QED  BY <1>1, <1>7 DEF CountedTo
  <2>2. Len(servers) >= 2 => Len(servers) = MaxServers
    <3> DEFINE l == Len(servers)
    <3>1. l \in Nat /\ l <= 2 /\ MaxServers = 2
      BY <1>1 DEF MaxServers
    <3> HIDE DEF l
    <3>2. l >= 2 => l = 2
      BY <3>1
    <3> QED  BY <3>1, <3>2 DEF l
  <2>3. -surplus \in Int /\ 0 \in Int /\ ~(0 > 0)
    BY <1>4
  <2> HIDE DEF surplus
  <2> QED  BY <1>1, <1>4, <2>1, <2>2, <2>3, TransfersType
<1> QED  BY <1>2, <1>5, <1>6, <1>7

(* A count comes, or does not.                                             *)
LEMMA TypeCount ==
  ASSUME TypeInv, RouteInv, CountAnswer \/ CountTimeout
  PROVE  TypeInv' /\ RouteInv'
<1>1. /\ KnownType /\ MailType /\ HistoryType /\ inbox \in [Pids -> Seq(Asking)]
      /\ changes \in Nat
  BY DEF TypeInv, MailType, KnownType
<1>2. UNCHANGED <<requests, replies, servers, seps, past, run>> /\ UNCHANGED Outside
  BY DEF CountAnswer, CountTimeout, Outside, mail
<1>3. /\ inbox' \in [Pids -> Seq(Asking)] /\ MgrType' /\ changes' \in Nat
      /\ box' \in [Boxes -> Seq(Asking)] /\ box'["answer"] \in Seq(Answering)
      /\ faults' \in 0 .. MaxFaults
  <2>1. CASE CountAnswer
    <3>1. /\ mgr.wait = "count" /\ box["count"] # <<>> /\ CountedTo(Head(box["count"]).cnt)
          /\ box' = [box EXCEPT !["count"] = Tail(@)] /\ UNCHANGED <<changes, faults>>
      BY <2>1 DEF CountAnswer
    <3>2. /\ Head(box["count"]) \in Asking
          /\ box' \in [Boxes -> Seq(Asking)] /\ box'["answer"] \in Seq(Answering)
      BY <1>1, <3>1, BoxTaken DEF Boxes
    <3>3. Head(box["count"]).cnt \in Nat
      BY <3>2 DEF Asking, Message
    <3> QED  BY <1>1, <1>2, <3>1, <3>2, <3>3, CountedToType DEF HistoryType
  <2>2. CASE CountTimeout
    <3>1. mgr.wait = "count" /\ RunsOut("count") /\ GiveUp /\ UNCHANGED <<inbox, box>>
      BY <2>2 DEF CountTimeout, mail
    <3> QED  BY <1>1, <1>2, <3>1, GiveUpType, FaultsType DEF MailType
  <2> QED  BY <2>1, <2>2
<1>4. KnownType' /\ RouteInv'
  BY <1>1, <1>2, <1>3, KnownKept, RouteKept
<1>5. MailType' /\ ServersType' /\ ClientType' /\ HistoryType'
  BY <1>1, <1>2, <1>3, OutsideKept DEF TypeInv, MailType, HistoryType
<1> QED  BY <1>3, <1>4, <1>5 DEF TypeInv

(* A message passed on between two servers.                                *)
LEMMA SendType ==
  ASSUME TypeInv, mgr.wait = "move" \/ mgr.wait \in TransferWaits,
         NEW p, NEW m, NEW cmd, [m EXCEPT !.cmd = cmd] \in Asking,
         NEW wait \in TransferWaits, NEW sep \in Keys \cup {NoOne},
         wait \in {"add", "dispose"} => sep \in Keys,
         Len(servers) = MaxServers, Send(p, m, cmd, wait, sep), UNCHANGED <<servers, seps>>
  PROVE  inbox' \in [Pids -> Seq(Asking)] /\ MgrType'
<1>1. /\ inbox \in [Pids -> Seq(Asking)] /\ mgr \in Places /\ mgr.todo # <<>>
      /\ mgr.todo \in Seq(DOMAIN seps) /\ mgr.job # "none"
  BY DEF TypeInv, MailType, MgrType
<1>2. inbox' \in [Pids -> Seq(Asking)]
  BY <1>1, PostType DEF Send
<1>3. mgr' = [mgr EXCEPT !.wait = wait, !.newsep = sep] /\ wait \in Waits
  BY DEF Send, Waits, TransferWaits
<1>4. /\ mgr' \in Places /\ mgr'.wait = wait /\ mgr'.n = mgr.n /\ mgr'.todo = mgr.todo
      /\ mgr'.job = mgr.job /\ mgr'.newsep = sep
  BY <1>1, <1>3 DEF Places
<1>5. NotDue'
  BY <1>4 DEF NotDue, TransferWaits
<1> QED  BY <1>1, <1>2, <1>4, <1>5 DEF MgrType, TransferWaits

(* The next key of a transfer, or none.                                    *)
LEMMA TypeBegin ==
  ASSUME TypeInv, RouteInv, BeginTransfer
  PROVE  TypeInv' /\ RouteInv'
<1>1. /\ KnownType /\ MailType /\ HistoryType /\ MgrType /\ inbox \in [Pids -> Seq(Asking)]
      /\ changes \in Nat
  BY DEF TypeInv, MailType, KnownType
<1>2. UNCHANGED <<box, requests, replies, servers, seps, changes, faults, run>> /\ UNCHANGED Outside
  BY DEF BeginTransfer, Outside
<1>3. /\ mgr.wait = "move" /\ mgr \in Places /\ mgr.todo # <<>>
      /\ mgr.todo \in Seq(DOMAIN seps) /\ mgr.todo \in Seq(Collections)
      /\ mgr.job \in {"terminate", "redistribute"}
      /\ mgr.job = "terminate" => Len(servers) = MaxServers
      /\ mgr.n > 0 => Len(servers) = MaxServers
  BY <1>1 DEF BeginTransfer, MgrType, Places
<1>4. /\ inbox' \in [Pids -> Seq(Asking)] /\ MgrType'
      /\ past \subseteq past' /\ past' \subseteq past \cup Events
  <2>1. CASE mgr.n > 0
    <3>1. PICK cmd \in {"OBTAIN_MIN", "OBTAIN_MAX"} :
            Send(From, OwnMsg("none", Head(mgr.todo)), cmd, "obtain", NoOne)
      BY <1>3, <2>1 DEF BeginTransfer, Places
    <3>2. past \subseteq past' /\ past' \subseteq past \cup {"moved_left", "crossed"}
      BY <1>3, <2>1 DEF BeginTransfer, Places
    <3>3. Head(mgr.todo) \in Collections
      BY <1>3, TailType
    <3>4. [OwnMsg("none", Head(mgr.todo)) EXCEPT !.cmd = cmd] \in Asking
      <4>1. OwnMsg("none", Head(mgr.todo)) \in Asking /\ cmd \in Commands
        BY <3>3, OwnMsgType DEF Commands
      <4> HIDE DEF OwnMsg
      <4> QED  BY <4>1 DEF Asking, Message, DataChanges
    <3>5. inbox' \in [Pids -> Seq(Asking)] /\ MgrType'
      <4>1. "obtain" \in TransferWaits /\ NoOne \in Keys \cup {NoOne}
        BY DEF TransferWaits
      <4> HIDE DEF OwnMsg, From
      <4> QED  BY <1>2, <1>3, <2>1, <3>1, <3>4, <4>1, SendType
    <3> QED  BY <3>2, <3>5 DEF Events
  <2>2. CASE ~(mgr.n > 0)
    <3>1. mgr' = Over(mgr.job, Tail(mgr.todo)) /\ UNCHANGED <<inbox, past>>
      BY <1>3, <2>2 DEF BeginTransfer, Places
    <3>2. Tail(mgr.todo) \in Seq(Collections) /\ Tail(mgr.todo) \in Seq(DOMAIN seps)
      BY <1>3, TailType
    <3> HIDE DEF Over
    <3>3. /\ mgr' \in Places /\ mgr'.wait = "path" /\ mgr'.n = 0 /\ mgr'.job = mgr.job
          /\ mgr'.todo = Tail(mgr.todo) /\ mgr'.i = 0
      BY <1>3, <3>1, <3>2, OverType, ZenonT(40)
    <3>4. NotDue'
      BY <3>3 DEF NotDue
    <3>5. MgrType'
      BY <1>2, <1>3, <3>2, <3>3, <3>4 DEF MgrType, TransferWaits
    <3> QED  BY <1>1, <3>1, <3>5
  <2> QED  BY <2>1, <2>2
<1>5. KnownType' /\ RouteInv'
  BY <1>1, <1>2, <1>4, KnownKept, RouteKept
<1>6. MailType' /\ ServersType' /\ ClientType' /\ HistoryType'
  BY <1>1, <1>2, <1>4, OutsideKept DEF TypeInv, MailType, HistoryType
<1> QED  BY <1>4, <1>5, <1>6 DEF TypeInv

(* A list with one place changed is a list of the same length.             *)
LEMMA ChangedType ==
  ASSUME NEW S, NEW l \in Seq(S), NEW x \in S
  PROVE  /\ [l EXCEPT ![1] = x] \in Seq(S) /\ DOMAIN [l EXCEPT ![1] = x] = DOMAIN l
         /\ \A i \in DOMAIN l : i # 1 => [l EXCEPT ![1] = x][i] = l[i]
<1>1. l \in [1 .. Len(l) -> S] /\ Len(l) \in Nat /\ DOMAIN l = 1 .. Len(l)
  OBVIOUS
<1>2. [l EXCEPT ![1] = x] \in [1 .. Len(l) -> S]
  BY <1>1
<1>3. \A n \in Nat : \A f \in [1 .. n -> S] : f \in Seq(S)
  OBVIOUS
<1> QED  BY <1>1, <1>2, <1>3

(* The separator between the two servers follows the key that was moved.   *)
LEMMA EndTransferType ==
  ASSUME TypeInv, RouteInv, mgr.wait = "dispose", EndTransfer, UNCHANGED servers,
         past \subseteq past'
  PROVE  KnownType' /\ RouteInv' /\ MgrType' /\ UNCHANGED <<inbox, changes>>
<1>1. /\ KnownType /\ mgr \in Places /\ mgr.todo # <<>> /\ mgr.job # "none"
      /\ mgr.todo \in Seq(DOMAIN seps) /\ mgr.newsep \in Keys /\ Len(servers) = MaxServers
  BY DEF TypeInv, MgrType, TransferWaits
<1> DEFINE coll == Head(mgr.todo)
<1>2. coll \in DOMAIN seps
  BY <1>1, TailType
<1>3. /\ seps' = [seps EXCEPT ![coll][1] = mgr.newsep] /\ UNCHANGED <<inbox, changes>>
      /\ mgr' = [mgr EXCEPT !.wait = "move", !.n = mgr.n - 1, !.newsep = NoOne]
  BY DEF EndTransfer
<1> HIDE DEF coll
<1>4. IsMap(seps, Seq(Keys \cup {Top})) /\ seps[coll] \in Seq(Keys \cup {Top})
  BY <1>1, <1>2 DEF KnownType, IsMap
<1> DEFINE moved == [seps[coll] EXCEPT ![1] = mgr.newsep]
<1>5. /\ moved \in Seq(Keys \cup {Top}) /\ DOMAIN moved = DOMAIN seps[coll]
      /\ \A i \in DOMAIN moved : i # 1 => moved[i] = seps[coll][i]
  BY <1>1, <1>4, ChangedType
<1>6. seps' = [seps EXCEPT ![coll] = moved]
  BY <1>3
<1> HIDE DEF moved
<1>7. DOMAIN seps' = DOMAIN seps /\ IsMap(seps', Seq(Keys \cup {Top}))
  BY <1>4, <1>5, <1>6 DEF IsMap
<1>8. KnownType'
  BY <1>1, <1>3, <1>7 DEF KnownType
<1>9. RouteInv'
  <2>1. SUFFICES ASSUME "ended_keeper" \notin past', servers # <<>>,
                        NEW c \in DOMAIN seps', NEW i \in DOMAIN seps'[c], i >= Len(servers)
                 PROVE  seps'[c][i] = Top
    BY DEF RouteInv
  <2>2. \A j \in DOMAIN seps[c] : j >= Len(servers) => seps[c][j] = Top
    BY <1>7, <2>1 DEF RouteInv
  <2>3. i # 1
    BY <1>1, <2>1 DEF MaxServers
  <2>4. DOMAIN seps'[c] = DOMAIN seps[c] /\ seps'[c][i] = seps[c][i]
    BY <1>2, <1>5, <1>6, <1>7, <2>1, <2>3
  <2> QED  BY <2>1, <2>2, <2>4
<1>10. /\ mgr' \in Places /\ mgr'.wait = "move" /\ mgr'.todo = mgr.todo /\ mgr'.job = mgr.job
  <2>1. "move" \in Waits /\ mgr.n - 1 \in Int /\ NoOne \in Keys \cup {NoOne}
    BY <1>1 DEF Waits, Places
  <2> QED  BY <1>1, <1>3, <2>1 DEF Places
<1>11. NotDue' /\ mgr'.todo \in Seq(DOMAIN seps')
  BY <1>1, <1>7, <1>10 DEF NotDue
<1>12. MgrType'
  BY <1>1, <1>10, <1>11 DEF MgrType, TransferWaits
<1> QED  BY <1>3, <1>8, <1>9, <1>12

(* An answer in a transfer comes, or does not.                             *)
LEMMA TypeTransfer ==
  ASSUME TypeInv, RouteInv, TransferAnswer \/ TransferTimeout
  PROVE  TypeInv' /\ RouteInv'
<1>1. /\ KnownType /\ MailType /\ HistoryType /\ MgrType /\ inbox \in [Pids -> Seq(Asking)]
      /\ changes \in Nat
  BY DEF TypeInv, MailType, KnownType
<1>2. UNCHANGED <<requests, replies, servers, past, run>> /\ UNCHANGED Outside
  BY DEF TransferAnswer, TransferTimeout, Outside
<1>3. mgr.wait \in TransferWaits /\ Len(servers) = MaxServers
  BY <1>1 DEF TransferAnswer, TransferTimeout, TransferWaits, MgrType
<1>4. /\ box' \in [Boxes -> Seq(Asking)] /\ box'["answer"] \in Seq(Answering)
      /\ faults' \in 0 .. MaxFaults
  <2>1. CASE TransferAnswer
    BY <1>1, <2>1, BoxTaken DEF TransferAnswer, Boxes, HistoryType
  <2>2. CASE TransferTimeout
    BY <1>1, <2>2, FaultsType DEF TransferTimeout, MailType
  <2> QED  BY <2>1, <2>2
<1>5. CASE mgr.wait = "dispose" /\ EndTransfer
  <2>1. KnownType' /\ RouteInv' /\ MgrType' /\ UNCHANGED inbox
    BY <1>2, <1>5, EndTransferType
  <2>2. MailType' /\ ServersType' /\ ClientType' /\ HistoryType'
    BY <1>1, <1>2, <1>4, <2>1, OutsideKept DEF TypeInv, MailType, HistoryType
  <2> QED  BY <2>1, <2>2 DEF TypeInv
<1>6. CASE GiveUp /\ UNCHANGED <<inbox, seps>>
  <2>1. MgrType' /\ changes' \in Nat
    BY <1>2, <1>3, <1>6, GiveUpType
  <2>2. KnownType' /\ RouteInv'
    BY <1>1, <1>2, <1>6, <2>1, KnownKept, RouteKept
  <2>3. MailType' /\ ServersType' /\ ClientType' /\ HistoryType'
    BY <1>1, <1>2, <1>4, <1>6, OutsideKept DEF TypeInv, MailType, HistoryType
  <2> QED  BY <2>1, <2>2, <2>3 DEF TypeInv
<1>7. CASE /\ TransferAnswer /\ mgr.wait # "dispose" /\ Head(box["answer"]).status = "OK"
           /\ UNCHANGED <<seps, changes>>
  <2> DEFINE m == Head(box["answer"])
  <2>1. m \in Answering /\ m.status = "OK" /\ m.key \in Keys
    BY <1>1, <1>7, BoxTaken DEF TransferAnswer, Boxes, Answering
  <2>2. PICK p \in {From, To}, cmd \in {"OBTAIN_NEXT", "ADD", "DISPOSE"},
               wait \in TransferWaits, sep \in Keys \cup {NoOne} :
          Send(p, m, cmd, wait, sep) /\ (wait \in {"add", "dispose"} => sep \in Keys)
    <3>1. \/ Send(From, m, "OBTAIN_NEXT", "next", NoOne)
          \/ Send(To, m, "ADD", "add", m.key)
          \/ mgr.wait = "add" /\ Send(From, m, "DISPOSE", "dispose", mgr.newsep)
      <4> HIDE DEF m
      <4> QED  BY <1>7 DEF TransferAnswer, m
    <3>2. /\ "next" \in TransferWaits /\ "add" \in TransferWaits /\ "dispose" \in TransferWaits
          /\ mgr.wait = "add" => mgr.newsep \in Keys
      BY <1>1 DEF TransferWaits, MgrType
    <3> HIDE DEF m, From, To, Send
    <3>3. CASE Send(From, m, "OBTAIN_NEXT", "next", NoOne)
      BY <3>2, <3>3
    <3>4. CASE Send(To, m, "ADD", "add", m.key)
      BY <2>1, <3>2, <3>4
    <3>5. CASE mgr.wait = "add" /\ Send(From, m, "DISPOSE", "dispose", mgr.newsep)
      BY <3>2, <3>5
    <3> QED  BY <3>1, <3>3, <3>4, <3>5
  <2>3. [m EXCEPT !.cmd = cmd] \in Asking
    BY <2>1, SentOnType
  <2> HIDE DEF m
  <2>4. inbox' \in [Pids -> Seq(Asking)] /\ MgrType'
    BY <1>2, <1>3, <1>7, <2>2, <2>3, SendType
  <2>5. KnownType' /\ RouteInv'
    BY <1>1, <1>2, <1>7, KnownKept, RouteKept
  <2>6. MailType' /\ ServersType' /\ ClientType' /\ HistoryType'
    BY <1>1, <1>2, <1>4, <2>4, OutsideKept DEF TypeInv, MailType, HistoryType
  <2> QED  BY <2>4, <2>5, <2>6 DEF TypeInv
<1>8. CASE TransferAnswer
  <2>1. \/ mgr.wait = "dispose" /\ EndTransfer
        \/ GiveUp /\ UNCHANGED <<inbox, seps>>
        \/ /\ mgr.wait # "dispose" /\ Head(box["answer"]).status = "OK"
           /\ UNCHANGED <<seps, changes>>
    <3>1. CASE mgr.wait = "dispose"
      BY <1>8, <3>1 DEF TransferAnswer
    <3>2. CASE mgr.wait # "dispose"
      BY <1>8, <3>2 DEF TransferAnswer
    <3> QED  BY <3>1, <3>2
  <2> QED  BY <1>5, <1>6, <1>7, <1>8, <2>1
<1>9. CASE TransferTimeout
  BY <1>5, <1>6, <1>9 DEF TransferTimeout
<1> QED  BY <1>8, <1>9

-----------------------------------------------------------------------------
(* Servers started and ended.                                              *)
LEMMA TypeSetupAnswer ==
  ASSUME TypeInv, RouteInv, SetupAnswer
  PROVE  TypeInv' /\ RouteInv'
<1>1. /\ KnownType /\ MailType /\ HistoryType /\ MgrType /\ run \in BOOLEAN
      /\ changes \in Nat /\ spawned \in Pids /\ servers \in Seq(Pids) /\ Len(servers) \in Nat
      /\ IsMap(seps, Seq(Keys \cup {Top}))
  BY DEF TypeInv, KnownType, HistoryType, ServersType
<1>2. /\ mgr.wait = "setup" /\ UNCHANGED <<inbox, requests, replies, faults, run>>
      /\ UNCHANGED Outside
      /\ servers' = Append(servers, spawned) /\ seps' = SepsGrown
      /\ past \subseteq past' /\ past' \subseteq past \cup {"joined_late"}
      /\ box["setup"] # <<>> /\ box' = [box EXCEPT !["setup"] = Tail(@)]
  BY DEF SetupAnswer, Outside
<1>3. Len(servers) < MaxServers
  BY <1>1, <1>2 DEF MgrType
<1>4. /\ servers' \in Seq(Pids) /\ Len(servers') = Len(servers) + 1 /\ servers' # <<>>
      /\ Len(servers') <= MaxServers
  BY <1>1, <1>2, <1>3 DEF MaxServers
<1>5. DOMAIN seps' = DOMAIN seps /\ IsMap(seps', Seq(Keys \cup {Top}))
  <2>1. CASE servers = <<>>
    BY <1>1, <1>2, <2>1 DEF SepsGrown
  <2>2. CASE servers # <<>>
    <3>1. seps' = [c \in DOMAIN seps |-> Append(seps[c], Top)]
      BY <1>2, <2>2 DEF SepsGrown
    <3>2. \A c \in DOMAIN seps : Append(seps[c], Top) \in Seq(Keys \cup {Top})
      BY <1>1 DEF IsMap
    <3> QED  BY <1>1, <3>1, <3>2 DEF IsMap
  <2> QED  BY <2>1, <2>2
<1>6. MgrType' /\ changes' \in Nat
  <2>1. CASE servers = <<>>
    <3>1. EndBody(changes, 1) /\ Len(servers') = 1
      <4>1. Len(servers) = 0
        BY <2>1
      <4>2. EndBody(changes, 1)
        BY <2>1 DEF SetupAnswer
      <4> QED  BY <1>4, <4>1, <4>2
    <3> HIDE DEF EndBody
    <3>2. EndBody(changes, Len(servers')) /\ Len(servers') \in Nat /\ DOMAIN seps \subseteq DOMAIN seps'
      BY <1>5, <3>1
    <3> QED  BY <1>1, <3>2, BodyEnds
  <2>2. CASE servers # <<>>
    <3>1. mgr' = Over("redistribute", Paths) /\ changes' = changes
      BY <2>2 DEF SetupAnswer
    <3>2. Paths \in Seq(Collections) /\ Paths \in Seq(DOMAIN seps')
      BY <1>1, <1>5, PathsType
    <3> HIDE DEF Over, Paths
    <3>3. AtRest(mgr') /\ mgr'.todo = Paths /\ NotDue'
      BY <3>1, <3>2, OverType DEF AtRest, NotDue
    <3> QED  BY <1>1, <3>1, <3>2, <3>3, RestType
  <2> QED  BY <2>1, <2>2
<1>7. KnownType'
  BY <1>4, <1>5, <1>6 DEF KnownType
<1>8. RouteInv'
  <2>1. SUFFICES ASSUME "ended_keeper" \notin past',
                        NEW c \in DOMAIN seps', NEW i \in DOMAIN seps'[c], i >= Len(servers')
                 PROVE  seps'[c][i] = Top
    BY DEF RouteInv
  <2>2. servers # <<>> /\ c \in DOMAIN seps /\ seps'[c] = Append(seps[c], Top)
    BY <1>1, <1>2, <1>5, <2>1 DEF KnownType, SepsGrown
  <2>3. seps[c] \in Seq(Keys \cup {Top})
    BY <1>1, <2>2 DEF IsMap
  <2>4. /\ DOMAIN seps[c] = 1 .. Len(seps[c]) /\ Len(seps[c]) \in Nat
        /\ i \in 1 .. Len(seps[c]) + 1 /\ i >= Len(servers) + 1
        /\ \A j \in 1 .. Len(seps[c]) : Append(seps[c], Top)[j] = seps[c][j]
        /\ Append(seps[c], Top)[Len(seps[c]) + 1] = Top
    <3>1. DOMAIN seps[c] = 1 .. Len(seps[c]) /\ Len(seps[c]) \in Nat
      BY <2>3
    <3>2. DOMAIN Append(seps[c], Top) = 1 .. Len(seps[c]) + 1
      BY <2>3
    <3>3. i \in 1 .. Len(seps[c]) + 1 /\ i >= Len(servers) + 1
      BY <1>4, <2>1, <2>2, <3>2
    <3>4. /\ \A j \in 1 .. Len(seps[c]) : Append(seps[c], Top)[j] = seps[c][j]
          /\ Append(seps[c], Top)[Len(seps[c]) + 1] = Top
      BY <2>3
    <3> QED  BY <3>1, <3>3, <3>4
  <2>5. CASE i = Len(seps[c]) + 1
    BY <2>2, <2>4, <2>5
  <2>6. CASE i # Len(seps[c]) + 1
    <3>1. i \in DOMAIN seps[c] /\ i >= Len(servers)
      BY <1>1, <2>4, <2>6
    <3>2. seps[c][i] = Top
      BY <1>2, <2>1, <2>2, <3>1 DEF RouteInv
    <3> QED  BY <2>2, <2>4, <3>1, <3>2
  <2> QED  BY <2>5, <2>6
<1>9. box' \in [Boxes -> Seq(Asking)] /\ box'["answer"] \in Seq(Answering)
  BY <1>1, <1>2, BoxTaken DEF Boxes
<1>10. MailType' /\ ServersType' /\ ClientType' /\ HistoryType'
  BY <1>1, <1>2, <1>9, OutsideKept DEF TypeInv, MailType, HistoryType, Events
<1> QED  BY <1>6, <1>7, <1>8, <1>10 DEF TypeInv

(* A server did not set up.                                                *)
LEMMA TypeSetupTimeout ==
  ASSUME TypeInv, RouteInv, SetupTimeout
  PROVE  TypeInv' /\ RouteInv'
<1>1. /\ KnownType /\ MailType /\ HistoryType /\ ServersType /\ ClientType
      /\ run \in BOOLEAN /\ changes \in Nat /\ Len(servers) \in Nat
  BY DEF TypeInv, KnownType, HistoryType
<1>2. /\ UNCHANGED <<spawned, box, requests, replies, has, store, servers, seps, client, run, past>>
      /\ proc' = [proc EXCEPT ![spawned] = "gone"]
      /\ inbox' = [inbox EXCEPT ![spawned] = <<>>]
      /\ EndBody(changes, Len(servers)) /\ RunsOut("setup")
  BY DEF SetupTimeout, Return, data
<1>3. MgrType' /\ changes' \in Nat
  BY <1>1, <1>2, BodyEnds
<1>4. inbox' \in [Pids -> Seq(Asking)]
  <2>1. <<>> \in Seq(Asking) /\ inbox \in [Pids -> Seq(Asking)]
    BY <1>1 DEF MailType
  <2> QED  BY <1>2, <2>1
<1>5. proc' \in [Pids -> {"unborn", "up", "gone"}]
  BY <1>1, <1>2 DEF ServersType
<1>6. MailType' /\ ServersType' /\ ClientType'
  BY <1>1, <1>2, <1>4, <1>5 DEF MailType, ServersType, ClientType
<1>7. KnownType' /\ RouteInv'
  BY <1>1, <1>2, <1>3, KnownKept, RouteKept
<1>8. HistoryType'
  BY <1>1, <1>2, FaultsType DEF HistoryType
<1> QED  BY <1>3, <1>6, <1>7, <1>8 DEF TypeInv

(* run, terminate and shutdown, and the end of the manager.                *)
LEMMA TypeTerminal ==
  ASSUME TypeInv, RouteInv, HandleRun \/ HandleTerminate \/ HandleShutdown \/ TypeShutdown
  PROVE  TypeInv' /\ RouteInv'
<1>1. /\ KnownType /\ MailType /\ HistoryType /\ ServersType /\ ClientType /\ MgrType
      /\ inbox \in [Pids -> Seq(Asking)] /\ changes \in Nat /\ Len(servers) \in Nat
  BY DEF TypeInv, KnownType, MailType
<1>2. UNCHANGED <<box, requests, replies, has, store, servers, seps, changes, client, faults, past>>
  BY DEF HandleRun, HandleTerminate, HandleShutdown, TypeShutdown, Outside, mail, data
<1>3. KnownType' /\ RouteInv' /\ ClientType'
  BY <1>1, <1>2, KnownKept, RouteKept DEF ClientType
<1>4. CASE HandleRun
  <2>1. /\ spawned' = spawned + 1 /\ proc' = [proc EXCEPT ![spawned + 1] = "up"]
        /\ inbox' = [inbox EXCEPT ![spawned + 1] = <<OwnMsg("SET_IN_MEMORY_CACHE_MODE", NoOne)>>]
        /\ spawned < MaxSpawned /\ Len(servers) < MaxServers
        /\ mgr' = At("setup") /\ run' = run
    BY <1>4 DEF HandleRun
  <2>2. spawned' \in Pids
    <3>1. MaxSpawned \in Nat /\ spawned \in 1 .. MaxSpawned
      BY <1>1, ClusterAssumption DEF ServersType, Pids
    <3> QED  BY <2>1, <3>1 DEF Pids
  <2>3. inbox' \in [Pids -> Seq(Asking)]
    <3>1. OwnMsg("SET_IN_MEMORY_CACHE_MODE", NoOne) \in Asking
      BY OwnMsgType
    <3> HIDE DEF OwnMsg
    <3>2. <<OwnMsg("SET_IN_MEMORY_CACHE_MODE", NoOne)>> \in Seq(Asking)
      BY <3>1
    <3> QED  BY <1>1, <2>1, <3>2
  <2>4. proc' \in [Pids -> {"unborn", "up", "gone"}]
    BY <1>1, <2>1 DEF ServersType
  <2>5. MgrType'
    <3>1. "setup" \in Waits /\ <<>> \in Seq(DOMAIN seps')
      BY DEF Waits
    <3> HIDE DEF At
    <3>2. /\ mgr' \in Places /\ mgr'.wait = "setup" /\ mgr'.n = 0
          /\ mgr'.job = "none" /\ mgr'.todo = <<>>
      BY <2>1, <3>1, AtType
    <3>3. NotDue'
      BY <3>2 DEF NotDue
    <3>4. mgr'.wait \notin {"count", "move"} \cup TransferWaits
      BY <3>2 DEF TransferWaits
    <3>5. /\ mgr'.wait \notin {"path", "count", "move"} \cup TransferWaits
          /\ mgr'.wait \notin {"struct_add", "struct_dispose", "rollback", "add", "dispose"}
      BY <3>2 DEF TransferWaits
    <3>6. ~(mgr'.n > 0) /\ mgr'.job # "terminate" /\ Len(servers') < MaxServers
      BY <1>2, <2>1, <3>2
    <3>7. mgr'.todo \in Seq(DOMAIN seps')
      BY <3>1, <3>2, Zenon
    <3> QED  BY <3>2, <3>3, <3>4, <3>5, <3>6, <3>7 DEF MgrType
  <2>6. MailType' /\ ServersType' /\ HistoryType'
    BY <1>1, <1>2, <2>1, <2>2, <2>3, <2>4 DEF MailType, ServersType, HistoryType
  <2> QED  BY <1>3, <2>5, <2>6 DEF TypeInv
<1>5. CASE HandleTerminate \/ HandleShutdown
  <2>1. UNCHANGED <<proc, spawned, inbox, run>>
    BY <1>5 DEF HandleTerminate, HandleShutdown, Outside, mail
  <2>2. CASE mgr' = At("dead") \/ mgr' = At("ended")
    <3>1. "dead" \in Waits /\ "ended" \in Waits /\ <<>> \in Seq(DOMAIN seps')
      BY DEF Waits
    <3> HIDE DEF At
    <3>2. AtRest(mgr') /\ mgr'.todo = <<>> /\ mgr'.wait # "main"
      BY <2>2, <3>1, AtType DEF AtRest
    <3>3. NotDue'
      BY <3>2 DEF NotDue, AtRest
    <3>4. MgrType'
      BY <3>1, <3>2, <3>3, RestType
    <3>5. MailType' /\ ServersType' /\ HistoryType'
      BY <1>1, <1>2, <2>1 DEF MailType, ServersType, HistoryType
    <3> QED  BY <1>3, <3>4, <3>5 DEF TypeInv
  <2>3. CASE mgr' = Over("terminate", Paths) /\ Len(servers) # 1 /\ servers # <<>>
    <3>1. Len(servers) = MaxServers
      <4> DEFINE l == Len(servers)
      <4>1. l \in Nat /\ l <= 2 /\ l # 0 /\ l # 1 /\ MaxServers = 2
        BY <1>1, <2>3 DEF KnownType, MaxServers
      <4> HIDE DEF l
      <4>2. l = MaxServers
        BY <4>1
      <4> QED  BY <4>2 DEF l
    <3>2. Paths \in Seq(Collections) /\ Paths \in Seq(DOMAIN seps')
      BY <1>1, <1>2, PathsType
    <3> HIDE DEF Over, Paths
    <3>3. /\ mgr' \in Places /\ mgr'.wait = "path" /\ mgr'.n = 0 /\ mgr'.job = "terminate"
          /\ mgr'.todo = Paths
      BY <2>3, <3>2, OverType
    <3>4. NotDue'
      BY <3>3 DEF NotDue
    <3>5. MgrType'
      BY <1>2, <3>1, <3>2, <3>3, <3>4 DEF MgrType, TransferWaits
    <3>6. MailType' /\ ServersType' /\ HistoryType'
      BY <1>1, <1>2, <2>1 DEF MailType, ServersType, HistoryType
    <3> QED  BY <1>3, <3>5, <3>6 DEF TypeInv
  <2> QED  BY <1>5, <2>2, <2>3 DEF HandleTerminate, HandleShutdown
<1>6. CASE TypeShutdown
  <2>1. /\ UNCHANGED <<proc, spawned, mgr>> /\ run' = FALSE
        /\ inbox' = [p \in Pids |->
             IF proc[p] = "up" /\ p \in ToSet(servers)
             THEN Append(inbox[p], OwnMsg("SHUTDOWN", NoOne)) ELSE inbox[p]]
    BY <1>6 DEF TypeShutdown
  <2>2. inbox' \in [Pids -> Seq(Asking)]
    <3>1. OwnMsg("SHUTDOWN", NoOne) \in Asking
      BY OwnMsgType
    <3> HIDE DEF OwnMsg
    <3>2. \A p \in Pids : Append(inbox[p], OwnMsg("SHUTDOWN", NoOne)) \in Seq(Asking)
      BY <1>1, <3>1
    <3> QED  BY <1>1, <2>1, <3>2
  <2>3. MgrType'
    BY <1>1, <1>2, <2>1 DEF MgrType, NotDue
  <2>4. MailType' /\ ServersType' /\ HistoryType'
    BY <1>1, <1>2, <2>1, <2>2 DEF MailType, ServersType, HistoryType
  <2> QED  BY <1>3, <2>3, <2>4 DEF TypeInv
<1> QED  BY <1>4, <1>5, <1>6

-----------------------------------------------------------------------------
(* Every step keeps the invariant.                                         *)
LEMMA TypeInvStep ==
  ASSUME TypeInv, RouteInv, [Next]_vars
  PROVE  TypeInv' /\ RouteInv'
<1>1. CASE UNCHANGED vars
  <2>1. UNCHANGED <<proc, spawned, inbox, box, requests, replies, has, store, servers, seps,
                    changes, mgr, client, run, faults, past>>
    BY <1>1 DEF vars, mail, data
  <2> QED  BY <2>1 DEF TypeInv, ServersType, MailType, KnownType, MgrType, NotDue, ClientType,
                    HistoryType, RouteInv, IsMap
<1>2. CASE \E p \in Pids : Server(p)
  BY <1>2, TypeServer
<1>3. CASE \E c \in Clients : Request(c) \/ Client(c)
  <2>1. UNCHANGED <<servers, seps>> /\ past \subseteq past'
    BY <1>3 DEF Request, Client, TakeReply, TakeRangeReply, ClientTimeout
  <2>2. RouteInv'
    BY <2>1, RouteKept
  <2> QED  BY <1>3, <2>2, TypeRequest, TypeClient
<1>4. CASE Manager
  BY <1>4, TypeForward, TypeHandleStruct, TypeAddStruct, TypeRollback, TypeDisposeStruct,
     TypeNextPath, TypeCount, TypeBegin, TypeTransfer, TypeSetupAnswer, TypeSetupTimeout,
     TypeTerminal DEF Manager
<1>5. CASE Terminal
  BY <1>5, TypeTerminal DEF Terminal
<1> QED  BY <1>1, <1>2, <1>3, <1>4, <1>5 DEF Next

(* The invariant holds throughout.                                         *)
LEMMA TypeInvHolds == Spec => [](TypeInv /\ RouteInv)
<1>1. Init => TypeInv /\ RouteInv
  BY TypeInvInit
<1>2. (TypeInv /\ RouteInv) /\ [Next]_vars => (TypeInv /\ RouteInv)'
  BY TypeInvStep
<1> QED  BY <1>1, <1>2, PTL DEF Spec

(* Whatever servers and clients do, and whatever waits run out: every      *)
(* process has a state, every server the pools, schemas and keys there     *)
(* are, the manager at most two servers, separators only for collections,  *)
(* and a place in its loop that the code has.                              *)
THEOREM ClusterTypeCorrect == Spec => []TypeOK
<1>1. TypeInv => TypeOK
  <2>1. SUFFICES ASSUME TypeInv  PROVE TypeOK
    OBVIOUS
  <2>2. /\ proc \in [Pids -> {"unborn", "up", "gone"}] /\ spawned \in Pids
        /\ has \in [Pids -> SUBSET {"pool", "schema"}]
        /\ \A p \in Pids : /\ DOMAIN store[p] \subseteq Collections
                           /\ \A c \in DOMAIN store[p] : store[p][c] \subseteq Keys
    BY <2>1 DEF TypeInv, ServersType, IsMap
  <2>3. /\ Len(servers) <= MaxServers /\ servers \in Seq(Pids) /\ DOMAIN seps \subseteq Collections
        /\ \A c \in DOMAIN seps : seps[c] \in Seq(Keys \cup {Top})
        /\ changes \in Nat
    BY <2>1 DEF TypeInv, KnownType, IsMap
  <2>4. ToSet(servers) \subseteq Pids /\ \A c \in DOMAIN seps : ToSet(seps[c]) \subseteq Keys \cup {Top}
    <3>1. \A S : \A l \in Seq(S) : ToSet(l) \subseteq S
      BY DEF ToSet
    <3> QED  BY <2>3, <3>1
  <2>5. mgr.wait \in Waits /\ mgr.i \in 0 .. MaxServers
    BY <2>1 DEF TypeInv, MgrType, Places
  <2>6. \A c \in Clients : client[c].at \in {"idle", "asked", "range"}
                           /\ client[c].ctr \in 1 .. MaxReqId
    BY <2>1 DEF TypeInv, ClientType, Waiting
  <2>7. run \in BOOLEAN /\ faults \in 0 .. MaxFaults /\ past \subseteq Events
    BY <2>1 DEF TypeInv, HistoryType
  <2> QED  BY <2>2, <2>3, <2>4, <2>5, <2>6, <2>7 DEF TypeOK
<1> QED  BY <1>1, TypeInvHolds, PTL

(* get_id_for_key names a server that is there, as RouteInv says.          *)
LEMMA RouteInside ==
  ASSUME TypeInv, RouteInv, servers # <<>>, "ended_keeper" \notin past,
         NEW c \in DOMAIN seps, NEW k \in Keys
  PROVE  Route(c, k) <= Len(servers)
<1> DEFINE below == {i \in DOMAIN seps[c] : \A j \in 1 .. i : seps[c][j] <= k}
           n == Len(servers)
<1>1. /\ seps[c] \in Seq(Keys \cup {Top}) /\ n \in Nat /\ n # 0 /\ DOMAIN seps[c] \subseteq Nat \ {0}
  <2>1. seps[c] \in Seq(Keys \cup {Top}) /\ servers \in Seq(Pids)
    BY DEF TypeInv, KnownType, IsMap
  <2>2. DOMAIN seps[c] = 1 .. Len(seps[c]) /\ Len(seps[c]) \in Nat
    BY <2>1
  <2> QED  BY <2>1, <2>2
<1>2. ASSUME NEW i \in below  PROVE i \in 1 .. n - 1
  <2>1. i \in DOMAIN seps[c] /\ i \in Nat \ {0} /\ \A j \in 1 .. i : seps[c][j] <= k
    BY <1>1
  <2>2. seps[c][i] <= k
    BY <2>1
  <2>3. k \in 1 .. NKeys /\ NKeys \in Nat /\ Top = NKeys + 1
    BY ClusterAssumption DEF Keys, Top
  <2>4. ~(i >= n)
    BY <2>1, <2>2, <2>3 DEF RouteInv
  <2> HIDE DEF n
  <2> QED  BY <1>1, <2>1, <2>4
<1>3. n - 1 \in Nat
  <2> HIDE DEF n
  <2> QED  BY <1>1
<1>4. Cardinality(below) <= n - 1 /\ Cardinality(below) \in Nat
  <2>1. IsFiniteSet(1 .. n - 1) /\ Cardinality(1 .. n - 1) = n - 1
    <3>1. \A b \in Nat : IsFiniteSet(1 .. b) /\ Cardinality(1 .. b) = b
      BY FS_Interval
    <3> HIDE DEF n
    <3> QED  BY <1>3, <3>1
  <2>2. below \subseteq 1 .. n - 1
    BY <1>2
  <2> HIDE DEF below, n
  <2>3. IsFiniteSet(below) /\ Cardinality(below) <= Cardinality(1 .. n - 1)
    BY <2>1, <2>2, FS_Subset
  <2> QED  BY <2>1, <2>3, FS_CardinalityType
<1>5. Route(c, k) = 1 + Cardinality(below)
  BY DEF Route
<1> HIDE DEF below, n
<1>6. 1 + Cardinality(below) <= n
  BY <1>1, <1>4
<1> QED  BY <1>5, <1>6 DEF n

(* Whatever servers joined and ended, in whatever order, and however keys  *)
(* moved between them: while no server was ended with a separator before   *)
(* its keys, get_id_for_key names a server that is there.                  *)
THEOREM RoutesStayInside == Spec => []RoutesInside
<1>1. TypeInv /\ RouteInv => RoutesInside
  BY RouteInside DEF RoutesInside
<1> QED  BY <1>1, TypeInvHolds, PTL

=============================================================================
