------------------------------ MODULE Cluster ------------------------------
(***************************************************************************)
(* The manager server as the keeper of its storage servers: it starts and  *)
(* ends them when the terminal says so, broadcasts the commands that add   *)
(* and dispose pools, schemas and collections, keeps separators for every  *)
(* collection, and spreads range queries over the servers.  How keys move  *)
(* between many servers is the subject of Redistribution and Manager; here *)
(* there are at most two servers at a time, so that one loop of transfers  *)
(* is a whole redistribution.                                              *)
(*                                                                         *)
(* There is one pool with one schema; collections are numbered in the      *)
(* order of the map of separators.  Servers are numbered from 1 where the  *)
(* code counts from 0.                                                     *)
(***************************************************************************)
EXTENDS Integers, Sequences, SequencesExt, FiniteSets

CONSTANTS
  Clients,           \* client processes
  NCollections,      \* collections are 1 .. NCollections
  NKeys,             \* keys are 1 .. NKeys
  ClientCmds,        \* the commands the clients issue
  ChangesPerServer,  \* 30 in main
  MaxReqId,          \* where request_counter wraps around
  MaxSpawned,        \* bound on the servers ever started
  StopAfter,         \* bound: the events after which nobody asks for more
  Uninitialised,     \* what an unset _records_cnt may show
  MaxFaults          \* bound on early timeouts and failed allocations

ASSUME ClusterAssumption ==
  /\ NCollections \in Nat /\ NKeys \in Nat \ {0}
  /\ ChangesPerServer \in Nat \ {0} /\ MaxReqId \in Nat \ {0}
  /\ MaxSpawned \in Nat \ {0} /\ MaxFaults \in Nat
  /\ Uninitialised \subseteq Nat

MaxServers  == 2
Collections == 1 .. NCollections
Keys        == 1 .. NKeys
Top         == NKeys + 1
Pids        == 1 .. MaxSpawned
NoOne       == 0     \* no key, no collection

(* The pid field of what the manager sends on its own behalf.              *)
Itself == "manager"

DataChanges  == {"ADD", "UPDATE", "DISPOSE"}
AddStruct    == {"ADD_POOL", "ADD_SCHEMA", "ADD_COLLECTION"}
DropStruct   == {"DISPOSE_POOL", "DISPOSE_SCHEMA", "DISPOSE_COLLECTION"}

(* The mailboxes of what servers send to the manager, by their mtype.      *)
Boxes == {"answer", "setup", "added", "disposed", "count"}

VARIABLES
  proc,      \* [pid -> unborn, up or gone]
  spawned,   \* how many servers were ever started
  inbox,     \* [pid -> messages]
  box,       \* [Boxes -> messages to the manager]
  requests,  \* messages of the clients
  replies,   \* [client -> messages]
  has,       \* [pid -> which of pool and schema its db_storage has]
  store,     \* [pid -> [its collections -> keys]]
  servers,   \* strg_servers
  seps,      \* separators: [collections it knows -> keys]
  changes,   \* data_change_counter
  mgr,       \* where the manager is, and the locals of the calls it is in
  client,    \* [client -> the request it waits for]
  run,       \* run_flag of the manager
  faults,    \* early timeouts and failed allocations so far
  past       \* history: the events in Events that have happened

mail == <<inbox, box, requests, replies>>
data == <<has, store>>
vars == <<proc, spawned, mail, data, servers, seps, changes, mgr, client, run,
          faults, past>>

(* What the properties are conditional on.                                 *)
(*   joined_late   a server joined when collections were known             *)
(*   crossed       keys began to move with a message under way             *)
(*   half_disposed DISPOSE_SCHEMA was sent to two servers                  *)
(*   dropped_above a pool or schema was disposed with a collection in it   *)
(*   ended_keeper  a server was ended with a separator before its keys     *)
(*   stray_range   a range whose least key its server does not have        *)
(*   unknown_path  a data command for a collection without separators      *)
(*   moved_left    transfer_left was called                                *)
(*   short_count   a server that is to end reported fewer keys than it has *)
Events == {"joined_late", "crossed", "half_disposed", "dropped_above",
           "ended_keeper", "stray_range", "unknown_path", "moved_left",
           "short_count"}

-----------------------------------------------------------------------------
EmptyMap == [c \in {} |-> {}]

Msg(pid, req, cmd, coll, key, hi) ==
  [pid |-> pid, req |-> req, cmd |-> cmd, status |-> "CLIENT", coll |-> coll,
   key |-> key, hi |-> hi, cnt |-> 0, named |-> TRUE]

OwnMsg(cmd, coll) == [Msg(Itself, 0, cmd, coll, NoOne, NoOne) EXCEPT !.status = "OK"]

(* The manager in its loop, at wait, with no call under way: i is the      *)
(* server a broadcast has reached, msg the message variable it reuses; job *)
(* is what moves keys, todo the collections it still has to see to, cnts   *)
(* the counts so far; dir and n are the call of transfer_*_n.              *)
At(wait) == [wait |-> wait, i |-> 0, msg |-> OwnMsg("none", NoOne),
             job |-> "none", todo |-> <<>>, cnts |-> [s \in 0 .. 1 |-> 0],
             dir |-> "none", n |-> 0, newsep |-> NoOne]

Idle == [at |-> "idle", ctr |-> 1, cmd |-> "none", coll |-> NoOne,
         lo |-> NoOne, hi |-> NoOne, got |-> <<>>, due |-> 0]

(* What is sent to a process that is gone stays on the queue unread.       *)
Post(boxes, p, m) ==
  IF proc[p] = "up" THEN [boxes EXCEPT ![p] = Append(@, m)] ELSE boxes

(* main has sent itself one ADD_STORAGE_SERVER, of the lowest mtype.       *)
Init ==
  /\ proc = [p \in Pids |-> IF p = 1 THEN "up" ELSE "unborn"]
  /\ spawned = 1
  /\ inbox = [p \in Pids |->
       IF p = 1 THEN <<OwnMsg("SET_IN_MEMORY_CACHE_MODE", NoOne)>> ELSE <<>>]
  /\ box = [b \in Boxes |-> <<>>] /\ requests = <<>>
  /\ replies = [c \in Clients |-> <<>>]
  /\ has = [p \in Pids |-> {}] /\ store = [p \in Pids |-> EmptyMap]
  /\ servers = <<>> /\ seps = EmptyMap /\ changes = 0
  /\ run = TRUE
  /\ mgr = At("setup")
  /\ client = [c \in Clients |-> Idle]
  /\ faults = 0 /\ past = {}

(* msgrcvt gives up: surely when nothing can come any more, else early.    *)
RunsOut(b) ==
  /\ box[b] = <<>>
  /\ \/ (\A p \in Pids : inbox[p] = <<>>) /\ UNCHANGED faults
     \/ /\ \E p \in Pids : inbox[p] # <<>>
        /\ faults < MaxFaults /\ faults' = faults + 1

-----------------------------------------------------------------------------
(* Clients.                                                                *)

(* Bound: nobody types or asks for more after a shutdown or one of the     *)
(* events StopAfter, or when the manager does not read requests any more.  *)
MayAsk == /\ run /\ past \cap StopAfter = {}
          /\ faults > 0 => "fault" \notin StopAfter
          /\ mgr.wait \notin {"rollback", "dead"}

Ask(c, m) ==
  /\ requests' = Append(requests, m)
  /\ client' = [client EXCEPT ![c] = [@ EXCEPT
       !.at = "asked", !.cmd = m.cmd, !.coll = m.coll, !.lo = m.key, !.hi = m.hi]]

Request(c) ==
  /\ client[c].at = "idle" /\ MayAsk
  /\ \E cmd \in ClientCmds :
       LET ask(coll, key, hi) == Ask(c, Msg(c, client[c].ctr, cmd, coll, key, hi))
       IN  \/ cmd \in {"ADD_POOL", "ADD_SCHEMA", "DISPOSE_POOL", "DISPOSE_SCHEMA"}
              /\ ask(NoOne, NoOne, NoOne)
           \/ cmd \in {"ADD_COLLECTION", "DISPOSE_COLLECTION"}
              /\ \E coll \in Collections : ask(coll, NoOne, NoOne)
           \/ cmd \in DataChanges \cup {"OBTAIN"}
              /\ \E coll \in Collections, key \in Keys : ask(coll, key, NoOne)
           \/ cmd = "OBTAIN_BETWEEN"
              /\ \E coll \in Collections, lo, hi \in Keys : ask(coll, lo, hi)
  /\ UNCHANGED <<proc, spawned, inbox, box, replies, data, servers, seps,
                 changes, mgr, run, faults, past>>

(* The statuses that handle_server_answer does not throw on.  CLIENT is    *)
(* what a struct command is answered with when the first server is late.   *)
Success == {"OK", "END", "CLIENT"}

(* A mutant: request_counter does not wrap around.                         *)
FinishNoWrap(c, m) ==
  client' = [client EXCEPT ![c] =
    [Idle EXCEPT !.ctr = client[c].ctr + (IF m.status \in Success THEN 1 ELSE 0)]]

Finish(c, m) ==
  client' = [client EXCEPT ![c] =
    [Idle EXCEPT !.ctr = IF m.status \in Success THEN (client[c].ctr % MaxReqId) + 1
                                                 ELSE client[c].ctr]]

(* handle_server_answer up to the first message that has the req_id.       *)
TakeReply(c) ==
  /\ client[c].at = "asked" /\ replies[c] # <<>>
  /\ LET m == Head(replies[c])
         ends == IF m.status = "END" THEN 1 ELSE 0
     IN  \/ m.req # client[c].ctr /\ UNCHANGED client
         \/ /\ m.req = client[c].ctr
            /\ m.cmd # "OBTAIN_BETWEEN" \/ m.status \notin Success \/ ends = m.cnt
            /\ Finish(c, m)
         \/ /\ m.req = client[c].ctr
            /\ m.cmd = "OBTAIN_BETWEEN" /\ m.status \in Success /\ ends # m.cnt
            /\ client' = [client EXCEPT ![c] = [@ EXCEPT
                 !.at = "range", !.got = <<m.key>>, !.due = m.cnt - ends]]
  /\ replies' = [replies EXCEPT ![c] = Tail(@)]
  /\ UNCHANGED <<proc, spawned, inbox, box, requests, data, servers, seps,
                 changes, mgr, run, faults, past>>

(* Its loop over the rest of a range, which looks at no req_id.            *)
TakeRangeReply(c) ==
  /\ client[c].at = "range" /\ replies[c] # <<>>
  /\ LET m == Head(replies[c])
         left == client[c].due - (IF m.status = "END" THEN 1 ELSE 0)
     IN  IF left = 0
         THEN Finish(c, [m EXCEPT !.status = "OK"])
         ELSE client' = [client EXCEPT ![c].got = Append(@, m.key), ![c].due = left]
  /\ replies' = [replies EXCEPT ![c] = Tail(@)]
  /\ UNCHANGED <<proc, spawned, inbox, box, requests, data, servers, seps,
                 changes, mgr, run, faults, past>>

(* Nothing of client c's request is left with the manager or a server that *)
(* could still answer it.                                                  *)
Forgotten(c) ==
  LET held(s) == \E i \in DOMAIN s : s[i].pid = c
  IN  /\ \/ mgr.wait \in {"ended", "dead", "rollback"}
         \/ /\ ~held(requests) /\ ~held(box["answer"])
            /\ mgr.msg.pid # c
      /\ \A p \in Pids : ~held(inbox[p])

ClientTimeout(c) ==
  /\ client[c].at # "idle" /\ replies[c] = <<>> /\ Forgotten(c)
  /\ client' = [client EXCEPT ![c] = [Idle EXCEPT !.ctr = client[c].ctr]]
  /\ UNCHANGED <<proc, spawned, mail, data, servers, seps, changes, mgr, run,
                 faults, past>>

-----------------------------------------------------------------------------
(* Storage servers.  Each takes the oldest message sent to its pid.        *)

Serves(p, cmds) == proc[p] = "up" /\ inbox[p] # <<>> /\ Head(inbox[p]).cmd \in cmds

Taken(p) == [inbox EXCEPT ![p] = Tail(@)]

(* The same message goes back, with the mtype of its mailbox.              *)
Answer(p, b, m) ==
  /\ box' = [box EXCEPT ![b] = Append(@, m)]
  /\ inbox' = Taken(p)

(* An exception that main does not catch ends the process.                 *)
Dies(p) ==
  /\ proc' = [proc EXCEPT ![p] = "gone"]
  /\ inbox' = [inbox EXCEPT ![p] = <<>>]
  /\ has' = [has EXCEPT ![p] = {}] /\ store' = [store EXCEPT ![p] = EmptyMap]
  /\ UNCHANGED box

Elsewhere == <<spawned, requests, replies, servers, seps, changes, mgr, client, run>>

ServeSetup(p) ==
  /\ Serves(p, {"SET_IN_MEMORY_CACHE_MODE"})
  /\ Answer(p, "setup", [Head(inbox[p]) EXCEPT !.status = "OK"])
  /\ UNCHANGED <<Elsewhere, proc, data, faults, past>>

(* add_pool, add_schema and add_collection: the path above, then the       *)
(* insertion, which may find the name taken or no memory.                  *)
AboveExists(p, m) ==
  CASE m.cmd \in {"ADD_POOL", "DISPOSE_POOL"}     -> TRUE
    [] m.cmd \in {"ADD_SCHEMA", "DISPOSE_SCHEMA"} -> "pool" \in has[p]
    [] OTHER                                      -> m.named /\ "schema" \in has[p]

Exists(p, m) ==
  CASE m.cmd \in {"ADD_POOL", "DISPOSE_POOL"}     -> "pool" \in has[p]
    [] m.cmd \in {"ADD_SCHEMA", "DISPOSE_SCHEMA"} -> m.named /\ "schema" \in has[p]
    [] OTHER                                      -> m.coll \in DOMAIN store[p]

ServeAddStruct(p) ==
  /\ Serves(p, AddStruct)
  /\ LET m == Head(inbox[p])
         answer(status) == Answer(p, "added", [m EXCEPT !.status = status])
     IN  \/ /\ ~AboveExists(p, m)
            /\ answer("INVALID_PATH") /\ UNCHANGED <<data, faults>>
         \/ /\ AboveExists(p, m) /\ Exists(p, m)
            /\ answer("DUPLICATE") /\ UNCHANGED <<data, faults>>
         \/ /\ AboveExists(p, m) /\ ~Exists(p, m)
            /\ faults < MaxFaults /\ faults' = faults + 1
            /\ answer("BAD_ALLOC") /\ UNCHANGED data
         \/ /\ AboveExists(p, m) /\ ~Exists(p, m)
            /\ answer("OK") /\ UNCHANGED faults
            /\ IF m.cmd = "ADD_COLLECTION"
               THEN /\ store' = [store EXCEPT ![p] =
                         [c \in DOMAIN @ \cup {m.coll} |->
                            IF c = m.coll THEN {} ELSE @[c]]]
                    /\ UNCHANGED has
               ELSE /\ has' = [has EXCEPT ![p] =
                         @ \cup {IF m.cmd = "ADD_POOL" THEN "pool" ELSE "schema"}]
                    /\ UNCHANGED store
  /\ UNCHANGED <<Elsewhere, proc, past>>

(* A mutant: DISPOSE_COLLECTION clears the name as well.                   *)
WithoutNameAlways(m) == [m EXCEPT !.named = FALSE]

(* DISPOSE_POOL and DISPOSE_SCHEMA clear schema_name before they answer.   *)
WithoutName(m) ==
  IF m.cmd = "DISPOSE_COLLECTION" THEN m ELSE [m EXCEPT !.named = FALSE]

ServeDisposeStruct(p) ==
  /\ Serves(p, DropStruct)
  /\ LET m == Head(inbox[p])
         answer(status) == Answer(p, "disposed", [WithoutName(m) EXCEPT !.status = status])
     IN  \/ /\ ~AboveExists(p, m)
            /\ answer("INVALID_PATH") /\ UNCHANGED <<data, past>>
         \/ /\ AboveExists(p, m) /\ ~Exists(p, m)
            /\ answer("NOT_EXIST") /\ UNCHANGED <<data, past>>
         \/ /\ AboveExists(p, m) /\ Exists(p, m)
            /\ answer("OK")
            /\ has' = [has EXCEPT ![p] = CASE m.cmd = "DISPOSE_POOL"   -> {}
                                           [] m.cmd = "DISPOSE_SCHEMA" -> {"pool"}
                                           [] OTHER                    -> @]
            /\ store' = [store EXCEPT ![p] =
                 IF m.cmd = "DISPOSE_COLLECTION"
                 THEN [c \in DOMAIN @ \ {m.coll} |-> @[c]]
                 ELSE EmptyMap]
            /\ past' = IF m.cmd # "DISPOSE_COLLECTION" /\ DOMAIN store[p] # {}
                       THEN past \cup {"dropped_above"} ELSE past
  /\ UNCHANGED <<Elsewhere, proc, faults>>

(* GET_RECORDS_CNT rethrows invalid_path_exception.  The number is         *)
(* _records_cnt, which the move into the schema leaves unset and the moves *)
(* in the tree of collections leave with another collection: it may be the *)
(* right one, or anything in Uninitialised.                                *)
ServeCount(p) ==
  /\ Serves(p, {"GET_RECORDS_CNT"})
  /\ LET m    == Head(inbox[p])
         size == Cardinality(store[p][m.coll])
     IN  \/ /\ m.coll \in DOMAIN store[p]
            /\ \E cnt \in {size} \cup Uninitialised :
                 /\ Answer(p, "count", [m EXCEPT !.status = "OK", !.cnt = cnt])
                 /\ past' = IF mgr.job = "terminate" /\ cnt < size
                            THEN past \cup {"short_count"} ELSE past
            /\ UNCHANGED <<proc, data>>
         \/ /\ m.coll \notin DOMAIN store[p]
            /\ Dies(p) /\ UNCHANGED past
  /\ UNCHANGED <<Elsewhere, faults>>

Least(S)    == CHOOSE k \in S : \A l \in S : k <= l
Greatest(S) == CHOOSE k \in S : \A l \in S : k >= l

(* The data commands on one key: whether they succeed on the tree S, the   *)
(* key they name in their answer, and what becomes of S.                   *)
Succeeds(m, S) ==
  CASE m.cmd = "ADD"                          -> m.key \notin S
    [] m.cmd \in {"OBTAIN_MIN", "OBTAIN_MAX"} -> S # {}
    [] OTHER                                  -> m.key \in S

Named(m, S) ==
  LET above == {k \in S : k > m.key}
  IN  CASE m.cmd = "OBTAIN_MIN"                  -> Least(S)
        [] m.cmd = "OBTAIN_MAX"                  -> Greatest(S)
        [] m.cmd = "OBTAIN_NEXT" /\ above # {}   -> Least(above)
        [] OTHER                                 -> m.key

Effect(m, S) ==
  CASE m.cmd = "ADD" -> S \cup {m.key} [] m.cmd = "DISPOSE" -> S \ {m.key} [] OTHER -> S

ServeData(p) ==
  /\ Serves(p, DataChanges \cup {"OBTAIN", "OBTAIN_MIN", "OBTAIN_MAX", "OBTAIN_NEXT"})
  /\ LET m == Head(inbox[p])
     IN  IF m.coll \notin DOMAIN store[p]
         THEN Answer(p, "answer", [m EXCEPT !.status = "INVALID_PATH"]) /\ UNCHANGED store
         ELSE LET S == store[p][m.coll]
              IN  IF Succeeds(m, S)
                  THEN /\ Answer(p, "answer", [m EXCEPT !.status = "OK", !.key = Named(m, S)])
                       /\ store' = [store EXCEPT ![p][m.coll] = Effect(m, S)]
                  ELSE /\ Answer(p, "answer", [m EXCEPT !.status = "KEY"])
                       /\ UNCHANGED store
  /\ UNCHANGED <<Elsewhere, proc, has, faults, past>>

(* insert and update make room for the value before they look at the tree, *)
(* and find none.  What a lack of memory does further down, in the tree,   *)
(* is the subject of BTree.                                                *)
NoMemory(p) ==
  /\ Serves(p, {"ADD", "UPDATE"})
  /\ Head(inbox[p]).coll \in DOMAIN store[p]
  /\ faults < MaxFaults /\ faults' = faults + 1
  /\ Answer(p, "answer", [Head(inbox[p]) EXCEPT !.status = "BAD_ALLOC"])
  /\ UNCHANGED <<Elsewhere, proc, data, past>>

(* The order in which the tree and the map of separators are walked; not   *)
(* by SetToSortSeq, which the provers do not see into.                     *)
Ordered(S) ==
  CHOOSE l \in [1 .. Cardinality(S) -> S] :
    \A i, j \in 1 .. Cardinality(S) : i < j => l[i] < l[j]

InRange(S, lo, hi) == Ordered({k \in S : lo <= k /\ k <= hi})

(* A mutant: the records of a range without the left bound.                *)
RangeAnswersAfter(m, S) ==
  LET keys == InRange(S, m.key + 1, m.hi)
  IN  IF keys = <<>> THEN <<[m EXCEPT !.status = "KEY"]>>
      ELSE [i \in DOMAIN keys |->
              [m EXCEPT !.status = IF i = Len(keys) THEN "END" ELSE "OK", !.key = keys[i]]]

(* One message per record, the last one with OBTAIN_BETWEEN_END; for       *)
(* bounds the wrong way round there is no record, and one message.         *)
RangeAnswers(m, S) ==
  LET keys == InRange(S, m.key, m.hi)
  IN  IF keys = <<>> THEN <<[m EXCEPT !.status = "KEY"]>>
      ELSE [i \in DOMAIN keys |->
              [m EXCEPT !.status = IF i = Len(keys) THEN "END" ELSE "OK", !.key = keys[i]]]

(* The left bound is obtained first, outside of any handler for a key that *)
(* is not there.  The parts are sent one by one, all into the one mailbox  *)
(* and while the server looks at no other message, so nobody but the       *)
(* manager sees how many are there yet: here they are there at once.       *)
ServeRange(p) ==
  /\ Serves(p, {"OBTAIN_BETWEEN"})
  /\ LET m == Head(inbox[p])
     IN  IF m.coll \notin DOMAIN store[p]
         THEN /\ Answer(p, "answer", [m EXCEPT !.status = "KEY"])
              /\ UNCHANGED <<proc, data, past>>
         ELSE IF m.key \notin store[p][m.coll]
              THEN Dies(p) /\ past' = past \cup {"stray_range"}
              ELSE /\ box' = [box EXCEPT !["answer"] = @ \o RangeAnswers(m, store[p][m.coll])]
                   /\ inbox' = Taken(p)
                   /\ UNCHANGED <<proc, data, past>>
  /\ UNCHANGED <<Elsewhere, faults>>

(* TERMINATE and SHUTDOWN: the data are in memory only.                    *)
ServeEnd(p) == Serves(p, {"TERMINATE", "SHUTDOWN"}) /\ Dies(p)
  /\ UNCHANGED <<Elsewhere, faults, past>>

(* main removes the queue when it ends: the next msgrcv fails.             *)
LoseQueue(p) ==
  /\ proc[p] = "up" /\ mgr.wait = "ended" /\ Dies(p)
  /\ UNCHANGED <<Elsewhere, faults, past>>

Server(p) ==
  \/ ServeSetup(p) \/ ServeAddStruct(p) \/ ServeDisposeStruct(p) \/ ServeCount(p)
  \/ ServeData(p) \/ NoMemory(p) \/ ServeRange(p) \/ ServeEnd(p) \/ LoseQueue(p)

-----------------------------------------------------------------------------
(* The manager's main loop.                                                *)

Paths == Ordered(DOMAIN seps)

(* redistribute_keys and the loop of TERMINATE_STORAGE_SERVER, path by     *)
(* path.                                                                   *)
Over(job, paths) == [At("path") EXCEPT !.job = job, !.todo = paths]

(* The end of the loop body, with n servers.                               *)
EndBody(changed, n) ==
  LET due == changed >= ChangesPerServer * (1 + n)
  IN  /\ changes' = IF due THEN 0 ELSE changed
      /\ mgr' = IF due THEN Over("redistribute", Paths)
                ELSE At(IF run THEN "main" ELSE "ended")

Return == EndBody(changes, Len(servers))

Reply(m) ==
  replies' = [c \in Clients |->
    IF c = m.pid THEN Append(replies[c], m) ELSE replies[c]]

Counted(m) == changes + (IF m.cmd \in DataChanges THEN 1 ELSE 0)

Outside == <<proc, spawned, data, client, run>>

(* A mutant: the comparison is turned around.                              *)
RouteBackwards(coll, key) ==
  IF DOMAIN seps = {} THEN 1
  ELSE 1 + Cardinality({i \in DOMAIN seps[coll] :
                          \A j \in 1 .. i : seps[coll][j] > key})

(* get_id_for_key; it may name a server that is not there.                 *)
Route(coll, key) ==
  IF DOMAIN seps = {} THEN 1
  ELSE 1 + Cardinality({i \in DOMAIN seps[coll] :
                          \A j \in 1 .. i : seps[coll][j] <= key})

(* vector::at and map::at throw past main: the manager is aborted.         *)
Aborts == mgr' = At("dead") /\ UNCHANGED <<replies, changes>>

(* handle_data_command and handle_obtain_between_command.  An answer is of *)
(* a lower mtype than a request.                                           *)
ForwardAnswer ==
  /\ mgr.wait = "main" /\ box["answer"] # <<>>
  /\ LET m == Head(box["answer"])
     IN  Reply(m) /\ EndBody(Counted(m), Len(servers))
  /\ box' = [box EXCEPT !["answer"] = Tail(@)]
  /\ UNCHANGED <<Outside, inbox, requests, servers, seps, faults, past>>

Asked(cmds) ==
  /\ mgr.wait = "main" /\ box["answer"] = <<>>
  /\ requests # <<>> /\ Head(requests).cmd \in cmds
  /\ requests' = Tail(requests)

(* A range goes to every server from that of its left bound to that of its *)
(* right one, other commands to one.                                       *)
ForwardRequest ==
  /\ Asked(DataChanges \cup {"OBTAIN", "OBTAIN_BETWEEN"})
  /\ LET m      == Head(requests)
         known  == DOMAIN seps = {} \/ m.coll \in DOMAIN seps
         left   == Route(m.coll, m.key)
         right  == IF m.cmd = "OBTAIN_BETWEEN" THEN Route(m.coll, m.hi) ELSE left
         ids    == left .. right
         part   == [m EXCEPT !.cnt = Cardinality(ids)]
         sent   == [p \in Pids |->
                      IF proc[p] = "up" /\ \E i \in ids \cap DOMAIN servers : servers[i] = p
                      THEN Append(inbox[p], part) ELSE inbox[p]]
     IN  \/ /\ servers = <<>>
            /\ Reply([m EXCEPT !.status = "FAILED"])
            /\ EndBody(Counted(m), 0)
            /\ UNCHANGED <<inbox, past>>
         \/ /\ servers # <<>> /\ ~known
            /\ Aborts /\ past' = past \cup {"unknown_path"} /\ UNCHANGED inbox
         \/ /\ servers # <<>> /\ known /\ right > Len(servers)
            /\ inbox' = sent /\ Aborts /\ UNCHANGED past
         \/ /\ servers # <<>> /\ known /\ right <= Len(servers)
            /\ inbox' = sent /\ EndBody(Counted(m), Len(servers))
            /\ UNCHANGED <<replies, past>>
  /\ UNCHANGED <<Outside, box, servers, seps, faults>>

-----------------------------------------------------------------------------
(* Broadcasts: handle_add_struct_command and handle_dispose_struct_command *)
(* ask one server after the other, and go on with the message that came    *)
(* back from the last one.                                                 *)

SendStruct(i, m, wait) ==
  /\ inbox' = Post(inbox, servers[i], m)
  /\ mgr' = [At(wait) EXCEPT !.i = i, !.msg = m]

HandleStruct ==
  /\ Asked(AddStruct \cup DropStruct)
  /\ LET m == Head(requests)
     IN  IF servers = <<>>
         THEN /\ Reply([m EXCEPT !.status = "FAILED"])
              /\ Return /\ UNCHANGED <<inbox, past>>
         ELSE /\ SendStruct(1, m, IF m.cmd \in AddStruct THEN "struct_add" ELSE "struct_dispose")
              /\ past' = IF m.cmd = "DISPOSE_SCHEMA" /\ Len(servers) > 1
                         THEN past \cup {"half_disposed"} ELSE past
              /\ UNCHANGED <<replies, changes>>
  /\ UNCHANGED <<Outside, box, servers, seps, faults>>

(* What the wait in mailbox b ended with: a message, or the old one.       *)
Received(b, m) ==
  \/ /\ box[b] # <<>> /\ m = Head(box[b])
     /\ box' = [box EXCEPT ![b] = Tail(@)] /\ UNCHANGED faults
  \/ /\ RunsOut(b) /\ m = mgr.msg
     /\ UNCHANGED box

Candidates(b) == {mgr.msg} \cup {box[b][i] : i \in DOMAIN box[b]}

DisposeOf(cmd) == CASE cmd = "ADD_POOL"   -> "DISPOSE_POOL"
                    [] cmd = "ADD_SCHEMA" -> "DISPOSE_SCHEMA"
                    [] OTHER              -> "DISPOSE_COLLECTION"

(* A mutant: the separators of an added collection are not kept.           *)
SepsWithout(coll) == seps

SepsWith(coll) == [c \in DOMAIN seps \cup {coll} |->
  IF c = coll THEN [i \in 1 .. Len(servers) - 1 |-> Top] ELSE seps[c]]

(* A failure on the first server is answered at once; after one on a later *)
(* server the loop that should take the others back never ends.            *)
AddStructGoesOn ==
  /\ mgr.wait = "struct_add"
  /\ \E m \in Candidates("added") :
       /\ Received("added", m)
       /\ LET ok     == box["added"] # <<>> /\ m.status = "OK"
              failed == [m EXCEPT !.status = IF @ = "OK" THEN "FAILED" ELSE @]
          IN  \/ /\ ~ok /\ mgr.i = 1
                 /\ Reply(failed) /\ Return /\ UNCHANGED <<inbox, seps>>
              \/ /\ ~ok /\ mgr.i > 1
                 /\ LET back == [m EXCEPT !.status = "OK", !.cmd = DisposeOf(@)]
                    IN  SendStruct(mgr.i - 1, back, "rollback")
                 /\ UNCHANGED <<replies, seps, changes>>
              \/ /\ ok /\ mgr.i < Len(servers)
                 /\ SendStruct(mgr.i + 1, m, "struct_add")
                 /\ UNCHANGED <<replies, seps, changes>>
              \/ /\ ok /\ mgr.i = Len(servers)
                 /\ Reply(m) /\ Return /\ UNCHANGED inbox
                 /\ seps' = IF m.cmd = "ADD_COLLECTION" THEN SepsWith(m.coll) ELSE seps
  /\ UNCHANGED <<Outside, requests, servers, past>>

(* ++i where --j is meant: server j - 1 is asked to dispose for ever.      *)
RollbackGoesOn ==
  /\ mgr.wait = "rollback"
  /\ \E m \in Candidates("disposed") :
       /\ Received("disposed", m)
       /\ SendStruct(mgr.i, [m EXCEPT !.status = "OK"], "rollback")
  /\ UNCHANGED <<Outside, requests, replies, servers, seps, changes, past>>

(* Failures are passed over, and the answer is OK.                         *)
DisposeStructGoesOn ==
  /\ mgr.wait = "struct_dispose"
  /\ \E m \in Candidates("disposed") :
       /\ Received("disposed", m)
       /\ IF mgr.i < Len(servers)
          THEN SendStruct(mgr.i + 1, m, "struct_dispose") /\ UNCHANGED <<replies, seps, changes>>
          ELSE /\ Reply([m EXCEPT !.status = "OK"]) /\ Return /\ UNCHANGED inbox
               /\ seps' = IF m.cmd = "DISPOSE_COLLECTION"
                          THEN [c \in DOMAIN seps \ {m.coll} |-> seps[c]] ELSE seps
  /\ UNCHANGED <<Outside, requests, servers, past>>

-----------------------------------------------------------------------------
(* Moving keys.  The TERMINATE_ASSISTANT_THREAD that redistribute_keys     *)
(* sends at its end is read by main and ignored.                           *)

AskCount(i) ==
  /\ inbox' = Post(inbox, servers[i],
       OwnMsg("GET_RECORDS_CNT", Head(mgr.todo)))
  /\ mgr' = [mgr EXCEPT !.wait = "count", !.i = i]

(* A mutant: the last server is told to end but stays in strg_servers.     *)
LetGoNot ==
  /\ inbox' = Post(inbox, servers[Len(servers)], OwnMsg("TERMINATE", NoOne))
  /\ mgr' = Over("redistribute", Paths)
  /\ UNCHANGED servers

(* The last server is told to end, and the keys that are left counted; no  *)
(* separator is dropped with it.                                           *)
LetGo ==
  /\ inbox' = Post(inbox, servers[Len(servers)], OwnMsg("TERMINATE", NoOne))
  /\ servers' = Front(servers)
  /\ mgr' = Over("redistribute", Paths)

NextPath ==
  /\ mgr.wait = "path"
  /\ \/ /\ mgr.todo # <<>>
        /\ AskCount(IF mgr.job = "terminate" THEN Len(servers) ELSE 1)
        /\ UNCHANGED <<servers, changes, past>>
     \/ /\ mgr.todo = <<>> /\ mgr.job = "terminate"
        /\ LetGo
        /\ past' = IF \E c \in DOMAIN seps : seps[c][Len(servers) - 1] < Top
                   THEN past \cup {"ended_keeper"} ELSE past
        /\ UNCHANGED changes
     \/ /\ mgr.todo = <<>> /\ mgr.job = "redistribute"
        /\ Return
        /\ UNCHANGED <<inbox, servers, past>>
  /\ UNCHANGED <<Outside, box, requests, replies, seps, faults>>

(* -1 out of a path: redistribute_keys goes on with the next one, and      *)
(* "Failed to terminate server" leaves the servers as they are.            *)
GiveUp ==
  IF mgr.job = "terminate" THEN Return
  ELSE mgr' = Over("redistribute", Tail(mgr.todo)) /\ UNCHANGED changes

Transfers(dir, n) == mgr' = [mgr EXCEPT !.wait = "move", !.dir = dir, !.n = n]

R == INSTANCE Redistribution WITH NServers <- 2, rd <- mgr

(* A mutant: one key of a server that ends is not moved.                   *)
HandOverAllButOne(cnt) == Transfers("left", cnt - 1)

HandOver(cnt) == Transfers("left", cnt)

(* A server that ends hands all it has to its neighbour; otherwise the     *)
(* surplus of one of the two goes to the other.                            *)
CountedTo(cnt) ==
  LET cnts == [mgr.cnts EXCEPT ![mgr.i - 1] = cnt]
      surplus == R!Differ(cnts)[0]
  IN  CASE mgr.job = "terminate" -> HandOver(cnt) /\ UNCHANGED inbox
        [] mgr.job = "redistribute" /\ mgr.i < Len(servers) ->
             /\ inbox' = Post(inbox, servers[mgr.i + 1],
                  OwnMsg("GET_RECORDS_CNT", Head(mgr.todo)))
             /\ mgr' = [mgr EXCEPT !.i = @ + 1, !.cnts = cnts]
        [] OTHER ->
             /\ IF Len(servers) < 2 \/ ~R!NeedRedistribution(cnts)
                THEN Transfers("right", 0)
                ELSE IF surplus < 0 THEN Transfers("left", -surplus)
                                    ELSE Transfers("right", surplus)
             /\ UNCHANGED inbox

CountAnswer ==
  /\ mgr.wait = "count" /\ box["count"] # <<>>
  /\ CountedTo(Head(box["count"]).cnt)
  /\ box' = [box EXCEPT !["count"] = Tail(@)]
  /\ UNCHANGED <<Outside, requests, replies, servers, seps, changes, faults, past>>

CountTimeout ==
  /\ mgr.wait = "count" /\ RunsOut("count")
  /\ GiveUp
  /\ UNCHANGED <<Outside, mail, servers, seps, past>>

From == IF mgr.dir = "left" THEN servers[Len(servers)] ELSE servers[1]
To   == IF mgr.dir = "left" THEN servers[1] ELSE servers[Len(servers)]

Send(p, m, cmd, wait, sep) ==
  /\ inbox' = Post(inbox, p, [m EXCEPT !.cmd = cmd])
  /\ mgr' = [mgr EXCEPT !.wait = wait, !.newsep = sep]

(* transfer_left_n and transfer_right_n: the next key, or done.            *)
BeginTransfer ==
  /\ mgr.wait = "move"
  /\ \/ /\ mgr.n > 0
        /\ Send(From, OwnMsg("none", Head(mgr.todo)),
                IF mgr.dir = "left" THEN "OBTAIN_MIN" ELSE "OBTAIN_MAX", "obtain", NoOne)
        /\ past' = past \cup (IF mgr.dir = "left" THEN {"moved_left"} ELSE {})
             \cup (IF box["answer"] # <<>> \/ \E p \in Pids : inbox[p] # <<>>
                   THEN {"crossed"} ELSE {})
     \/ /\ mgr.n <= 0
        /\ mgr' = Over(mgr.job, Tail(mgr.todo))
        /\ UNCHANGED <<inbox, past>>
  /\ UNCHANGED <<Outside, box, requests, replies, servers, seps, changes, faults>>

(* The separator follows whether or not the key was disposed.              *)
EndTransfer ==
  /\ seps' = [seps EXCEPT ![Head(mgr.todo)][1] = mgr.newsep]
  /\ mgr' = [mgr EXCEPT !.wait = "move", !.n = @ - 1, !.newsep = NoOne]
  /\ UNCHANGED <<inbox, changes>>

(* As in Manager: any answer is taken for the one awaited, and the next    *)
(* command is sent in it.                                                  *)
TransferAnswer ==
  /\ mgr.wait \in {"obtain", "next", "add", "dispose"} /\ box["answer"] # <<>>
  /\ LET m == Head(box["answer"])
     IN  \/ mgr.wait = "dispose" /\ EndTransfer
         \/ /\ mgr.wait # "dispose" /\ m.status # "OK"
            /\ GiveUp /\ UNCHANGED <<inbox, seps>>
         \/ /\ m.status = "OK" /\ UNCHANGED <<seps, changes>>
            /\ CASE mgr.wait = "obtain" /\ mgr.dir = "left" ->
                      Send(From, m, "OBTAIN_NEXT", "next", NoOne)
                 [] mgr.wait = "obtain" /\ mgr.dir = "right" ->
                      Send(To, m, "ADD", "add", m.key)
                 [] mgr.wait = "next" -> Send(To, m, "ADD", "add", m.key)
                 [] mgr.wait = "add"  -> Send(From, m, "DISPOSE", "dispose", mgr.newsep)
                 [] OTHER -> FALSE
  /\ box' = [box EXCEPT !["answer"] = Tail(@)]
  /\ UNCHANGED <<Outside, requests, replies, servers, faults, past>>

TransferTimeout ==
  /\ mgr.wait \in {"obtain", "next", "add", "dispose"} /\ RunsOut("answer")
  /\ IF mgr.wait = "dispose" THEN EndTransfer
     ELSE GiveUp /\ UNCHANGED <<inbox, seps>>
  /\ UNCHANGED <<Outside, box, requests, replies, servers, past>>

-----------------------------------------------------------------------------
(* The commands of the terminal.  run and terminate are of an mtype below  *)
(* those of answers and requests.                                          *)

HandleRun ==
  /\ mgr.wait = "main" /\ MayAsk /\ spawned < MaxSpawned /\ Len(servers) < MaxServers
  /\ LET p == spawned + 1
     IN  /\ spawned' = p
         /\ proc' = [proc EXCEPT ![p] = "up"]
         /\ inbox' = [inbox EXCEPT ![p] = <<OwnMsg("SET_IN_MEMORY_CACHE_MODE", NoOne)>>]
  /\ mgr' = At("setup")
  /\ UNCHANGED <<box, requests, replies, data, servers, seps, changes, client,
                 run, faults, past>>

SepsGrown ==
  IF servers = <<>> THEN seps ELSE [c \in DOMAIN seps |-> Append(seps[c], Top)]

SetupAnswer ==
  /\ mgr.wait = "setup" /\ box["setup"] # <<>>
  /\ box' = [box EXCEPT !["setup"] = Tail(@)]
  /\ servers' = Append(servers, spawned)
  /\ seps' = SepsGrown
  /\ IF servers = <<>> THEN EndBody(changes, 1)
     ELSE mgr' = Over("redistribute", Paths) /\ UNCHANGED changes
  /\ past' = IF servers # <<>> /\ (DOMAIN seps # {} \/ has[servers[1]] # {})
             THEN past \cup {"joined_late"} ELSE past
  /\ UNCHANGED <<Outside, inbox, requests, replies, faults>>

(* The server that did not answer is killed.                               *)
SetupTimeout ==
  /\ mgr.wait = "setup" /\ RunsOut("setup")
  /\ proc' = [proc EXCEPT ![spawned] = "gone"]
  /\ inbox' = [inbox EXCEPT ![spawned] = <<>>]
  /\ Return
  /\ UNCHANGED <<spawned, box, requests, replies, data, servers, seps, client,
                 run, past>>

(* With one server an exception is caught; with none, which only a failed  *)
(* set-up leaves, the place before the first one is read.                  *)
HandleTerminate ==
  /\ mgr.wait = "main" /\ MayAsk /\ Len(servers) # 1
  /\ mgr' = IF servers = <<>> THEN At("dead") ELSE Over("terminate", Paths)
  /\ UNCHANGED <<Outside, mail, servers, seps, changes, faults, past>>

(* A mutant: the servers are not told.                                     *)
TypeShutdownUntold ==
  /\ run /\ mgr.wait # "dead"
  /\ run' = FALSE
  /\ UNCHANGED <<proc, spawned, mail, data, servers, seps, changes, mgr, client,
                 faults, past>>

(* run_terminal_reader, in a thread of its own: it clears run_flag and     *)
(* tells every server to end, ...                                          *)
TypeShutdown ==
  /\ run /\ mgr.wait # "dead"
  /\ run' = FALSE
  /\ inbox' = [p \in Pids |->
       IF proc[p] = "up" /\ p \in ToSet(servers)
       THEN Append(inbox[p], OwnMsg("SHUTDOWN", NoOne)) ELSE inbox[p]]
  /\ UNCHANGED <<proc, spawned, box, requests, replies, data, servers, seps,
                 changes, mgr, client, faults, past>>

(* ... waits for them, and wakes the manager with a message of mtype 1.    *)
HandleShutdown ==
  /\ mgr.wait = "main" /\ ~run /\ \A p \in Pids : proc[p] # "up"
  /\ mgr' = At("ended")
  /\ UNCHANGED <<Outside, mail, servers, seps, changes, faults, past>>

-----------------------------------------------------------------------------
Manager ==
  \/ ForwardAnswer \/ ForwardRequest \/ HandleStruct
  \/ AddStructGoesOn \/ RollbackGoesOn \/ DisposeStructGoesOn
  \/ NextPath \/ CountAnswer \/ CountTimeout
  \/ BeginTransfer \/ TransferAnswer \/ TransferTimeout
  \/ SetupAnswer \/ SetupTimeout \/ HandleShutdown

Terminal == HandleRun \/ HandleTerminate \/ TypeShutdown

Client(c) == TakeReply(c) \/ TakeRangeReply(c) \/ ClientTimeout(c)

Next ==
  \/ Manager \/ Terminal
  \/ \E p \in Pids : Server(p)
  \/ \E c \in Clients : Request(c) \/ Client(c)

(* The processes are loops around receives that give up or are answered.   *)
(* Nobody has to type a command, or to ask for anything.                   *)
Spec ==
  /\ Init /\ [][Next]_vars
  /\ WF_vars(Manager)
  /\ \A p \in Pids : WF_vars(Server(p))
  /\ \A c \in Clients : WF_vars(Client(c))

-----------------------------------------------------------------------------
Waits == {"main", "setup", "struct_add", "struct_dispose", "rollback", "path",
          "count", "move", "obtain", "next", "add", "dispose", "ended", "dead"}

(* Who is up, what it holds, and where the manager and the clients are.    *)
TypeOK ==
  /\ proc \in [Pids -> {"unborn", "up", "gone"}] /\ spawned \in Pids
  /\ has \in [Pids -> SUBSET {"pool", "schema"}]
  /\ \A p \in Pids : /\ DOMAIN store[p] \subseteq Collections
                     /\ \A c \in DOMAIN store[p] : store[p][c] \subseteq Keys
  /\ Len(servers) <= MaxServers /\ ToSet(servers) \subseteq Pids
  /\ DOMAIN seps \subseteq Collections
  /\ \A c \in DOMAIN seps : ToSet(seps[c]) \subseteq Keys \cup {Top}
  /\ changes \in Nat /\ run \in BOOLEAN
  /\ mgr.wait \in Waits /\ mgr.i \in 0 .. MaxServers
  /\ \A c \in Clients : client[c].at \in {"idle", "asked", "range"}
                       /\ client[c].ctr \in 1 .. MaxReqId
  /\ faults \in 0 .. MaxFaults /\ past \subseteq Events

Orderly(events) == faults = 0 /\ past \cap events = {}

Live == {p \in ToSet(servers) : proc[p] = "up"}

(* The broadcasts keep the servers alike: between two calls of the manager *)
(* every server has the same pool, schema and collections, as long as none *)
(* joined late and no schema had to be disposed on two of them.            *)
StructuresAgree ==
  mgr.wait = "main" /\ Orderly({"joined_late", "half_disposed"}) =>
    \A p, q \in Live : has[p] = has[q] /\ DOMAIN store[p] = DOMAIN store[q]

(* The manager knows separators for exactly the collections the servers    *)
(* have, as long as no pool or schema was disposed around one.             *)
RoutesKnown ==
  mgr.wait = "main" /\ Orderly({"joined_late", "half_disposed", "dropped_above"}) =>
    \A p \in Live : DOMAIN seps = DOMAIN store[p]

(* Every key is routed to a server that is there, whenever servers joined  *)
(* and ended, unless one that had keys was ended.                          *)
RoutesInside ==
  mgr.wait = "main" /\ servers # <<>> /\ "ended_keeper" \notin past =>
    \A c \in DOMAIN seps, k \in Keys : Route(c, k) <= Len(servers)

(* Used in order, the servers and the manager stay up: every broadcast     *)
(* succeeds, no count asks for what is not there.                          *)
OrderlyUseIsSafe ==
  run /\ Orderly(Events \ {"crossed", "moved_left", "short_count"}) =>
    /\ Live = ToSet(servers)
    /\ mgr.wait \notin {"rollback", "dead", "ended"}

StoredIn(c) == UNION {store[p][c] : p \in {q \in Pids : c \in DOMAIN store[q]}}

(* A server that is told to end has handed all it had to its neighbour: no *)
(* key goes with it, unless it reported fewer keys than it has, which      *)
(* _records_cnt may.  A report that is too high only keeps the server: the *)
(* transfer of a key that is not there fails, and it is not told to end.   *)
EndedEmpty ==
  [][\A p \in Pids :
       Serves(p, {"TERMINATE"}) /\ proc'[p] = "gone" /\ Orderly({"crossed", "short_count"}) =>
       \A c \in DOMAIN store[p] : store[p][c] = {}]_vars

(* What the client takes for the last record of a range.                   *)
TakesLast(c) ==
  /\ client[c].cmd = "OBTAIN_BETWEEN" /\ client'[c].at = "idle"
  /\ replies[c] # <<>>
  /\ \/ client[c].at = "range"
     \/ client[c].at = "asked" /\ Head(replies[c]).status = "END"

(* A range a client was given whole is every stored key between its        *)
(* bounds, in order, once each, whatever servers joined and ended, as long *)
(* as no key went with a server that ended and no schema was disposed      *)
(* around a collection: the manager goes on with the separators of that    *)
(* one and counts it on servers that never had it.                         *)
RangeExact ==
  [][\A c \in Clients :
       TakesLast(c) /\ run /\ Orderly({"crossed", "moved_left", "dropped_above", "short_count"}) =>
       Append(client[c].got, Head(replies[c]).key)
         = InRange(StoredIn(client[c].coll), client[c].lo, client[c].hi)]_vars

(* After shutdown the manager and all its servers end, whatever was under  *)
(* way, unless the manager is in the loop that never ends or was aborted.  *)
ShutdownEnds ==
  ~run ~> \/ mgr.wait \in {"rollback", "dead"}
          \/ mgr.wait = "ended" /\ \A p \in Pids : proc[p] # "up"

-----------------------------------------------------------------------------
ToldOK(c) == /\ client'[c].at = "idle"
             /\ replies[c] # <<>> /\ Head(replies[c]).status = "OK"

(* "Disposed schema", says client.cpp when the answer is OK.               *)
DisposedEverywhere ==
  [][\A c \in Clients :
       client[c].cmd = "DISPOSE_SCHEMA" /\ ToldOK(c) /\ faults = 0 =>
       \A p \in Live : "schema" \notin has[p]]_vars

=============================================================================
