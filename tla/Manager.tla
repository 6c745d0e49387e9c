------------------------------ MODULE Manager ------------------------------
(***************************************************************************)
(* The manager server, the storage servers and the clients of one          *)
(* collection, and the System V message queue between them.  The manager   *)
(* routes a client's command by the separators of the collection, forwards *)
(* the answers, and after enough changes redistributes the keys: it counts *)
(* the records of every server and moves single keys between neighbours    *)
(* with a sequence of commands of its own (transfer_left, transfer_right). *)
(*                                                                         *)
(* All parties share one queue; a mailbox below is the messages of one     *)
(* mtype, which msgrcv hands out in the order they were sent.              *)
(***************************************************************************)
EXTENDS Redistribution, Sequences, FiniteSets

CONSTANTS
  Clients,           \* client processes
  NKeys,             \* keys are 1 .. NKeys, ordered as tkey_comparer does
  ClientCmds,        \* the data commands the clients issue
  ChangesPerServer,  \* 30 in main: changes per server between redistributions
  MaxReqId,          \* where request_counter wraps around (1e9 in run_session)
  Uninitialised,     \* values an uninitialised _records_cnt may start from
  MaxTimeouts,       \* bound on the waits that run out of tries
  ManagerPid,
  NoKey

DataChanges == {"ADD", "UPDATE", "DISPOSE"}

ASSUME ManagerAssumption ==
  /\ NKeys \in Nat \ {0} /\ ChangesPerServer \in Nat \ {0}
  /\ MaxReqId \in Nat \ {0} /\ MaxTimeouts \in Nat
  /\ ClientCmds \subseteq DataChanges \cup {"OBTAIN"}
  /\ Uninitialised \subseteq Nat
  /\ ManagerPid \notin Clients
  /\ NoKey \notin Nat

Keys == 1 .. NKeys

(* std::string(MSG_KEY_SIZE, 127): above every key of 7-bit characters.    *)
Top == NKeys + 1

ReqIds == 0 .. MaxReqId

Cmds == DataChanges \cup
        {"OBTAIN", "OBTAIN_MIN", "OBTAIN_MAX", "OBTAIN_NEXT", "GET_RECORDS_CNT"}

Statuses == {"CLIENT", "OK", "EXISTENT_KEY", "NONEXISTENT_KEY", "BAD_ALLOC"}

(* strg_msg_t without the payload and the path.                            *)
Msg == [pid : Clients \cup {ManagerPid}, req : ReqIds, cmd : Cmds,
        status : Statuses, key : Keys \cup {NoKey}, cnt : Int]

VARIABLES
  inbox,     \* [server -> messages sent to its pid]
  answers,   \* MANAGER_SERVER_STORAGE_ANSWER_PRIOR
  counts,    \* MANAGER_SERVER_STORAGE_GETTING_RECORDS_CNT_PRIOR
  requests,  \* MANAGER_SERVER_CLIENT_PRIOR
  replies,   \* [client -> messages sent to its pid]
  store,     \* [server -> keys in the collection's tree]
  records,   \* [server -> _records_cnt]
  seps,      \* separators[path]
  changes,   \* data_change_counter
  mgr,       \* where the manager waits, and the locals of the call it is in
  client,    \* [client -> the request it waits for and its request_counter]
  timeouts,  \* waits that ran out so far
  known,     \* history: the keys some client was told are in the collection
  wentLeft,  \* history: transfer_left has been called
  crossed    \* history: a transfer began while an answer was still to come

mail == <<inbox, answers, counts, requests, replies>>
data == <<store, records>>
history == <<known, wentLeft, crossed>>
vars == <<rd, mail, data, seps, changes, mgr, client, timeouts, history>>

-----------------------------------------------------------------------------
(* A mutant of get_id_for_key: a key equal to a separator goes to its left.*)
RouteInclusive(key) ==
  CHOOSE s \in Servers :
    /\ s < NServers - 1 => key <= seps[s]
    /\ \A i \in 0 .. s - 1 : key > seps[i]

(* get_id_for_key: the separators are scanned from the left up to the      *)
(* first one above the key.                                                *)
Route(key) ==
  CHOOSE s \in Servers :
    /\ s < NServers - 1 => key < seps[s]
    /\ \A i \in 0 .. s - 1 : key >= seps[i]

Least(S)    == CHOOSE k \in S : \A l \in S : k <= l
Greatest(S) == CHOOSE k \in S : \A l \in S : k >= l

(* collection::obtain_next: the following key, or the key itself if last.  *)
Following(S, key) ==
  LET above == {k \in S : k > key}
  IN  IF above = {} THEN key ELSE Least(above)

TransferWaits == {"obtain", "next", "add", "dispose"}
Waits == {"main", "count"} \cup TransferWaits

(* A message of the manager's own; the fields not named are not read.      *)
OwnMsg(cmd) ==
  [pid |-> ManagerPid, req |-> 0, cmd |-> cmd, status |-> "OK",
   key |-> NoKey, cnt |-> 0]

(* Servers are up, the collection exists and holds nothing.                *)
Init ==
  /\ inbox = [s \in Servers |-> <<>>]
  /\ answers = <<>> /\ counts = <<>> /\ requests = <<>>
  /\ replies = [c \in Clients |-> <<>>]
  /\ store = [s \in Servers |-> {}]
  /\ records \in [Servers -> Uninitialised]
  /\ seps = [i \in 0 .. NServers - 2 |-> Top]
  /\ changes = 0
  /\ mgr = [wait |-> "main", asked |-> 0, cnts |-> [s \in Servers |-> 0],
            newsep |-> Top]
  /\ client = [c \in Clients |-> [waiting |-> FALSE, ctr |-> 1,
                                  cmd |-> "OBTAIN", key |-> NoKey]]
  /\ timeouts = 0
  /\ known = {} /\ wentLeft = FALSE /\ crossed = FALSE
  /\ rd = Idle

-----------------------------------------------------------------------------
(* msgrcvt polls a mailbox a limited number of times.  It surely gives up  *)
(* when no message is on its way (nothing), and may give up too early      *)
(* MaxTimeouts times.                                                      *)
RunsOut(nothing) ==
  \/ nothing /\ UNCHANGED timeouts
  \/ ~nothing /\ timeouts < MaxTimeouts /\ timeouts' = timeouts + 1

(* Something that came from client c is still held by the other side.      *)
ComingFor(c) ==
  LET has(box) == \E i \in DOMAIN box : box[i].pid = c
  IN  has(requests) \/ has(answers) \/ \E s \in Servers : has(inbox[s])

ServersSilent == answers = <<>> /\ \A s \in Servers : inbox[s] = <<>>

-----------------------------------------------------------------------------
(* Clients: run_session and the handle_*_command functions send one        *)
(* request and stay in handle_server_answer until it is answered.          *)

Request(c, cmd, key) ==
  /\ ~client[c].waiting
  /\ requests' = Append(requests,
       [pid |-> c, req |-> client[c].ctr, cmd |-> cmd, status |-> "CLIENT",
        key |-> key, cnt |-> 0])
  /\ client' = [client EXCEPT ![c] = [waiting |-> TRUE, ctr |-> @.ctr,
                                      cmd |-> cmd, key |-> key]]
  /\ known' = IF cmd = "DISPOSE" THEN known \ {key} ELSE known
  /\ UNCHANGED <<rd, inbox, answers, counts, replies, data, seps, changes,
                 mgr, timeouts, wentLeft, crossed>>

(* A message with another req_id is dropped.                               *)
SkipReply(c) ==
  /\ client[c].waiting /\ replies[c] # <<>>
  /\ Head(replies[c]).req # client[c].ctr
  /\ replies' = [replies EXCEPT ![c] = Tail(@)]
  /\ UNCHANGED <<rd, inbox, answers, counts, requests, data, seps, changes,
                 mgr, client, timeouts, history>>

(* The answers that tell a client that the key it asked about is stored.   *)
TellsPresent(m) ==
  \/ m.cmd \in {"ADD", "UPDATE", "OBTAIN"} /\ m.status = "OK"
  \/ m.cmd = "ADD" /\ m.status = "EXISTENT_KEY"

(* A mutant: request_counter does not wrap around.                         *)
AcceptReplyNoWrap(c) ==
  /\ client[c].waiting /\ replies[c] # <<>>
  /\ LET m == Head(replies[c])
     IN  /\ m.req = client[c].ctr
         /\ client' = [client EXCEPT
              ![c].waiting = FALSE,
              ![c].ctr = IF m.status = "OK" THEN @ + 1 ELSE @]
         /\ known' = IF TellsPresent(m) THEN known \cup {m.key} ELSE known
  /\ replies' = [replies EXCEPT ![c] = Tail(@)]
  /\ UNCHANGED <<rd, inbox, answers, counts, requests, data, seps, changes,
                 mgr, timeouts, wentLeft, crossed>>

(* A status other than OK is thrown past the increment of request_counter. *)
AcceptReply(c) ==
  /\ client[c].waiting /\ replies[c] # <<>>
  /\ LET m == Head(replies[c])
     IN  /\ m.req = client[c].ctr
         /\ client' = [client EXCEPT
              ![c].waiting = FALSE,
              ![c].ctr = IF m.status = "OK" THEN (@ % MaxReqId) + 1 ELSE @]
         /\ known' = IF TellsPresent(m) THEN known \cup {m.key} ELSE known
  /\ replies' = [replies EXCEPT ![c] = Tail(@)]
  /\ UNCHANGED <<rd, inbox, answers, counts, requests, data, seps, changes,
                 mgr, timeouts, wentLeft, crossed>>

(* "Cannot receive server answer": thrown as well, the counter stays.      *)
ClientTimeout(c) ==
  /\ client[c].waiting /\ replies[c] = <<>>
  /\ RunsOut(~ComingFor(c))
  /\ client' = [client EXCEPT ![c].waiting = FALSE]
  /\ UNCHANGED <<rd, mail, data, seps, changes, mgr, history>>

-----------------------------------------------------------------------------
(* A storage server takes the oldest message sent to its pid, performs the *)
(* command on its tree and answers with the same message.                  *)

Serves(s, cmd) == inbox[s] # <<>> /\ Head(inbox[s]).cmd = cmd

Answer(s, status, key) ==
  /\ answers' = Append(answers,
       [Head(inbox[s]) EXCEPT !.status = status, !.key = key])
  /\ inbox' = [inbox EXCEPT ![s] = Tail(@)]
  /\ UNCHANGED <<rd, counts, requests, replies, seps, changes, mgr, client,
                 timeouts, history>>

(* collection::insert and update make room for the value before they look  *)
(* at the tree, and find none.  What a lack of memory does further down,   *)
(* in the tree, is the subject of BTree.  The collection exists: there is  *)
(* no invalid path.                                                        *)
NoMemory(s) ==
  /\ Serves(s, "ADD") \/ Serves(s, "UPDATE")
  /\ Answer(s, "BAD_ALLOC", Head(inbox[s]).key)
  /\ UNCHANGED data

ServeAdd(s) ==
  /\ Serves(s, "ADD")
  /\ LET key == Head(inbox[s]).key
     IN  IF key \in store[s]
         THEN Answer(s, "EXISTENT_KEY", key) /\ UNCHANGED data
         ELSE /\ store' = [store EXCEPT ![s] = @ \cup {key}]
              /\ records' = [records EXCEPT ![s] = @ + 1]
              /\ Answer(s, "OK", key)

(* A mutant: case DISPOSE falls through to case OBTAIN and answers twice.  *)
ServeDisposeFallsThrough(s) ==
  /\ Serves(s, "DISPOSE")
  /\ LET m == Head(inbox[s])
     IN  /\ store' = [store EXCEPT ![s] = @ \ {m.key}]
         /\ answers' = answers \o
              <<[m EXCEPT !.status = IF m.key \in store[s] THEN "OK" ELSE "NONEXISTENT_KEY"],
                [m EXCEPT !.status = "NONEXISTENT_KEY"]>>
  /\ inbox' = [inbox EXCEPT ![s] = Tail(@)]
  /\ UNCHANGED <<rd, counts, requests, replies, records, seps, changes, mgr,
                 client, timeouts, history>>

ServeDispose(s) ==
  /\ Serves(s, "DISPOSE")
  /\ LET key == Head(inbox[s]).key
     IN  IF key \notin store[s]
         THEN Answer(s, "NONEXISTENT_KEY", key) /\ UNCHANGED data
         ELSE /\ store' = [store EXCEPT ![s] = @ \ {key}]
              /\ records' = [records EXCEPT ![s] = @ - 1]
              /\ Answer(s, "OK", key)

(* UPDATE replaces the payload, OBTAIN reads it: the key set stays.        *)
ServeUpdateOrObtain(s) ==
  /\ Serves(s, "UPDATE") \/ Serves(s, "OBTAIN")
  /\ LET key == Head(inbox[s]).key
     IN  Answer(s, IF key \in store[s] THEN "OK" ELSE "NONEXISTENT_KEY", key)
  /\ UNCHANGED data

ServeMinOrMax(s) ==
  /\ Serves(s, "OBTAIN_MIN") \/ Serves(s, "OBTAIN_MAX")
  /\ IF store[s] = {}
     THEN Answer(s, "NONEXISTENT_KEY", Head(inbox[s]).key)
     ELSE Answer(s, "OK", IF Serves(s, "OBTAIN_MIN") THEN Least(store[s])
                                                     ELSE Greatest(store[s]))
  /\ UNCHANGED data

ServeNext(s) ==
  /\ Serves(s, "OBTAIN_NEXT")
  /\ LET key == Head(inbox[s]).key
     IN  IF key \in store[s]
         THEN Answer(s, "OK", Following(store[s], key))
         ELSE Answer(s, "NONEXISTENT_KEY", key)
  /\ UNCHANGED data

ServeCount(s) ==
  /\ Serves(s, "GET_RECORDS_CNT")
  /\ counts' = Append(counts,
       [Head(inbox[s]) EXCEPT !.status = "OK", !.cnt = records[s]])
  /\ inbox' = [inbox EXCEPT ![s] = Tail(@)]
  /\ UNCHANGED <<rd, answers, requests, replies, data, seps, changes, mgr,
                 client, timeouts, history>>

Serve(s) ==
  \/ ServeAdd(s) \/ ServeDispose(s) \/ ServeUpdateOrObtain(s)
  \/ ServeMinOrMax(s) \/ ServeNext(s) \/ ServeCount(s) \/ NoMemory(s)

-----------------------------------------------------------------------------
(* The manager's main loop takes the message with the lowest mtype: an     *)
(* answer of a storage server before a request of a client.                *)

AtMain == mgr.wait = "main" /\ ~Running

(* The end of the loop body: count the change, redistribute when due.      *)
(* box is inbox with what this iteration sent.                             *)
CountChange(cmd, box) ==
  LET changed == changes + (IF cmd \in DataChanges THEN 1 ELSE 0)
  IN  IF changed >= ChangesPerServer * (1 + NServers)
      THEN /\ inbox' = [box EXCEPT ![0] = Append(@, OwnMsg("GET_RECORDS_CNT"))]
           /\ mgr' = [mgr EXCEPT !.wait = "count", !.asked = 0]
           /\ changes' = 0
      ELSE inbox' = box /\ changes' = changed /\ UNCHANGED mgr

(* handle_data_command, status CLIENT: pass the command on by its key.     *)
ForwardRequest ==
  /\ AtMain /\ answers = <<>> /\ requests # <<>>
  /\ LET m == Head(requests)
     IN  CountChange(m.cmd, [inbox EXCEPT ![Route(m.key)] = Append(@, m)])
  /\ requests' = Tail(requests)
  /\ UNCHANGED <<rd, answers, counts, replies, data, seps, client, timeouts,
                 history>>

(* A mutant: only what comes from a client counts as a change.             *)
ForwardAnswerUncounted ==
  /\ AtMain /\ answers # <<>>
  /\ LET m == Head(answers)
     IN  replies' = [c \in Clients |->
           IF c = m.pid THEN Append(replies[c], m) ELSE replies[c]]
  /\ answers' = Tail(answers)
  /\ UNCHANGED <<rd, inbox, counts, requests, data, seps, changes, mgr, client,
                 timeouts, history>>

(* handle_data_command, any other status: pass the answer on to msg.pid.   *)
(* Nobody reads what is sent to the manager's own pid.                     *)
ForwardAnswer ==
  /\ AtMain /\ answers # <<>>
  /\ LET m == Head(answers)
     IN  /\ replies' = [c \in Clients |->
              IF c = m.pid THEN Append(replies[c], m) ELSE replies[c]]
         /\ CountChange(m.cmd, inbox)
  /\ answers' = Tail(answers)
  /\ UNCHANGED <<rd, counts, requests, data, seps, client, timeouts, history>>

-----------------------------------------------------------------------------
(* redistribute_path_keys: ask every server in turn for its count.         *)

CountAnswer ==
  /\ mgr.wait = "count" /\ counts # <<>>
  /\ counts' = Tail(counts)
  /\ LET cnts == [mgr.cnts EXCEPT ![mgr.asked] = Head(counts).cnt]
         next == mgr.asked + 1
     IN  IF next < NServers
         THEN /\ mgr' = [mgr EXCEPT !.cnts = cnts, !.asked = next]
              /\ inbox' = [inbox EXCEPT
                   ![next] = Append(@, OwnMsg("GET_RECORDS_CNT"))]
              /\ UNCHANGED rd
         ELSE /\ mgr' = [mgr EXCEPT !.wait = "main", !.asked = 0,
                                    !.cnts = [s \in Servers |-> 0]]
              /\ IF NeedRedistribution(cnts) THEN Start(cnts) ELSE UNCHANGED rd
              /\ UNCHANGED inbox
  /\ UNCHANGED <<answers, requests, replies, data, seps, changes, client,
                 timeouts, history>>

CountTimeout ==
  /\ mgr.wait = "count" /\ counts = <<>>
  /\ RunsOut(\A s \in Servers : inbox[s] = <<>>)
  /\ mgr' = [mgr EXCEPT !.wait = "main", !.asked = 0,
                        !.cnts = [s \in Servers |-> 0]]
  /\ UNCHANGED <<rd, mail, data, seps, changes, client, history>>

Local == UNCHANGED <<mail, data, seps, changes, mgr, client, timeouts, history>>

RedistributionLoop == mgr.wait = "main" /\ LoopStep /\ Local

RedistributionReturns == mgr.wait = "main" /\ Finished /\ Abort /\ Local

-----------------------------------------------------------------------------
(* transfer_left and transfer_right: one key, four or three commands.  An  *)
(* answer is whatever is first in the storage answers' mailbox; the next   *)
(* command is sent in the very message that was received.                  *)

Send(s, m, cmd, wait) ==
  /\ inbox' = [inbox EXCEPT ![s] = Append(@, [m EXCEPT !.cmd = cmd])]
  /\ mgr' = [mgr EXCEPT !.wait = wait]

BeginTransfer ==
  /\ mgr.wait = "main" /\ WantsTransfer
  /\ Send(From, OwnMsg("OBTAIN_MIN"),
          IF rd.at = "left" THEN "OBTAIN_MIN" ELSE "OBTAIN_MAX", "obtain")
  /\ wentLeft' = (wentLeft \/ rd.at = "left")
  /\ crossed' = (crossed \/ ~ServersSilent)
  /\ UNCHANGED <<rd, answers, counts, requests, replies, data, seps, changes,
                 client, timeouts, known>>

(* Mutants of a transfer's steps: the loop goes on after a failed transfer,*)
(* the separator is not moved or the one after it is, the key              *)
(* is disposed before it is added, or without knowing that it was.         *)
GiveUpGoesOn ==
  /\ mgr' = [mgr EXCEPT !.wait = "main", !.newsep = Top]
  /\ UNCHANGED <<rd, inbox>>

SetSeparatorNot ==
  /\ mgr' = [mgr EXCEPT !.wait = "main", !.newsep = Top]
  /\ Transferred
  /\ UNCHANGED <<seps, inbox>>

SetSeparatorOfTarget ==
  /\ seps' = [seps EXCEPT ![IF rd.at = "left" THEN From ELSE To] = mgr.newsep]
  /\ mgr' = [mgr EXCEPT !.wait = "main", !.newsep = Top]
  /\ Transferred
  /\ UNCHANGED inbox

ObtainAnswerDisposesFirst(m) ==
  /\ mgr.wait = "obtain" /\ m.status = "OK"
  /\ inbox' = [inbox EXCEPT ![From] = Append(@, [m EXCEPT !.cmd = "DISPOSE"])]
  /\ mgr' = [mgr EXCEPT !.wait = "dispose", !.newsep = m.key]
  /\ UNCHANGED <<rd, seps>>

TransferTimeoutPresumes ==
  /\ mgr.wait = "add" /\ answers = <<>>
  /\ RunsOut(ServersSilent)
  /\ Send(From, [OwnMsg("DISPOSE") EXCEPT !.key = mgr.newsep], "DISPOSE", "dispose")
  /\ UNCHANGED <<rd, answers, counts, requests, replies, data, seps, changes,
                 client, history>>

(* -1 is returned up to redistribute_keys.                                 *)
GiveUp ==
  /\ mgr' = [mgr EXCEPT !.wait = "main", !.newsep = Top]
  /\ Abort
  /\ UNCHANGED inbox

SetSeparator ==
  /\ seps' = [seps EXCEPT ![IF rd.at = "left" THEN To ELSE From] = mgr.newsep]
  /\ mgr' = [mgr EXCEPT !.wait = "main", !.newsep = Top]
  /\ Transferred
  /\ UNCHANGED inbox

(* What the call does with an answer.                                      *)
ObtainAnswer(m) ==
  /\ mgr.wait = "obtain"
  /\ \/ m.status # "OK" /\ GiveUp
     \/ /\ m.status = "OK" /\ rd.at = "left"
        /\ Send(From, m, "OBTAIN_NEXT", "next")
        /\ UNCHANGED rd
     \/ /\ m.status = "OK" /\ rd.at = "right"
        /\ inbox' = [inbox EXCEPT ![To] = Append(@, [m EXCEPT !.cmd = "ADD"])]
        /\ mgr' = [mgr EXCEPT !.wait = "add", !.newsep = m.key]
        /\ UNCHANGED rd
  /\ UNCHANGED seps

NextAnswer(m) ==
  /\ mgr.wait = "next"
  /\ \/ m.status # "OK" /\ GiveUp
     \/ /\ m.status = "OK"
        /\ inbox' = [inbox EXCEPT ![To] = Append(@, [m EXCEPT !.cmd = "ADD"])]
        /\ mgr' = [mgr EXCEPT !.wait = "add", !.newsep = m.key]
        /\ UNCHANGED rd
  /\ UNCHANGED seps

AddAnswer(m) ==
  /\ mgr.wait = "add"
  /\ \/ m.status # "OK" /\ GiveUp
     \/ /\ m.status = "OK"
        /\ Send(From, m, "DISPOSE", "dispose")
        /\ UNCHANGED rd
  /\ UNCHANGED seps

(* "WORST CASE" is printed on a failure, and the separator moves anyway.   *)
DisposeAnswer == mgr.wait = "dispose" /\ SetSeparator

TransferAnswer ==
  /\ answers # <<>>
  /\ LET m == Head(answers)
     IN  ObtainAnswer(m) \/ NextAnswer(m) \/ AddAnswer(m) \/ DisposeAnswer
  /\ answers' = Tail(answers)
  /\ UNCHANGED <<counts, requests, replies, data, changes, client, timeouts,
                 history>>

TransferTimeout ==
  /\ mgr.wait \in TransferWaits /\ answers = <<>>
  /\ RunsOut(ServersSilent)
  /\ \/ mgr.wait # "dispose" /\ GiveUp /\ UNCHANGED seps
     \/ mgr.wait = "dispose" /\ SetSeparator
  /\ UNCHANGED <<answers, counts, requests, replies, data, changes, client,
                 history>>

-----------------------------------------------------------------------------
Manager ==
  \/ ForwardAnswer \/ ForwardRequest
  \/ CountAnswer \/ CountTimeout
  \/ RedistributionLoop \/ RedistributionReturns
  \/ BeginTransfer \/ TransferAnswer \/ TransferTimeout

Client(c) ==
  \/ \E cmd \in ClientCmds, key \in Keys : Request(c, cmd, key)
  \/ SkipReply(c) \/ AcceptReply(c) \/ ClientTimeout(c)

Next ==
  \/ Manager
  \/ \E s \in Servers : Serve(s)
  \/ \E c \in Clients : Client(c)

(* The manager and the servers are loops around a receive that blocks or   *)
(* gives up, and so is a client that waits for its answer: each goes on    *)
(* as long as it can.  Nobody has to type a command.                       *)
Spec ==
  /\ Init /\ [][Next]_vars
  /\ WF_vars(Manager)
  /\ \A s \in Servers : WF_vars(Serve(s))
  /\ \A c \in Clients : WF_vars(SkipReply(c) \/ AcceptReply(c) \/ ClientTimeout(c))

-----------------------------------------------------------------------------
(* The commands that name a key, and the answers that do.                  *)
Asking ==
  {m \in Msg : \/ m.cmd \in {"OBTAIN_MIN", "OBTAIN_MAX", "GET_RECORDS_CNT"}
              \/ m.key \in Keys}
Answering ==
  {m \in Msg : m.status \in {"OK", "EXISTENT_KEY"} => m.key \in Keys}

MailType ==
  /\ inbox \in [Servers -> Seq(Asking)] /\ requests \in Seq(Asking)
  /\ answers \in Seq(Answering) /\ replies \in [Clients -> Seq(Answering)]
  /\ counts \in Seq(Msg)

DataType ==
  /\ store \in [Servers -> SUBSET Keys]
  /\ records \in [Servers -> Int]

MgrType ==
  /\ seps \in [0 .. NServers - 2 -> Keys \cup {Top}]
  /\ changes \in Nat
  /\ mgr \in [wait : Waits, asked : Servers, cnts : [Servers -> Int],
              newsep : Keys \cup {Top}]

ClientType ==
  /\ client \in [Clients -> [waiting : BOOLEAN, ctr : 1 .. MaxReqId,
                             cmd : Cmds, key : Keys \cup {NoKey}]]
  /\ timeouts \in 0 .. MaxTimeouts
  /\ known \subseteq Keys /\ wentLeft \in BOOLEAN /\ crossed \in BOOLEAN

TypeOK == RdType /\ MailType /\ DataType /\ MgrType /\ ClientType

Stored == UNION {store[s] : s \in Servers}

(***************************************************************************)
(* transfer_left and transfer_right take whatever answer comes first for   *)
(* the answer to their own command.  The answers are their own as long as  *)
(* no transfer begins while another command is on its way (~crossed).      *)
(***************************************************************************)

(* With one client that waits for its answers, the redistribution starts   *)
(* on an answer, never on a request: a request and its answer both count   *)
(* as a change, and the threshold 30 * (1 + n) is even.                    *)
NeverCrossed == ~crossed

(* A transfer moves a key: until it is done, no key appears in the         *)
(* collection and none is gone from it, whichever of its four commands     *)
(* fails or is answered too late.                                          *)
TransfersKeepKeys ==
  [][mgr.wait \in TransferWaits /\ ~crossed => Stored' = Stored]_vars

(* A key a client was told is in the collection stays stored on some       *)
(* server until a client asks to dispose it: transfer_* adds to the        *)
(* neighbour before it disposes, whatever the counts and separators.       *)
KnownStored == ~crossed => known \subseteq Stored

(* No wait ran out, and keys were only moved to the right, when nothing    *)
(* else was under way.                                                     *)
Undisturbed == timeouts = 0 /\ ~wentLeft /\ ~crossed

(* get_id_for_key stops at the first separator above the key, so it finds  *)
(* the server only if the separators never decrease.  They do decrease     *)
(* when a least key that transfer_left left behind is moved to the right.  *)
SeparatorsSorted ==
  Undisturbed =>
    \A i, j \in 0 .. NServers - 2 : i < j => seps[i] <= seps[j]

AtRest == AtMain /\ \A s \in Servers : inbox[s] = <<>>

(* As long as keys were only moved to the right, every stored key is on    *)
(* the server its commands are routed to, and so on no other.              *)
RoutableBeforeLeft ==
  AtRest /\ Undisturbed =>
    \A s \in Servers : \A k \in store[s] : Route(k) = s

(* The answer a client accepts is the answer to what it asked.             *)
AnswersMatch ==
  ~crossed => \A c \in Clients :
    client[c].waiting /\ replies[c] # <<>> =>
      LET m == Head(replies[c])
      IN  m.req = client[c].ctr => m.cmd = client[c].cmd /\ m.key = client[c].key

(* The messages of client c in every mailbox it can be in.                 *)
InFlight(c) ==
  LET held(box) == Cardinality({i \in DOMAIN box : box[i].pid = c})
  IN  held(requests) + held(answers) + held(replies[c])
      + Sum([s \in Servers |-> held(inbox[s])])

(* No command is lost or doubled between the client, the manager and the   *)
(* servers: while a client waits, there is one message of its own about.   *)
OneMessagePerClient ==
  ~crossed => \A c \in Clients :
    InFlight(c) = IF client[c].waiting THEN 1 ELSE 0

(* The client's command as the abstract KeyMap sees it: asked for until a  *)
(* storage server has served it, done until the client takes the answer.   *)
MessagesOf(c) ==
  LET of(box) == {m \in {box[i] : i \in DOMAIN box} : m.pid = c}
  IN  of(requests) \cup of(answers) \cup of(replies[c])
      \cup UNION {of(inbox[s]) : s \in Servers}

OpOf(c) ==
  IF client[c].waiting /\ MessagesOf(c) # {}
  THEN LET m == CHOOSE m \in MessagesOf(c) : TRUE
       IN  [at |-> IF m.status = "CLIENT" THEN "asked" ELSE "done",
            cmd |-> m.cmd, key |-> m.key, status |-> m.status]
  ELSE [at |-> "idle"]

KM == INSTANCE KeyMap WITH keys <- Stored, op <- [c \in Clients |-> OpOf(c)]

(* Spread over servers, routed, and moved while in use, the keys behave as *)
(* one set: up to the first transfer to the left, every command takes      *)
(* effect exactly once, on the state of the collection as a whole.         *)
ImplementsKeyMap ==
  KM!Init /\ [][KM!Next \/ wentLeft' \/ crossed']_(KM!vars)

(* Every command is answered, redistributions in between included.         *)
EveryRequestReturns ==
  \A c \in Clients : client[c].waiting ~> ~client[c].waiting

(* The manager always comes back to its main loop.                         *)
ManagerReturns == ~AtMain ~> AtMain

-----------------------------------------------------------------------------
(***************************************************************************)
(* What the comments in transfer_left and transfer_right say, and the code *)
(* does not do.                                                            *)
(***************************************************************************)

(* "SEND MIN TO THE LEFT SERVER": what transfer_left adds to the left      *)
(* server is the least key of the current one.                             *)
SendsMinToTheLeft ==
  [][mgr.wait = "next" /\ mgr'.wait = "add" =>
       mgr'.newsep = Least(store[From])]_vars

(* "SEND MAX TO THE RIGHT SERVER ... DISPOSE MAX FROM CUR SERVER": what    *)
(* transfer_right disposes is what it added to the right server.           *)
DisposesWhatItSent ==
  [][mgr.wait = "add" /\ mgr'.wait = "dispose" /\ rd.at = "right" =>
       Head(answers).key \in store[To]]_vars
=============================================================================
