--------------------------- MODULE ManagerProofs ---------------------------
(***************************************************************************)
(* Theorems about the manager for any number of clients, servers and keys, *)
(* any counts the servers report, and any waits that run out: its type     *)
(* invariant, that a transfer between servers keeps the keys, and that, as *)
(* long as keys only move to the right, the separators stay sorted and     *)
(* every key stays where get_id_for_key sends its commands.                *)
(***************************************************************************)
EXTENDS Manager, RedistributionProofs, FiniteSetTheorems

-----------------------------------------------------------------------------
(* Least and Greatest name a member of every set of keys there is.         *)
LEMMA LeastIsMember ==
  ASSUME NEW S \in SUBSET Nat, S # {}
  PROVE  Least(S) \in S
<1>1. PICK k \in S : \A l \in S : k <= l
  BY LeastExists
<1> QED  BY <1>1 DEF Least

(* The rightmost key of a server's tree, as OBTAIN_MAX reads it, is in it  *)
(* and above the others.                                                   *)
LEMMA GreatestIsMember ==
  ASSUME NEW S \in SUBSET Keys, S # {}
  PROVE  Greatest(S) \in S /\ \A k \in S : k <= Greatest(S)
<1> DEFINE Below == {n \in Nat : \E k \in S : k = NKeys - n}
<1>1. NKeys \in Nat
  BY ManagerAssumption
<1>2. PICK k \in S : k \in 1 .. NKeys
  BY DEF Keys
<1>3. NKeys - k \in Below
  BY <1>1, <1>2
<1>4. PICK n \in Below : \A l \in Below : n <= l
  BY <1>3, LeastExists
<1>5. PICK g \in S : g = NKeys - n
  BY <1>4
<1>6. ASSUME NEW l \in S  PROVE g >= l
  <2>1. l \in 1 .. NKeys
    BY DEF Keys
  <2>2. NKeys - l \in Below
    BY <1>1, <2>1
  <2> QED  BY <1>1, <1>4, <1>5, <2>1, <2>2
<1>7. Greatest(S) \in S /\ \A l \in S : Greatest(S) >= l
  BY <1>5, <1>6 DEF Greatest
<1>8. \A l \in S : l \in Int
  BY DEF Keys
<1> QED  BY <1>7, <1>8

(* OBTAIN_NEXT of a stored key brings a stored key.                        *)
LEMMA FollowingIsMember ==
  ASSUME NEW S \in SUBSET Keys, NEW key \in S
  PROVE  Following(S, key) \in S
<1> DEFINE above == {k \in S : k > key}
<1>1. above \in SUBSET Nat
  <2>1. Keys \subseteq Nat
    BY ManagerAssumption DEF Keys
  <2> QED  BY <2>1
<1>2. above # {} => Least(above) \in above
  BY <1>1, LeastIsMember
<1> QED  BY <1>2 DEF Following

-----------------------------------------------------------------------------
(* Taking the first message of a mailbox, and sending one, keep its type.  *)
LEMMA Received ==
  ASSUME NEW M, NEW box \in Seq(M), box # <<>>
  PROVE  Head(box) \in M /\ Tail(box) \in Seq(M)
OBVIOUS

(* A message sent to a mailbox keeps the mailbox's type.                   *)
LEMMA Sent ==
  ASSUME NEW M, NEW box \in Seq(M), NEW m \in M
  PROVE  Append(box, m) \in Seq(M)
OBVIOUS

(* A message sent to one server keeps the type of every server's inbox.    *)
LEMMA SentTo ==
  ASSUME NEW M, NEW box \in [Servers -> Seq(M)], NEW m \in M, NEW s
  PROVE  [box EXCEPT ![s] = Append(@, m)] \in [Servers -> Seq(M)]
BY Sent

(* The manager's own commands are well-typed messages to a server.         *)
LEMMA OwnMsgType ==
  ASSUME NEW cmd \in {"OBTAIN_MIN", "OBTAIN_MAX", "GET_RECORDS_CNT"}
  PROVE  OwnMsg(cmd) \in Asking
<1>1. 0 \in ReqIds /\ 0 \in Int /\ "OK" \in Statuses
  BY ManagerAssumption DEF ReqIds, Statuses
<1> QED  BY <1>1 DEF OwnMsg, Msg, Asking, Cmds

-----------------------------------------------------------------------------
(* The type invariant, with the part of it that RdType does not state.     *)
TypeInv == TypeOK /\ RdInv

(* The system starts in a state of the type invariant.                     *)
LEMMA TypeInvInit ==
  ASSUME Init
  PROVE  TypeInv
<1> USE DEF Init
<1>1. NServers \in Nat \ {0} /\ 0 \in Servers
  BY NServersAssumption DEF Servers
<1>2. RdInv
  BY RdInvIdle
<1>3. MailType
  BY DEF MailType
<1>4. DataType
  <2>1. records \in [Servers -> Int]
    <3>1. records \in [Servers -> Uninitialised] /\ Uninitialised \subseteq Int
      BY ManagerAssumption
    <3> QED  BY <3>1
  <2> QED  BY <2>1 DEF DataType
<1>5. MgrType
  BY <1>1 DEF MgrType, Waits
<1>6. ClientType
  <2>1. 1 \in 1 .. MaxReqId /\ 0 \in 0 .. MaxTimeouts /\ "OBTAIN" \in Cmds
    BY ManagerAssumption DEF Cmds
  <2> QED  BY <2>1 DEF ClientType
<1> QED  BY <1>2, <1>3, <1>4, <1>5, <1>6 DEF TypeInv, TypeOK, RdInv

(* What the clients do.                                                    *)
LEMMA TypeInvRequest ==
  ASSUME TypeInv, NEW c \in Clients, NEW cmd \in ClientCmds, NEW key \in Keys,
         Request(c, cmd, key)
  PROVE  TypeInv'
<1> USE DEF TypeInv, TypeOK
<1> DEFINE m == [pid |-> c, req |-> client[c].ctr, cmd |-> cmd,
                 status |-> "CLIENT", key |-> key, cnt |-> 0]
<1>1. cmd \in Cmds /\ "CLIENT" \in Statuses /\ 0 \in Int
  BY ManagerAssumption DEF Cmds, DataChanges, Statuses
<1>2. client[c].ctr \in 1 .. MaxReqId /\ client[c].ctr \in ReqIds
  BY ManagerAssumption DEF ClientType, ReqIds
<1>3. m \in Asking
  BY <1>1, <1>2 DEF Msg, Asking
<1>4. MailType'
  BY <1>3, Sent DEF Request, MailType
<1>5. ClientType'
  BY <1>1, <1>2 DEF Request, ClientType
<1> QED
  BY <1>4, <1>5 DEF Request, RdInv, RdType, DataType, MgrType, data

(* A client that reads a reply, drops it or stops waiting keeps the type   *)
(* invariant.                                                              *)
LEMMA TypeInvReply ==
  ASSUME TypeInv, NEW c \in Clients,
         SkipReply(c) \/ AcceptReply(c) \/ ClientTimeout(c)
  PROVE  TypeInv'
<1> USE DEF TypeInv, TypeOK
<1>1. client[c].ctr \in 1 .. MaxReqId
  BY DEF ClientType
<1>2. (client[c].ctr % MaxReqId) + 1 \in 1 .. MaxReqId
  BY <1>1, ManagerAssumption
<1>3. CASE SkipReply(c)
  <2>1. MailType'
    BY <1>3, Received DEF SkipReply, MailType
  <2> QED
    BY <1>3, <2>1 DEF SkipReply, RdInv, RdType, DataType, MgrType, ClientType,
                      data, history
<1>4. CASE AcceptReply(c)
  <2>1. MailType'
    BY <1>4, Received DEF AcceptReply, MailType
  <2>2. Head(replies[c]) \in Answering
    BY <1>4, Received DEF AcceptReply, MailType
  <2>3. TellsPresent(Head(replies[c])) => Head(replies[c]).key \in Keys
    BY <2>2 DEF Answering, TellsPresent
  <2>4. client' \in [Clients -> [waiting : BOOLEAN, ctr : 1 .. MaxReqId,
                                 cmd : Cmds, key : Keys \cup {NoKey}]]
    BY <1>2, <1>4 DEF AcceptReply, ClientType
  <2>5. known' \subseteq Keys
    BY <1>4, <2>3 DEF AcceptReply, ClientType
  <2>6. ClientType'
    BY <1>4, <2>4, <2>5 DEF AcceptReply, ClientType
  <2> QED
    BY <1>4, <2>1, <2>6 DEF AcceptReply, RdInv, RdType, DataType, MgrType, data
<1>5. CASE ClientTimeout(c)
  <2>1. timeouts' \in 0 .. MaxTimeouts
    BY <1>5, ManagerAssumption DEF ClientTimeout, RunsOut, ClientType
  <2>2. client' \in [Clients -> [waiting : BOOLEAN, ctr : 1 .. MaxReqId,
                                 cmd : Cmds, key : Keys \cup {NoKey}]]
    BY <1>5 DEF ClientTimeout, ClientType
  <2>3. ClientType'
    BY <1>5, <2>1, <2>2 DEF ClientTimeout, ClientType, history
  <2> QED
    BY <1>5, <2>3 DEF ClientTimeout, RdInv, RdType, MailType, DataType, MgrType,
                      mail, data
<1> QED  BY <1>3, <1>4, <1>5

(* What the storage servers do.                                            *)
LEMMA TypeInvAnswer ==
  ASSUME TypeInv, NEW s \in Servers, inbox[s] # <<>>,
         NEW status \in Statuses, NEW key \in Keys \cup {NoKey},
         status \in {"OK", "EXISTENT_KEY"} => key \in Keys,
         Answer(s, status, key)
  PROVE  RdInv' /\ RdType' /\ MailType' /\ MgrType' /\ ClientType'
<1> USE DEF TypeInv, TypeOK
<1>1. Head(inbox[s]) \in Asking /\ Tail(inbox[s]) \in Seq(Asking)
  BY Received DEF MailType
<1>2. [Head(inbox[s]) EXCEPT !.status = status, !.key = key] \in Answering
  BY <1>1 DEF Msg, Asking, Answering
<1>3. MailType'
  BY <1>1, <1>2, Sent DEF Answer, MailType
<1> QED
  BY <1>3 DEF Answer, RdInv, RdType, MgrType, ClientType, history

(* A server that serves the next command keeps the type invariant.         *)
LEMMA TypeInvServe ==
  ASSUME TypeInv, NEW s \in Servers, Serve(s)
  PROVE  TypeInv'
<1> USE DEF TypeInv, TypeOK
<1>1. inbox[s] # <<>>
  BY DEF Serve, ServeAdd, ServeDispose, ServeUpdateOrObtain, ServeMinOrMax,
         ServeNext, ServeCount, NoMemory, Serves
<1> DEFINE key == Head(inbox[s]).key
<1>2. Head(inbox[s]) \in Asking /\ Tail(inbox[s]) \in Seq(Asking)
  BY <1>1, Received DEF MailType
<1>3. key \in Keys \cup {NoKey} /\ store[s] \in SUBSET Keys
  BY <1>2 DEF Msg, Asking, DataType
<1>4. {"OK", "EXISTENT_KEY", "NONEXISTENT_KEY"} \subseteq Statuses
  BY DEF Statuses
<1>5. Keys \subseteq Nat
  BY ManagerAssumption DEF Keys
<1>6. CASE ServeAdd(s)
  <2>0. key \in Keys
    BY <1>2, <1>6 DEF ServeAdd, Serves, Asking
  <2>1. DataType'
    <3>1. key \in store[s] => UNCHANGED data
      BY <1>6 DEF ServeAdd
    <3>2. key \notin store[s] =>
            /\ store' = [store EXCEPT ![s] = @ \cup {key}]
            /\ records' = [records EXCEPT ![s] = @ + 1]
      BY <1>6 DEF ServeAdd
    <3> QED  BY <2>0, <3>1, <3>2 DEF DataType, data
  <2> QED  BY <1>1, <2>0, <1>4, <1>6, <2>1, TypeInvAnswer DEF ServeAdd
<1>7. CASE ServeDispose(s)
  <2>1. DataType'
    BY <1>3, <1>7 DEF ServeDispose, DataType, data
  <2>2. key \in Keys
    BY <1>2, <1>7 DEF ServeDispose, Serves, Asking
  <2> QED  BY <1>1, <1>4, <1>7, <2>1, <2>2, TypeInvAnswer DEF ServeDispose
<1>8. CASE ServeUpdateOrObtain(s)
  <2>1. DataType'
    BY <1>8 DEF ServeUpdateOrObtain, DataType, data
  <2>2. key \in Keys
    BY <1>2, <1>8 DEF ServeUpdateOrObtain, Serves, Asking
  <2> QED  BY <1>1, <1>4, <1>8, <2>1, <2>2, TypeInvAnswer DEF ServeUpdateOrObtain
<1>9. CASE ServeMinOrMax(s)
  <2>1. DataType'
    BY <1>9 DEF ServeMinOrMax, DataType, data
  <2>2. store[s] # {} => Least(store[s]) \in Keys /\ Greatest(store[s]) \in Keys
    BY <1>3, <1>5, LeastIsMember, GreatestIsMember
  <2> QED  BY <1>1, <1>3, <1>4, <1>9, <2>1, <2>2, TypeInvAnswer DEF ServeMinOrMax
<1>10. CASE ServeNext(s)
  <2>1. DataType'
    BY <1>10 DEF ServeNext, DataType, data
  <2>2. key \in store[s] => Following(store[s], key) \in Keys
    BY <1>3, FollowingIsMember
  <2> QED  BY <1>1, <1>3, <1>4, <1>10, <2>1, <2>2, TypeInvAnswer DEF ServeNext
<1>11. CASE ServeCount(s)
  <2>1. records[s] \in Int
    BY DEF DataType
  <2>2. [Head(inbox[s]) EXCEPT !.status = "OK", !.cnt = records[s]] \in Msg
    BY <1>2, <1>4, <2>1 DEF Msg, Asking
  <2>3. MailType'
    BY <1>2, <1>11, <2>2, Sent DEF ServeCount, MailType
  <2> QED
    BY <1>11, <2>3 DEF ServeCount, RdInv, RdType, DataType, MgrType, ClientType,
                       data, history
<1>12. CASE NoMemory(s)
  <2>1. DataType' /\ Answer(s, "BAD_ALLOC", key)
    BY <1>12 DEF NoMemory, DataType, data
  <2>2. "BAD_ALLOC" \in Statuses
    BY DEF Statuses
  <2> QED  BY <1>1, <1>3, <2>1, <2>2, TypeInvAnswer
<1> QED
  BY <1>6, <1>7, <1>8, <1>9, <1>10, <1>11, <1>12 DEF Serve

-----------------------------------------------------------------------------
(* What the manager does.                                                  *)
LEMMA TypeInvForward ==
  ASSUME TypeInv, ForwardRequest \/ ForwardAnswer
  PROVE  TypeInv'
<1> USE DEF TypeInv, TypeOK
<1>1. ASSUME NEW cmd \in Cmds, NEW box \in [Servers -> Seq(Asking)],
             CountChange(cmd, box)
      PROVE  inbox' \in [Servers -> Seq(Asking)] /\ changes' \in Nat
             /\ mgr' \in [wait : Waits, asked : Servers, cnts : [Servers -> Int],
                          newsep : Keys \cup {Top}]
  <2>1. OwnMsg("GET_RECORDS_CNT") \in Asking
    BY OwnMsgType
  <2>2. changes + (IF cmd \in DataChanges THEN 1 ELSE 0) \in Nat
    BY DEF MgrType
  <2>3. 0 \in Servers /\ "count" \in Waits
    BY NServersAssumption DEF Servers, Waits
  <2>4. inbox' \in [Servers -> Seq(Asking)]
    <3>1. [box EXCEPT ![0] = Append(@, OwnMsg("GET_RECORDS_CNT"))]
            \in [Servers -> Seq(Asking)]
      BY <2>1, SentTo
    <3> QED  BY <1>1, <3>1 DEF CountChange
  <2>5. changes' \in Nat
    BY <1>1, <2>2 DEF CountChange
  <2>6. mgr' = mgr \/ mgr' = [mgr EXCEPT !.wait = "count", !.asked = 0]
    BY <1>1 DEF CountChange
  <2> QED  BY <2>3, <2>4, <2>5, <2>6 DEF MgrType
<1>2. CASE ForwardRequest
  <2> DEFINE m == Head(requests)
             box == [inbox EXCEPT ![Route(m.key)] = Append(@, m)]
  <2>1. m \in Asking /\ m.cmd \in Cmds /\ requests' \in Seq(Asking)
    BY <1>2, Received DEF ForwardRequest, MailType, Msg, Asking
  <2>2. box \in [Servers -> Seq(Asking)]
    BY <2>1, SentTo DEF MailType
  <2>3. CountChange(m.cmd, box)
    BY <1>2 DEF ForwardRequest
  <2> HIDE DEF box
  <2>4. MailType' /\ MgrType'
    BY <1>1, <1>2, <2>1, <2>2, <2>3 DEF ForwardRequest, MailType, MgrType
  <2> QED
    BY <1>2, <2>4 DEF ForwardRequest, RdInv, RdType, DataType, ClientType,
                      data, history
<1>3. CASE ForwardAnswer
  <2> DEFINE m == Head(answers)
  <2>1. m \in Answering /\ m.cmd \in Cmds /\ answers' \in Seq(Answering)
    BY <1>3, Received DEF ForwardAnswer, MailType, Msg, Answering
  <2>2. CountChange(m.cmd, inbox) /\ inbox \in [Servers -> Seq(Asking)]
    BY <1>3 DEF ForwardAnswer, MailType
  <2>3. replies' \in [Clients -> Seq(Answering)]
    BY <1>3, <2>1, Sent DEF ForwardAnswer, MailType
  <2>4. MailType' /\ MgrType'
    BY <1>1, <1>3, <2>1, <2>2, <2>3 DEF ForwardAnswer, MailType, MgrType
  <2> QED
    BY <1>3, <2>4 DEF ForwardAnswer, RdInv, RdType, DataType, ClientType,
                      data, history
<1> QED  BY <1>2, <1>3

(* Counting the records of the servers keeps the type invariant, up to the *)
(* start of the redistribution.                                            *)
LEMMA TypeInvCount ==
  ASSUME TypeInv, CountAnswer \/ CountTimeout
  PROVE  TypeInv'
<1> USE DEF TypeInv, TypeOK
<1>1. [s \in Servers |-> 0] \in [Servers -> Int] /\ "main" \in Waits /\ 0 \in Servers
  BY NServersAssumption DEF Waits, Servers
<1>2. CASE CountAnswer
  <2> DEFINE m == Head(counts)
             cnts == [mgr.cnts EXCEPT ![mgr.asked] = m.cnt]
             next == mgr.asked + 1
  <2>1. m \in Msg /\ counts' \in Seq(Msg)
    BY <1>2, Received DEF CountAnswer, MailType
  <2>2. cnts \in [Servers -> Int]
    BY <2>1 DEF MgrType, Msg
  <2>3. CASE next < NServers
    <3>1. next \in Servers
      BY <2>3, NServersAssumption DEF MgrType, Servers
    <3>2. mgr' = [mgr EXCEPT !.cnts = cnts, !.asked = next]
      BY <1>2, <2>3 DEF CountAnswer
    <3>3. MgrType'
      BY <1>2, <2>2, <3>1, <3>2 DEF CountAnswer, MgrType
    <3>4. inbox' = [inbox EXCEPT ![next] = Append(@, OwnMsg("GET_RECORDS_CNT"))]
      BY <1>2, <2>3 DEF CountAnswer
    <3>5. inbox' \in [Servers -> Seq(Asking)]
      BY <3>4, OwnMsgType, SentTo DEF MailType
    <3>6. MailType'
      BY <1>2, <2>1, <3>5 DEF CountAnswer, MailType
    <3> QED
      BY <1>2, <2>3, <3>3, <3>6 DEF CountAnswer, RdInv, RdType, DataType,
                                    ClientType, data, history
  <2>4. CASE ~(next < NServers)
    <3>1. mgr' = [mgr EXCEPT !.wait = "main", !.asked = 0,
                             !.cnts = [s \in Servers |-> 0]]
      BY <1>2, <2>4 DEF CountAnswer
    <3>2. MgrType'
      BY <1>1, <1>2, <3>1 DEF CountAnswer, MgrType
    <3>3. MailType'
      BY <1>2, <2>1, <2>4 DEF CountAnswer, MailType
    <3>4. Start(cnts) \/ UNCHANGED rd
      BY <1>2, <2>4 DEF CountAnswer
    <3>5. RdInv'
      <4>1. Start(cnts) => RdInv'
        BY <2>2, RdInvStart
      <4>2. UNCHANGED rd => RdInv'
        BY DEF RdInv, RdType
      <4> QED  BY <3>4, <4>1, <4>2
    <3> QED
      BY <1>2, <3>2, <3>3, <3>5 DEF CountAnswer, RdInv, DataType, ClientType,
                                    data, history
  <2> QED  BY <2>3, <2>4
<1>3. CASE CountTimeout
  <2>1. timeouts' \in 0 .. MaxTimeouts
    BY <1>3, ManagerAssumption DEF CountTimeout, RunsOut, ClientType
  <2>2. MgrType'
    BY <1>1, <1>3 DEF CountTimeout, MgrType
  <2>3. ClientType'
    BY <1>3, <2>1 DEF CountTimeout, ClientType, history
  <2> QED
    BY <1>3, <2>2, <2>3 DEF CountTimeout, RdInv, RdType, MailType, DataType,
                            mail, data
<1> QED  BY <1>2, <1>3

(* The steps of the redistribution's loop keep the type invariant.         *)
LEMMA TypeInvRedistribution ==
  ASSUME TypeInv, RedistributionLoop \/ RedistributionReturns
  PROVE  TypeInv'
<1>1. RdInv'
  BY RdInvLoop, RdInvAbort DEF TypeInv, RedistributionLoop, RedistributionReturns
<1>2. UNCHANGED <<mail, data, seps, changes, mgr, client, timeouts, history>>
  BY DEF RedistributionLoop, RedistributionReturns, Local
<1> QED
  BY <1>1, <1>2 DEF TypeInv, TypeOK, RdInv, MailType, DataType, MgrType, ClientType,
                    mail, data, history

(* The first command of a transfer goes to a server that exists.           *)
LEMMA TypeInvBeginTransfer ==
  ASSUME TypeInv, BeginTransfer
  PROVE  TypeInv'
<1> USE DEF TypeInv, TypeOK
<1> DEFINE cmd == IF rd.at = "left" THEN "OBTAIN_MIN" ELSE "OBTAIN_MAX"
<1>1. [OwnMsg("OBTAIN_MIN") EXCEPT !.cmd = cmd] = OwnMsg(cmd)
  BY DEF OwnMsg
<1>2. OwnMsg(cmd) \in Asking
  BY OwnMsgType
<1>3. inbox' = [inbox EXCEPT ![From] = Append(@, OwnMsg(cmd))]
  BY <1>1 DEF BeginTransfer, Send
<1>4. inbox' \in [Servers -> Seq(Asking)]
  BY <1>2, <1>3, SentTo DEF MailType
<1>5. MailType'
  BY <1>4 DEF BeginTransfer, MailType
<1>6. MgrType'
  BY DEF BeginTransfer, Send, MgrType, Waits, TransferWaits
<1>7. ClientType'
  <2>1. wentLeft' \in BOOLEAN /\ crossed' \in BOOLEAN
    BY DEF BeginTransfer, ClientType
  <2> QED  BY <2>1 DEF BeginTransfer, ClientType
<1> QED
  BY <1>5, <1>6, <1>7 DEF BeginTransfer, RdInv, RdType, DataType, data

(* What a transfer does with an answer, a failure or a wait that ran out.  *)
LEMMA TypeInvGiveUp ==
  ASSUME TypeInv, GiveUp, UNCHANGED seps, UNCHANGED changes
  PROVE  RdInv' /\ MgrType' /\ inbox' = inbox
<1>1. RdInv'
  BY RdInvAbort DEF GiveUp
<1>2. Top \in Keys \cup {Top} /\ "main" \in Waits
  BY DEF Waits
<1> QED  BY <1>1, <1>2 DEF GiveUp, TypeInv, TypeOK, MgrType

(* The separator a transfer sets is one that exists.                       *)
LEMMA TypeInvSetSeparator ==
  ASSUME TypeInv, SetSeparator, UNCHANGED changes
  PROVE  RdInv' /\ MgrType' /\ inbox' = inbox
<1>1. RdInv'
  BY RdInvTransferred DEF SetSeparator, TypeInv
<1>2. Top \in Keys \cup {Top} /\ "main" \in Waits /\ mgr.newsep \in Keys \cup {Top}
  BY DEF Waits, TypeInv, TypeOK, MgrType
<1>3. seps' \in [0 .. NServers - 2 -> Keys \cup {Top}]
  BY <1>2 DEF SetSeparator, TypeInv, TypeOK, MgrType
<1>4. mgr' = [mgr EXCEPT !.wait = "main", !.newsep = Top]
  BY DEF SetSeparator
<1> QED  BY <1>1, <1>2, <1>3, <1>4 DEF SetSeparator, TypeInv, TypeOK, MgrType

(* The next command is the answer itself with another cmd: it names a key  *)
(* if the answer's status is OK.                                           *)
LEMMA SentOnType ==
  ASSUME NEW m \in Answering, m.status = "OK", NEW cmd \in Cmds
  PROVE  m.key \in Keys /\ [m EXCEPT !.cmd = cmd] \in Asking
BY DEF Answering, Asking, Msg

(* The answers of a transfer keep the type invariant.                      *)
LEMMA TypeInvTransferAnswer ==
  ASSUME TypeInv, TransferAnswer
  PROVE  TypeInv'
<1> DEFINE m == Head(answers)
<1>1. m \in Answering /\ answers' \in Seq(Answering)
  BY Received DEF TransferAnswer, TypeInv, TypeOK, MailType
<1>2. UNCHANGED <<counts, requests, replies, data, changes, client, timeouts, history>>
  BY DEF TransferAnswer
<1>3. SUFFICES RdInv' /\ MgrType' /\ inbox' \in [Servers -> Seq(Asking)]
  BY <1>1, <1>2 DEF TypeInv, TypeOK, RdInv, MailType, DataType, ClientType,
                    data, history
<1>4. RdInv /\ MgrType /\ inbox \in [Servers -> Seq(Asking)]
  BY DEF TypeInv, TypeOK, MailType
<1>5. ASSUME UNCHANGED rd  PROVE RdInv'
  BY <1>4, <1>5 DEF RdInv, RdType
<1>6. {"OBTAIN_NEXT", "ADD", "DISPOSE"} \subseteq Cmds
      /\ {"next", "add", "dispose"} \subseteq Waits
  BY DEF Cmds, DataChanges, Waits, TransferWaits
<1>7. ASSUME NEW dest, NEW cmd \in {"OBTAIN_NEXT", "ADD", "DISPOSE"},
             NEW wait \in {"next", "add", "dispose"}, m.status = "OK",
             UNCHANGED <<rd, seps>>,
             inbox' = [inbox EXCEPT ![dest] = Append(@, [m EXCEPT !.cmd = cmd])],
             \/ mgr' = [mgr EXCEPT !.wait = wait]
             \/ mgr' = [mgr EXCEPT !.wait = wait, !.newsep = m.key]
      PROVE  RdInv' /\ MgrType' /\ inbox' \in [Servers -> Seq(Asking)]
  <2>1. m.key \in Keys /\ [m EXCEPT !.cmd = cmd] \in Asking
    BY <1>1, <1>6, <1>7, SentOnType
  <2>2. inbox' \in [Servers -> Seq(Asking)]
    BY <1>4, <1>7, <2>1, SentTo
  <2>3. MgrType'
    BY <1>2, <1>4, <1>6, <1>7, <2>1 DEF MgrType
  <2> QED  BY <1>5, <1>7, <2>2, <2>3
<1>8. ASSUME GiveUp, UNCHANGED seps
      PROVE  RdInv' /\ MgrType' /\ inbox' \in [Servers -> Seq(Asking)]
  BY <1>2, <1>4, <1>8, TypeInvGiveUp
<1>9. CASE ObtainAnswer(m)
  BY <1>7, <1>8, <1>9 DEF ObtainAnswer, Send
<1>10. CASE NextAnswer(m)
  BY <1>7, <1>8, <1>10 DEF NextAnswer
<1>11. CASE AddAnswer(m)
  BY <1>7, <1>8, <1>11 DEF AddAnswer, Send
<1>12. CASE DisposeAnswer
  BY <1>2, <1>4, <1>12, TypeInvSetSeparator DEF DisposeAnswer
<1> QED
  BY <1>9, <1>10, <1>11, <1>12 DEF TransferAnswer

(* A wait that runs out during a transfer keeps the type invariant.        *)
LEMMA TypeInvTransferTimeout ==
  ASSUME TypeInv, TransferTimeout
  PROVE  TypeInv'
<1>1. UNCHANGED <<answers, counts, requests, replies, data, changes, client, history>>
  BY DEF TransferTimeout
<1>2. timeouts' \in 0 .. MaxTimeouts
  BY ManagerAssumption DEF TransferTimeout, RunsOut, TypeInv, TypeOK, ClientType
<1>3. (GiveUp /\ UNCHANGED seps) \/ SetSeparator
  BY DEF TransferTimeout
<1>4. RdInv' /\ MgrType' /\ inbox' = inbox
  BY <1>1, <1>3, TypeInvGiveUp, TypeInvSetSeparator
<1> QED
  BY <1>1, <1>2, <1>4 DEF TypeInv, TypeOK, RdInv, MailType, DataType, ClientType,
                          data, history

(* Every step keeps the type invariant.                                    *)
LEMMA TypeInvStep ==
  ASSUME TypeInv, [Next]_vars
  PROVE  TypeInv'
<1>1. CASE Manager
  BY <1>1, TypeInvForward, TypeInvCount, TypeInvRedistribution, TypeInvBeginTransfer,
     TypeInvTransferAnswer, TypeInvTransferTimeout DEF Manager
<1>2. CASE \E s \in Servers : Serve(s)
  BY <1>2, TypeInvServe
<1>3. CASE \E c \in Clients : Client(c)
  BY <1>3, TypeInvRequest, TypeInvReply DEF Client
<1>4. CASE UNCHANGED vars
  BY <1>4 DEF vars, TypeInv, TypeOK, RdInv, RdType, MailType, DataType, MgrType,
              ClientType, mail, data, history
<1> QED  BY <1>1, <1>2, <1>3, <1>4 DEF Next

(* Whatever the counts, the answers and the timeouts, the counters of the  *)
(* redistribution loop stay inside its arrays (at() in the code throws     *)
(* otherwise), separators are keys or Top, and no server is sent or told   *)
(* to store the absence of a key.                                          *)
THEOREM TypeCorrect == Spec => []TypeOK
<1>1. Init => TypeInv
  BY TypeInvInit
<1>2. TypeInv /\ [Next]_vars => TypeInv'
  BY TypeInvStep
<1>3. TypeInv => TypeOK
  BY DEF TypeInv
<1> QED  BY <1>1, <1>2, <1>3, PTL DEF Spec

(* A wait that ran out, a transfer to the left and a crossing are not      *)
(* forgotten.                                                              *)
LEMMA HistoryStays ==
  ASSUME TypeInv, [Next]_vars
  PROVE  /\ timeouts' = 0 => timeouts = 0
         /\ wentLeft => wentLeft'
         /\ crossed => crossed'
<1>1. timeouts \in Nat
  BY ManagerAssumption DEF TypeInv, TypeOK, ClientType
<1>2. UNCHANGED timeouts \/ timeouts' = timeouts + 1
  BY DEF Next, Manager, ForwardAnswer, ForwardRequest, CountAnswer, CountTimeout,
     RedistributionLoop, RedistributionReturns, Local, BeginTransfer, TransferAnswer,
     TransferTimeout, Serve, ServeAdd, ServeDispose, ServeUpdateOrObtain, ServeMinOrMax,
     ServeNext, ServeCount, NoMemory, Answer, Client, Request, SkipReply, AcceptReply,
     ClientTimeout, RunsOut, vars
<1>3. (wentLeft => wentLeft') /\ (crossed => crossed')
  <2>1. CASE BeginTransfer
    BY <2>1 DEF BeginTransfer
  <2>2. CASE ~BeginTransfer
    <3>1. UNCHANGED <<wentLeft, crossed>>
      BY <2>2 DEF Next, Manager, ForwardAnswer, ForwardRequest, CountAnswer,
         CountTimeout, RedistributionLoop, RedistributionReturns, Local, TransferAnswer,
         TransferTimeout, Serve, ServeAdd, ServeDispose, ServeUpdateOrObtain,
         ServeMinOrMax, ServeNext, ServeCount, NoMemory, Answer, Client, Request, SkipReply,
         AcceptReply, ClientTimeout, vars, history
    <3> QED  BY <3>1
  <2> QED  BY <2>1, <2>2
<1>4. timeouts' = 0 => timeouts = 0
  BY <1>1, <1>2
<1> QED  BY <1>3, <1>4

-----------------------------------------------------------------------------
(***************************************************************************)
(* During a transfer that began with the servers silent, the manager's     *)
(* last command or the answer to it is the only message on their side, and *)
(* its key is where the next command expects it.                           *)
(***************************************************************************)
Dest == IF mgr.wait = "add" THEN To ELSE From

IsDue(m) ==
  \/ mgr.wait = "obtain" /\ m.cmd \in {"OBTAIN_MIN", "OBTAIN_MAX"}
  \/ mgr.wait = "next" /\ m.cmd = "OBTAIN_NEXT"
  \/ mgr.wait = "add" /\ m.cmd = "ADD"
  \/ mgr.wait = "dispose" /\ m.cmd = "DISPOSE"

OnlyCommand ==
  \E m \in Asking :
    /\ IsDue(m)
    /\ inbox = [s \in Servers |-> IF s = Dest THEN <<m>> ELSE <<>>]
    /\ answers = <<>>
    /\ mgr.wait = "add" => m.key \in store[From]
    /\ mgr.wait = "dispose" => m.key \in store[To]

OnlyAnswer ==
  \E m \in Answering :
    /\ IsDue(m)
    /\ inbox = [s \in Servers |-> <<>>]
    /\ answers = <<m>>
    /\ mgr.wait \in {"obtain", "next"} /\ m.status = "OK" => m.key \in store[From]
    /\ mgr.wait = "add" /\ m.status = "OK" => m.key \in store[To]

TransferInv ==
  ~crossed /\ mgr.wait \in TransferWaits =>
    rd.at \in {"left", "right"} /\ (OnlyCommand \/ OnlyAnswer)

(* Mailboxes with one message.                                             *)
LEMMA OneMessage ==
  ASSUME NEW m
  PROVE  /\ <<m>> # <<>> /\ Head(<<m>>) = m /\ Tail(<<m>>) = <<>>
         /\ Append(<<>>, m) = <<m>>
OBVIOUS

(* A message sent while the servers are idle is the only one there is.     *)
LEMMA SentToEmpty ==
  ASSUME NEW m, NEW dest \in Servers, inbox = [s \in Servers |-> <<>>]
  PROVE  [inbox EXCEPT ![dest] = Append(@, m)] =
           [s \in Servers |-> IF s = dest THEN <<m>> ELSE <<>>]
BY OneMessage

(* Steps that are not part of a transfer.                                  *)
LEMMA TransferInvElsewhere ==
  ASSUME TypeInv, TransferInv,
         \/ ForwardRequest \/ ForwardAnswer \/ CountAnswer \/ CountTimeout
         \/ RedistributionLoop \/ RedistributionReturns \/ TransferTimeout
  PROVE  TransferInv'
<1>1. mgr'.wait \notin TransferWaits
  <2>1. CASE ForwardRequest \/ ForwardAnswer
    BY <2>1 DEF ForwardRequest, ForwardAnswer, AtMain, CountChange, TransferWaits,
                TypeInv, TypeOK, MgrType
  <2>2. CASE CountAnswer \/ CountTimeout
    BY <2>2 DEF CountAnswer, CountTimeout, TransferWaits, TypeInv, TypeOK, MgrType
  <2>3. CASE RedistributionLoop \/ RedistributionReturns
    BY <2>3 DEF RedistributionLoop, RedistributionReturns, Local, TransferWaits
  <2>4. CASE TransferTimeout
    BY <2>4 DEF TransferTimeout, GiveUp, SetSeparator, TransferWaits, TypeInv,
                TypeOK, MgrType
  <2> QED  BY <2>1, <2>2, <2>3, <2>4
<1> QED  BY <1>1 DEF TransferInv

(* What clients do does not touch a transfer under way.                    *)
LEMMA TransferInvClient ==
  ASSUME TypeInv, TransferInv, NEW c \in Clients, Client(c)
  PROVE  TransferInv'
<1>1. UNCHANGED <<rd, inbox, answers, store, mgr, crossed>>
  BY DEF Client, Request, SkipReply, AcceptReply, ClientTimeout, mail, data, history
<1> QED
  BY <1>1 DEF TransferInv, OnlyCommand, OnlyAnswer, IsDue, Dest, From, To

(* A transfer begins with one command on its way.                          *)
LEMMA TransferInvBegin ==
  ASSUME TypeInv, TransferInv, BeginTransfer
  PROVE  TransferInv'
<1> SUFFICES ASSUME ~crossed'  PROVE TransferInv'
  BY DEF TransferInv
<1> DEFINE m == [OwnMsg("OBTAIN_MIN") EXCEPT
                   !.cmd = IF rd.at = "left" THEN "OBTAIN_MIN" ELSE "OBTAIN_MAX"]
<1>1. answers = <<>> /\ \A s \in Servers : inbox[s] = <<>>
  BY DEF BeginTransfer, ServersSilent
<1>2. rd.at \in {"left", "right"} /\ From \in Servers
  BY TransferEnds DEF BeginTransfer, WantsTransfer, TypeInv
<1>3. inbox = [s \in Servers |-> <<>>]
  BY <1>1 DEF TypeInv, TypeOK, MailType
<1>4. m = OwnMsg("OBTAIN_MIN") \/ m = OwnMsg("OBTAIN_MAX")
  BY <1>2 DEF OwnMsg
<1>5. m \in Asking /\ m.cmd \in {"OBTAIN_MIN", "OBTAIN_MAX"}
  BY <1>4, OwnMsgType DEF OwnMsg
<1>6. inbox' = [s \in Servers |-> IF s = From THEN <<m>> ELSE <<>>]
  BY <1>2, <1>3, SentToEmpty DEF BeginTransfer, Send
<1>7. mgr'.wait = "obtain" /\ rd' = rd /\ answers' = <<>>
  BY <1>1 DEF BeginTransfer, Send, TypeInv, TypeOK, MgrType
<1> HIDE DEF m
<1>8. OnlyCommand'
  BY <1>5, <1>6, <1>7 DEF OnlyCommand, IsDue, Dest, From, To
<1> QED  BY <1>2, <1>7, <1>8 DEF TransferInv

(* A server serves the manager's command: what that does to the servers'   *)
(* messages, and to their keys.                                            *)
LEMMA ServedInTransfer ==
  ASSUME TypeInv, TransferInv, ~crossed, mgr.wait \in TransferWaits,
         NEW s \in Servers, Serve(s)
  PROVE  /\ OnlyCommand /\ s = Dest /\ From \in Servers /\ To \in Servers /\ From # To
         /\ UNCHANGED <<rd, mgr, crossed>>
         /\ OnlyAnswer'
         /\ Stored' = Stored
<1>1. inbox[s] # <<>> /\ UNCHANGED <<rd, mgr, crossed>>
  BY DEF Serve, ServeAdd, ServeDispose, ServeUpdateOrObtain, ServeMinOrMax, ServeNext,
         ServeCount, NoMemory, Serves, Answer, history
<1>2. OnlyCommand /\ rd.at \in {"left", "right"}
  BY <1>1 DEF TransferInv, OnlyAnswer
<1>3. From \in Servers /\ To \in Servers /\ From # To
  BY <1>2, TransferEnds DEF TypeInv
<1>4. PICK m \in Asking :
        /\ IsDue(m)
        /\ inbox = [t \in Servers |-> IF t = Dest THEN <<m>> ELSE <<>>]
        /\ answers = <<>>
        /\ mgr.wait = "add" => m.key \in store[From]
        /\ mgr.wait = "dispose" => m.key \in store[To]
  BY <1>2 DEF OnlyCommand
<1>5. s = Dest /\ Head(inbox[s]) = m /\ Tail(inbox[s]) = <<>>
  BY <1>1, <1>4, OneMessage
<1>6. ASSUME NEW status \in Statuses, NEW key \in Keys \cup {NoKey},
             status \in {"OK", "EXISTENT_KEY"} => key \in Keys,
             mgr.wait \in {"obtain", "next"} /\ status = "OK" => key \in store'[From],
             mgr.wait = "add" /\ status = "OK" => key \in store'[To],
             Answer(s, status, key)
      PROVE  OnlyAnswer'
  <2> DEFINE a == [m EXCEPT !.status = status, !.key = key]
  <2>1. a \in Answering /\ a.cmd = m.cmd /\ a.status = status /\ a.key = key
    BY <1>6 DEF Answering, Asking, Msg
  <2>2. answers' = <<a>>
    BY <1>4, <1>5, <1>6, OneMessage DEF Answer
  <2>3. inbox' = [t \in Servers |-> <<>>]
    BY <1>4, <1>5, <1>6 DEF Answer
  <2> HIDE DEF a
  <2>4. IsDue(a)'
    BY <1>1, <1>4, <2>1 DEF IsDue
  <2> QED
    BY <1>1, <1>6, <2>1, <2>2, <2>3, <2>4 DEF OnlyAnswer, From, To
<1>7. Statuses = {"CLIENT", "OK", "EXISTENT_KEY", "NONEXISTENT_KEY", "BAD_ALLOC"}
      /\ m.key \in Keys \cup {NoKey}
  BY DEF Statuses, Asking, Msg
<1>8. store[s] \in SUBSET Keys /\ Keys \subseteq Nat
      /\ store \in [Servers -> SUBSET Keys]
  BY ManagerAssumption DEF TypeInv, TypeOK, DataType, Keys
<1>9. OnlyAnswer' /\ Stored' = Stored
  <2>1. CASE mgr.wait = "obtain"
    <3>1. ServeMinOrMax(s) /\ UNCHANGED data
      BY <1>4, <1>5, <2>1 DEF Serve, ServeAdd, ServeDispose, ServeUpdateOrObtain,
           ServeMinOrMax, ServeNext, ServeCount, NoMemory, Serves, IsDue
    <3>2. store[s] # {} => Least(store[s]) \in store[s] /\ Greatest(store[s]) \in store[s]
      BY <1>8, LeastIsMember, GreatestIsMember
    <3>3. s = From
      BY <1>5, <2>1 DEF Dest
    <3> QED
      BY <1>5, <1>6, <1>7, <1>8, <2>1, <3>1, <3>2, <3>3 DEF ServeMinOrMax, Stored, data
  <2>2. CASE mgr.wait = "next"
    <3>1. ServeNext(s) /\ UNCHANGED data
      BY <1>4, <1>5, <2>2 DEF Serve, ServeAdd, ServeDispose, ServeUpdateOrObtain,
           ServeMinOrMax, ServeNext, ServeCount, NoMemory, Serves, IsDue
    <3>2. m.key \in store[s] => Following(store[s], m.key) \in store[s]
      BY <1>8, FollowingIsMember
    <3>3. s = From
      BY <1>5, <2>2 DEF Dest
    <3> QED
      BY <1>5, <1>6, <1>7, <1>8, <2>2, <3>1, <3>2, <3>3 DEF ServeNext, Stored, data
  <2>3. CASE mgr.wait = "add"
    <3>1. ServeAdd(s) \/ NoMemory(s)
      BY <1>4, <1>5, <2>3 DEF Serve, ServeAdd, ServeDispose, ServeUpdateOrObtain,
           ServeMinOrMax, ServeNext, ServeCount, NoMemory, Serves, IsDue
    <3>2. s = To /\ m.key \in store[From] /\ m.key \in Keys
      BY <1>3, <1>4, <1>5, <1>8, <2>3 DEF Dest
    <3>3. store' = store \/ store' = [store EXCEPT ![s] = @ \cup {m.key}]
      BY <1>5, <3>1 DEF ServeAdd, NoMemory, data
    <3>4. Stored' = Stored
      BY <1>3, <1>8, <3>2, <3>3 DEF Stored
    <3>5. CASE NoMemory(s)
      <4>1. Answer(s, "BAD_ALLOC", m.key)
        BY <1>5, <3>5 DEF NoMemory
      <4> QED  BY <1>6, <1>7, <2>3, <3>2, <3>4, <4>1
    <3>6. CASE ServeAdd(s) /\ m.key \in store[s]
      <4>1. Answer(s, "EXISTENT_KEY", m.key)
        BY <1>5, <3>6 DEF ServeAdd
      <4> QED  BY <1>6, <1>7, <2>3, <3>2, <3>4, <4>1
    <3>7. CASE ServeAdd(s) /\ m.key \notin store[s]
      <4>1. Answer(s, "OK", m.key) /\ store' = [store EXCEPT ![s] = @ \cup {m.key}]
        BY <1>5, <3>7 DEF ServeAdd
      <4>2. m.key \in store'[To]
        BY <1>8, <3>2, <4>1
      <4> QED  BY <1>6, <1>7, <2>3, <3>2, <3>4, <4>1, <4>2
    <3> QED  BY <3>1, <3>5, <3>6, <3>7
  <2>4. CASE mgr.wait = "dispose"
    <3>1. ServeDispose(s)
      BY <1>4, <1>5, <2>4 DEF Serve, ServeAdd, ServeDispose, ServeUpdateOrObtain,
           ServeMinOrMax, ServeNext, ServeCount, NoMemory, Serves, IsDue
    <3>2. s = From /\ m.key \in store[To] /\ m.key \in Keys
      BY <1>3, <1>4, <1>5, <1>8, <2>4 DEF Dest
    <3>3. store' = store \/ store' = [store EXCEPT ![s] = @ \ {m.key}]
      BY <1>5, <3>1 DEF ServeDispose, data
    <3>4. Stored' = Stored
      BY <1>3, <1>8, <3>2, <3>3 DEF Stored
    <3>5. Answer(s, "NONEXISTENT_KEY", m.key) \/ Answer(s, "OK", m.key)
      BY <1>5, <3>1 DEF ServeDispose
    <3> QED  BY <1>6, <1>7, <2>4, <3>2, <3>4, <3>5
  <2> QED  BY <2>1, <2>2, <2>3, <2>4 DEF TransferWaits
<1> QED  BY <1>1, <1>2, <1>3, <1>5, <1>9

(* A server answers a transfer's command, so its answer is then on its     *)
(* way.                                                                    *)
LEMMA TransferInvServe ==
  ASSUME TypeInv, TransferInv, NEW s \in Servers, Serve(s)
  PROVE  TransferInv'
<1>1. UNCHANGED <<rd, mgr, crossed>>
  BY DEF Serve, ServeAdd, ServeDispose, ServeUpdateOrObtain, ServeMinOrMax, ServeNext,
         ServeCount, NoMemory, Serves, Answer, history
<1>2. CASE ~crossed /\ mgr.wait \in TransferWaits
  BY <1>1, <1>2, ServedInTransfer DEF TransferInv
<1>3. CASE ~(~crossed /\ mgr.wait \in TransferWaits)
  BY <1>1, <1>3 DEF TransferInv
<1> QED  BY <1>2, <1>3

(* The manager follows a transfer's answer with the next command, or ends  *)
(* it.                                                                     *)
LEMMA TransferInvAnswer ==
  ASSUME TypeInv, TransferInv, TransferAnswer
  PROVE  TransferInv'
<1> SUFFICES ASSUME ~crossed', mgr'.wait \in TransferWaits  PROVE TransferInv'
  BY DEF TransferInv
<1>1. ~crossed /\ UNCHANGED <<crossed, store>>
  BY DEF TransferAnswer, data, history
<1>2. mgr.wait \in TransferWaits /\ answers # <<>>
  BY DEF TransferAnswer, ObtainAnswer, NextAnswer, AddAnswer, DisposeAnswer, TransferWaits
<1>3. OnlyAnswer /\ rd.at \in {"left", "right"}
  BY <1>1, <1>2 DEF TransferInv, OnlyCommand
<1>4. PICK m \in Answering :
        /\ IsDue(m)
        /\ inbox = [s \in Servers |-> <<>>]
        /\ answers = <<m>>
        /\ mgr.wait \in {"obtain", "next"} /\ m.status = "OK" => m.key \in store[From]
        /\ mgr.wait = "add" /\ m.status = "OK" => m.key \in store[To]
  BY <1>3 DEF OnlyAnswer
<1>5. Head(answers) = m /\ answers' = <<>>
  BY <1>4, OneMessage DEF TransferAnswer
<1>6. From \in Servers /\ To \in Servers
  BY <1>3, TransferEnds DEF TypeInv
<1>7. \A w \in Waits : [mgr EXCEPT !.wait = w].wait = w
                     /\ [mgr EXCEPT !.wait = w, !.newsep = m.key].wait = w
  BY DEF TypeInv, TypeOK, MgrType
<1>8. ~GiveUp /\ ~SetSeparator
  BY DEF GiveUp, SetSeparator, TransferWaits, TypeInv, TypeOK, MgrType
<1>9. ASSUME NEW dest \in Servers, NEW cmd \in {"OBTAIN_NEXT", "ADD", "DISPOSE"},
             m.status = "OK", rd' = rd,
             inbox' = [inbox EXCEPT ![dest] = Append(@, [m EXCEPT !.cmd = cmd])],
             dest = Dest', IsDue([cmd |-> cmd])',
             mgr'.wait = "add" => m.key \in store[From],
             mgr'.wait = "dispose" => m.key \in store[To]
      PROVE  TransferInv'
  <2> DEFINE n == [m EXCEPT !.cmd = cmd]
  <2>1. n \in Asking
    BY <1>9, SentOnType DEF Cmds, DataChanges
  <2>2. n.cmd = cmd /\ n.key = m.key
    BY DEF Answering, Msg
  <2>3. inbox' = [s \in Servers |-> IF s = dest THEN <<n>> ELSE <<>>]
    BY <1>4, <1>9, SentToEmpty
  <2> HIDE DEF n
  <2>4. IsDue(n)'
    BY <1>9, <2>2 DEF IsDue
  <2>5. From' = From /\ To' = To
    BY <1>9 DEF From, To
  <2>6. OnlyCommand'
    BY <1>1, <1>5, <1>9, <2>1, <2>2, <2>3, <2>4, <2>5 DEF OnlyCommand
  <2> QED  BY <1>3, <1>9, <2>6 DEF TransferInv
<1>10. {"next", "add", "dispose"} \subseteq Waits
  BY DEF Waits, TransferWaits
<1>11. CASE ObtainAnswer(m)
  <2>1. m.status = "OK" /\ mgr.wait = "obtain" /\ m.key \in store[From] /\ rd' = rd
    BY <1>4, <1>8, <1>11 DEF ObtainAnswer
  <2>2. CASE rd.at = "left"
    <3>1. mgr'.wait = "next"
          /\ inbox' = [inbox EXCEPT ![From] = Append(@, [m EXCEPT !.cmd = "OBTAIN_NEXT"])]
      BY <1>7, <1>8, <1>10, <1>11, <2>2 DEF ObtainAnswer, Send
    <3>2. Dest' = From /\ IsDue([cmd |-> "OBTAIN_NEXT"])'
      BY <2>1, <3>1 DEF Dest, From, IsDue
    <3> QED  BY <1>6, <1>9, <2>1, <3>1, <3>2
  <2>3. CASE rd.at = "right"
    <3>1. mgr'.wait = "add"
          /\ inbox' = [inbox EXCEPT ![To] = Append(@, [m EXCEPT !.cmd = "ADD"])]
      BY <1>7, <1>8, <1>10, <1>11, <2>3 DEF ObtainAnswer
    <3>2. Dest' = To /\ IsDue([cmd |-> "ADD"])'
      BY <2>1, <3>1 DEF Dest, To, IsDue
    <3> QED  BY <1>6, <1>9, <2>1, <3>1, <3>2
  <2> QED  BY <1>3, <2>2, <2>3
<1>12. CASE NextAnswer(m)
  <2>1. m.status = "OK" /\ mgr.wait = "next" /\ m.key \in store[From] /\ rd' = rd
    BY <1>4, <1>8, <1>12 DEF NextAnswer
  <2>2. mgr'.wait = "add"
        /\ inbox' = [inbox EXCEPT ![To] = Append(@, [m EXCEPT !.cmd = "ADD"])]
    BY <1>7, <1>8, <1>10, <1>12 DEF NextAnswer
  <2>3. Dest' = To /\ IsDue([cmd |-> "ADD"])'
    BY <2>1, <2>2 DEF Dest, To, IsDue
  <2> QED  BY <1>6, <1>9, <2>1, <2>2, <2>3
<1>13. CASE AddAnswer(m)
  <2>1. m.status = "OK" /\ mgr.wait = "add" /\ m.key \in store[To] /\ rd' = rd
    BY <1>4, <1>8, <1>13 DEF AddAnswer
  <2>2. mgr'.wait = "dispose"
        /\ inbox' = [inbox EXCEPT ![From] = Append(@, [m EXCEPT !.cmd = "DISPOSE"])]
    BY <1>7, <1>8, <1>10, <1>13 DEF AddAnswer, Send
  <2>3. Dest' = From /\ IsDue([cmd |-> "DISPOSE"])'
    BY <2>1, <2>2 DEF Dest, From, IsDue
  <2> QED  BY <1>6, <1>9, <2>1, <2>2, <2>3
<1> QED
  BY <1>5, <1>8, <1>11, <1>12, <1>13 DEF TransferAnswer, DisposeAnswer

(* Every step keeps the invariant of a transfer.                           *)
LEMMA TransferInvStep ==
  ASSUME TypeInv, TransferInv, [Next]_vars
  PROVE  TransferInv'
<1>1. CASE Manager
  BY <1>1, TransferInvElsewhere, TransferInvBegin, TransferInvAnswer DEF Manager
<1>2. CASE \E s \in Servers : Serve(s)
  BY <1>2, TransferInvServe
<1>3. CASE \E c \in Clients : Client(c)
  BY <1>3, TransferInvClient
<1>4. CASE UNCHANGED vars
  BY <1>4 DEF vars, mail, data, history, TransferInv, OnlyCommand, OnlyAnswer, IsDue,
              Dest, From, To
<1> QED  BY <1>1, <1>2, <1>3, <1>4 DEF Next

(* A transfer that begins while nothing else is on its way neither makes   *)
(* nor loses a key of the collection, for any number of servers, clients   *)
(* and keys, whichever of its commands fails and whichever wait runs out:  *)
(* it adds to the neighbour the key it read, and disposes what it added.   *)
THEOREM TransferKeepsKeys == Spec => TransfersKeepKeys
<1> DEFINE Inv == TypeInv /\ TransferInv
<1>1. Init => Inv
  <2>1. Init => mgr.wait = "main"
    BY DEF Init
  <2>2. Init => TransferInv
    BY <2>1 DEF TransferInv, TransferWaits
  <2> QED  BY <2>2, TypeInvInit
<1>2. Inv /\ [Next]_vars => Inv'
  BY TypeInvStep, TransferInvStep
<1>3. ASSUME Inv, [Next]_vars, mgr.wait \in TransferWaits, ~crossed
      PROVE  Stored' = Stored
  <2>1. CASE \E s \in Servers : Serve(s)
    BY <1>3, <2>1, ServedInTransfer
  <2>2. CASE ~\E s \in Servers : Serve(s)
    <3>1. store' = store
      BY <1>3, <2>2 DEF Next, vars, Manager, ForwardRequest, ForwardAnswer,
        CountAnswer, CountTimeout, RedistributionLoop, RedistributionReturns, Local,
        BeginTransfer, TransferAnswer, TransferTimeout, Client, Request, SkipReply,
        AcceptReply, ClientTimeout, data
    <3> QED  BY <3>1 DEF Stored
  <2> QED  BY <2>1, <2>2
<1>4. Inv /\ [Next]_vars => [mgr.wait \in TransferWaits /\ ~crossed => Stored' = Stored]_vars
  BY <1>3
<1> QED  BY <1>1, <1>2, <1>4, PTL DEF Spec, TransfersKeepKeys

-----------------------------------------------------------------------------
(* The separators.  One changes at the end of a transfer, when the servers *)
(* are silent; until then the key that moves is the greatest of its        *)
(* server, so that it can become the bound between its server and the      *)
(* next.                                                                   *)

(* Server s is where the scan of get_id_for_key ends for key.              *)
Within(s, key) ==
  /\ s < NServers - 1 => key < seps[s]
  /\ \A i \in 0 .. s - 1 : key >= seps[i]

Sorted == \A i, j \in 0 .. NServers - 2 : i < j => seps[i] <= seps[j]

AllPlaced == \A s \in Servers : \A k \in store[s] : Within(s, k)

(* The commands about a key, all of a client's among them, are on their    *)
(* way to where the key belongs.                                           *)
KeyCmds == DataChanges \cup {"OBTAIN"}

Placed(box) ==
  \A s \in Servers : \A i \in DOMAIN box[s] :
    box[s][i].cmd \in KeyCmds => Within(s, box[s][i].key)

IsGreatest(key) == key \in store[From] /\ \A k \in store[From] : k <= key

(* The key that moves is on the server it moves to, too.                   *)
PlacedButMoving ==
  \A s \in Servers : \A k \in store[s] :
    Within(s, k) \/ (s = To /\ k = mgr.newsep)

RightCommand ==
  LET m == Head(inbox[Dest])
  IN  /\ inbox[Dest] # <<>>
      /\ inbox = [s \in Servers |-> IF s = Dest THEN <<m>> ELSE <<>>]
      /\ answers = <<>>
      /\ \/ mgr.wait = "obtain" /\ m.cmd = "OBTAIN_MAX" /\ AllPlaced
         \/ /\ mgr.wait = "add" /\ m.cmd = "ADD" /\ m.key = mgr.newsep
            /\ IsGreatest(mgr.newsep) /\ AllPlaced
         \/ /\ mgr.wait = "dispose" /\ m.cmd = "DISPOSE" /\ m.key = mgr.newsep
            /\ IsGreatest(mgr.newsep) /\ Within(From, mgr.newsep) /\ PlacedButMoving

RightAnswer ==
  LET m == Head(answers)
  IN  /\ inbox = [s \in Servers |-> <<>>]
      /\ answers # <<>> /\ answers = <<m>>
      /\ \/ mgr.wait = "obtain" /\ AllPlaced /\ (m.status = "OK" => IsGreatest(m.key))
         \/ /\ mgr.wait = "add" /\ m.key = mgr.newsep
            /\ IsGreatest(mgr.newsep) /\ Within(From, mgr.newsep)
            /\ IF m.status = "OK" THEN PlacedButMoving ELSE AllPlaced
         \/ /\ mgr.wait = "dispose" /\ Within(From, mgr.newsep) /\ PlacedButMoving
            /\ \A k \in store[From] : k < mgr.newsep

RoutingInv ==
  Undisturbed =>
    /\ Sorted
    /\ \/ mgr.wait \notin TransferWaits /\ AllPlaced /\ Placed(inbox)
       \/ mgr.wait \in TransferWaits /\ rd.at = "right" /\ (RightCommand \/ RightAnswer)

-----------------------------------------------------------------------------
(* Separators and keys are numbers.                                        *)
LEMMA Numbers ==
  ASSUME MgrType
  PROVE  /\ NServers \in Nat \ {0} /\ Servers = 0 .. NServers - 1
         /\ \A i \in 0 .. NServers - 2 : seps[i] \in Int
         /\ \A k \in Keys : k \in Int
BY NServersAssumption, ManagerAssumption DEF MgrType, Servers, Keys, Top

(* The scan of get_id_for_key finds a server for every key.                *)
LEMMA RouteExists ==
  ASSUME MgrType, NEW key \in Keys
  PROVE  Route(key) \in Servers /\ Within(Route(key), key)
<1> DEFINE S == {s \in Servers : s < NServers - 1 => key < seps[s]}
<1>1. S \in SUBSET Nat /\ NServers - 1 \in S
  BY Numbers
<1>2. PICK s \in S : \A t \in S : s <= t
  BY <1>1, LeastExists
<1>3. ASSUME NEW i \in 0 .. s - 1  PROVE key >= seps[i]
  <2>1. s \in 0 .. NServers - 1 /\ NServers \in Int
    BY <1>2, Numbers
  <2>2. i \in Servers /\ i < NServers - 1 /\ i \in 0 .. NServers - 2 /\ ~(s <= i)
    BY <1>3, <2>1, Numbers
  <2>3. ~(key < seps[i])
    BY <1>2, <2>2
  <2> QED  BY <2>2, <2>3, Numbers
<1>4. s \in Servers /\ Within(s, key)
  BY <1>2, <1>3 DEF Within
<1> QED  BY <1>4 DEF Route, Within

(* It finds one server only.                                               *)
LEMMA RouteUnique ==
  ASSUME MgrType, NEW key \in Keys, NEW s \in Servers, NEW t \in Servers,
         Within(s, key), Within(t, key)
  PROVE  s = t
<1>1. ASSUME NEW a \in Servers, NEW b \in Servers, a < b, Within(a, key), Within(b, key)
      PROVE  FALSE
  <2>1. a \in 0 .. b - 1 /\ a < NServers - 1 /\ a \in 0 .. NServers - 2
    BY <1>1, Numbers
  <2> QED  BY <1>1, <2>1, Numbers DEF Within
<1> QED  BY <1>1, Numbers

(* A message sent to where it belongs leaves the mailboxes in order.       *)
LEMMA SentPlaced ==
  ASSUME NEW box \in [Servers -> Seq(Asking)], Placed(box), NEW dest \in Servers,
         NEW m \in Asking, m.cmd \in KeyCmds => Within(dest, m.key)
  PROVE  Placed([box EXCEPT ![dest] = Append(@, m)])
<1> SUFFICES ASSUME NEW s \in Servers, NEW i \in DOMAIN [box EXCEPT ![dest] = Append(@, m)][s],
                    [box EXCEPT ![dest] = Append(@, m)][s][i].cmd \in KeyCmds
             PROVE  Within(s, [box EXCEPT ![dest] = Append(@, m)][s][i].key)
  BY DEF Placed
<1>1. CASE s # dest
  BY <1>1 DEF Placed
<1>2. CASE s = dest /\ i = Len(box[s]) + 1
  <2>1. [box EXCEPT ![dest] = Append(@, m)][s][i] = m
    BY <1>2
  <2> QED  BY <1>2, <2>1
<1>3. CASE s = dest /\ i # Len(box[s]) + 1
  <2>1. i \in DOMAIN box[s] /\ [box EXCEPT ![dest] = Append(@, m)][s][i] = box[s][i]
    BY <1>3
  <2> QED  BY <2>1 DEF Placed
<1> QED  BY <1>1, <1>2, <1>3

(* So does taking the first message.                                       *)
LEMMA TakenPlaced ==
  ASSUME NEW box \in [Servers -> Seq(Asking)], Placed(box), NEW s \in Servers,
         box[s] # <<>>
  PROVE  Placed([box EXCEPT ![s] = Tail(@)])
<1> SUFFICES ASSUME NEW t \in Servers, NEW i \in DOMAIN [box EXCEPT ![s] = Tail(@)][t],
                    [box EXCEPT ![s] = Tail(@)][t][i].cmd \in KeyCmds
             PROVE  Within(t, [box EXCEPT ![s] = Tail(@)][t][i].key)
  BY DEF Placed
<1>1. CASE t # s
  BY <1>1 DEF Placed
<1>2. CASE t = s
  <2>1. i + 1 \in DOMAIN box[s] /\ [box EXCEPT ![s] = Tail(@)][t][i] = box[s][i + 1]
    BY <1>2
  <2> QED  BY <1>2, <2>1 DEF Placed
<1> QED  BY <1>1, <1>2

-----------------------------------------------------------------------------
(* The counts, the loop and the forwarding of commands move no key and no  *)
(* separator; what is forwarded goes where it belongs.                     *)
LEMMA RoutingElsewhere ==
  ASSUME TypeInv, RoutingInv, Undisturbed,
         \/ ForwardRequest \/ ForwardAnswer \/ CountAnswer \/ CountTimeout
         \/ RedistributionLoop \/ RedistributionReturns
  PROVE  RoutingInv'
<1> USE DEF TypeInv, TypeOK
<1>1. mgr.wait \notin TransferWaits
  BY DEF ForwardRequest, ForwardAnswer, CountAnswer, CountTimeout, RedistributionLoop,
         RedistributionReturns, AtMain, TransferWaits
<1>2. Sorted /\ AllPlaced /\ Placed(inbox)
  BY <1>1 DEF RoutingInv
<1>3. mgr'.wait \notin TransferWaits
  BY <1>1 DEF ForwardRequest, ForwardAnswer, CountAnswer, CountTimeout,
     RedistributionLoop, RedistributionReturns, CountChange, Local, TransferWaits, MgrType
<1>4. UNCHANGED <<store, seps>>
  BY DEF ForwardRequest, ForwardAnswer, CountAnswer, CountTimeout, RedistributionLoop,
         RedistributionReturns, Local, data
<1>5. OwnMsg("GET_RECORDS_CNT") \in Asking /\ OwnMsg("GET_RECORDS_CNT").cmd \notin KeyCmds
  BY OwnMsgType DEF OwnMsg, KeyCmds, DataChanges
<1>6. inbox \in [Servers -> Seq(Asking)] /\ 0 \in Servers
  BY NServersAssumption DEF MailType, Servers
<1>7. ASSUME NEW box \in [Servers -> Seq(Asking)], Placed(box), NEW dest \in Servers
      PROVE  Placed([box EXCEPT ![dest] = Append(@, OwnMsg("GET_RECORDS_CNT"))])
  BY <1>5, <1>7, SentPlaced
<1>8. Placed(inbox')
  <2>1. CASE ForwardRequest
    <3> DEFINE m == Head(requests)
               box == [inbox EXCEPT ![Route(m.key)] = Append(@, m)]
    <3>1. m \in Asking /\ CountChange(m.cmd, box)
      BY <2>1, Received DEF ForwardRequest, MailType
    <3>2. m.cmd \in KeyCmds => m.key \in Keys
      BY <3>1 DEF Asking, KeyCmds, DataChanges
    <3>3. CASE m.cmd \in KeyCmds
      <4>1. Route(m.key) \in Servers /\ Within(Route(m.key), m.key)
        BY <3>2, <3>3, RouteExists
      <4>2. Placed(box)
        BY <1>2, <1>6, <3>1, <4>1, SentPlaced
      <4>3. box \in [Servers -> Seq(Asking)]
        BY <1>6, <3>1, SentTo
      <4> QED  BY <1>6, <1>7, <3>1, <4>2, <4>3 DEF CountChange
    <3>4. CASE m.cmd \notin KeyCmds
      <4>1. Placed(box)
        <5>1. CASE Route(m.key) \in Servers
          BY <1>2, <1>6, <3>1, <3>4, <5>1, SentPlaced
        <5>2. CASE Route(m.key) \notin Servers
          <6>1. box = inbox
            BY <1>6, <5>2
          <6> QED  BY <1>2, <6>1
        <5> QED  BY <5>1, <5>2
      <4>2. box \in [Servers -> Seq(Asking)]
        BY <1>6, <3>1, SentTo
      <4> QED  BY <1>6, <1>7, <3>1, <4>1, <4>2 DEF CountChange
    <3> QED  BY <3>3, <3>4
  <2>2. CASE ForwardAnswer
    BY <1>2, <1>6, <1>7, <2>2 DEF ForwardAnswer, CountChange
  <2>3. CASE CountAnswer
    <3>1. mgr.asked + 1 < NServers => mgr.asked + 1 \in Servers
      BY NServersAssumption DEF MgrType, Servers
    <3> QED  BY <1>2, <1>6, <1>7, <2>3, <3>1 DEF CountAnswer
  <2>4. CASE CountTimeout \/ RedistributionLoop \/ RedistributionReturns
    BY <1>2, <2>4 DEF CountTimeout, RedistributionLoop, RedistributionReturns, Local, mail
  <2> QED  BY <2>1, <2>2, <2>3, <2>4
<1>9. Sorted' /\ AllPlaced' /\ Placed(inbox)'
  BY <1>2, <1>4, <1>8 DEF Sorted, AllPlaced, Placed, Within
<1> QED  BY <1>3, <1>9 DEF RoutingInv

(* Clients touch neither servers nor separators.                           *)
LEMMA RoutingClient ==
  ASSUME TypeInv, RoutingInv, Undisturbed, NEW c \in Clients, Client(c)
  PROVE  RoutingInv'
<1>1. UNCHANGED <<rd, inbox, answers, store, seps, mgr>>
  BY DEF Client, Request, SkipReply, AcceptReply, ClientTimeout, mail, data
<1>2. UNCHANGED <<Sorted, AllPlaced, Placed(inbox), PlacedButMoving, Dest, From>>
  BY <1>1 DEF Sorted, AllPlaced, Placed, Within, PlacedButMoving, Dest, From, To
<1>3. /\ \A k : Within(From, k)' = Within(From, k)
      /\ \A k : IsGreatest(k)' = IsGreatest(k)
  BY <1>1 DEF Within, IsGreatest, From
<1>4. RightCommand' = RightCommand
  BY <1>1, <1>2, <1>3 DEF RightCommand
<1>5. RightAnswer' = RightAnswer
  BY <1>1, <1>2, <1>3 DEF RightAnswer
<1> QED  BY <1>1, <1>2, <1>4, <1>5 DEF RoutingInv

(* A transfer that leaves the properties in force goes to the right, and   *)
(* begins with the servers silent.                                         *)
LEMMA RoutingBegin ==
  ASSUME TypeInv, RoutingInv, Undisturbed, BeginTransfer, Undisturbed'
  PROVE  RoutingInv'
<1> USE DEF TypeInv, TypeOK
<1> DEFINE m == [OwnMsg("OBTAIN_MIN") EXCEPT !.cmd = "OBTAIN_MAX"]
<1>1. rd.at = "right" /\ From \in Servers
  BY TransferEnds DEF BeginTransfer, WantsTransfer, Undisturbed
<1>2. inbox = [s \in Servers |-> <<>>] /\ answers = <<>>
  BY DEF BeginTransfer, ServersSilent, Undisturbed, MailType
<1>3. Sorted /\ AllPlaced
  BY DEF BeginTransfer, RoutingInv, TransferWaits
<1>4. inbox' = [s \in Servers |-> IF s = From THEN <<m>> ELSE <<>>]
  BY <1>1, <1>2, SentToEmpty DEF BeginTransfer, Send
<1>5. mgr'.wait = "obtain" /\ UNCHANGED <<rd, answers, store, seps>>
  BY DEF BeginTransfer, Send, MgrType, data
<1>6. m.cmd = "OBTAIN_MAX"
  BY DEF OwnMsg
<1> HIDE DEF m
<1>7. Dest' = From /\ inbox'[From] = <<m>> /\ Head(inbox'[From]) = m
  BY <1>1, <1>4, <1>5 DEF Dest, From
<1>8. Sorted' /\ AllPlaced'
  BY <1>3, <1>5 DEF Sorted, AllPlaced, Within
<1>9. RightCommand'
  BY <1>2, <1>4, <1>5, <1>6, <1>7, <1>8 DEF RightCommand
<1> QED  BY <1>1, <1>5, <1>8, <1>9 DEF RoutingInv, TransferWaits

(* A server's step, outside of transfers: what is added was routed here.   *)
LEMMA RoutingServeCommand ==
  ASSUME TypeInv, RoutingInv, Undisturbed, mgr.wait \notin TransferWaits,
         NEW s \in Servers, Serve(s)
  PROVE  RoutingInv'
<1> USE DEF TypeInv, TypeOK
<1> DEFINE m == Head(inbox[s])
<1>1. /\ UNCHANGED <<mgr, seps>> /\ inbox[s] # <<>>
      /\ inbox' = [inbox EXCEPT ![s] = Tail(@)]
  BY DEF Serve, ServeAdd, ServeDispose, ServeUpdateOrObtain, ServeMinOrMax, ServeNext,
         ServeCount, NoMemory, Serves, Answer
<1>2. Sorted /\ AllPlaced /\ Placed(inbox)
  BY DEF RoutingInv
<1>3. Placed(inbox')
  BY <1>1, <1>2, TakenPlaced DEF MailType
<1>4. m.cmd = "ADD" => Within(s, m.key)
  <2>1. inbox[s] \in Seq(Asking)
    BY DEF MailType
  <2>2. 1 \in DOMAIN inbox[s] /\ m = inbox[s][1]
    BY <1>1, <2>1
  <2> QED  BY <1>2, <2>2 DEF Placed, KeyCmds, DataChanges
<1>5. ASSUME NEW t \in Servers, NEW k \in store'[t]  PROVE Within(t, k)
  <2>1. CASE ServeAdd(s)
    <3>1. k \in store[t] \/ (t = s /\ k = m.key /\ m.cmd = "ADD")
      BY <1>5, <2>1 DEF ServeAdd, Serves, DataType, data
    <3> QED  BY <1>2, <1>4, <3>1 DEF AllPlaced
  <2>2. CASE ServeDispose(s)
    <3>1. k \in store[t]
      BY <1>5, <2>2 DEF ServeDispose, DataType, data
    <3> QED  BY <1>2, <3>1 DEF AllPlaced
  <2>3. CASE \/ ServeUpdateOrObtain(s) \/ ServeMinOrMax(s) \/ ServeNext(s)
             \/ ServeCount(s) \/ NoMemory(s)
    <3>1. store' = store
      BY <2>3 DEF ServeUpdateOrObtain, ServeMinOrMax, ServeNext, ServeCount, NoMemory, data
    <3> QED  BY <1>2, <1>5, <3>1 DEF AllPlaced
  <2> QED  BY <2>1, <2>2, <2>3 DEF Serve
<1>6. Sorted' /\ AllPlaced' /\ Placed(inbox)'
  BY <1>1, <1>2, <1>3, <1>5 DEF Sorted, AllPlaced, Placed, Within
<1> QED  BY <1>1, <1>6 DEF RoutingInv

(* A server's step in a transfer: it answers the manager's command, and    *)
(* the key it reads is its greatest, the key it adds is beyond its own.    *)
LEMMA RoutingServeTransfer ==
  ASSUME TypeInv, RoutingInv, Undisturbed, mgr.wait \in TransferWaits,
         NEW s \in Servers, Serve(s)
  PROVE  RoutingInv'
<1> USE DEF TypeInv, TypeOK
<1> DEFINE m == Head(inbox[Dest])
<1>1. UNCHANGED <<mgr, rd, seps>> /\ inbox[s] # <<>>
  BY DEF Serve, ServeAdd, ServeDispose, ServeUpdateOrObtain, ServeMinOrMax, ServeNext,
         ServeCount, NoMemory, Serves, Answer
<1>2. Sorted /\ rd.at = "right" /\ RightCommand
  BY <1>1 DEF RoutingInv, RightAnswer
<1>3. From \in Servers /\ To \in Servers /\ From # To
  BY <1>2, TransferEnds
<1>4. inbox = [t \in Servers |-> IF t = Dest THEN <<m>> ELSE <<>>] /\ answers = <<>>
  BY <1>2 DEF RightCommand
<1>5. s = Dest /\ Head(inbox[s]) = m /\ Tail(inbox[s]) = <<>> /\ m \in Asking
  <2>1. s = Dest
    BY <1>1, <1>4
  <2>2. inbox[s] = <<m>> /\ inbox[s] \in Seq(Asking)
    BY <1>4, <2>1 DEF MailType
  <2> QED  BY <2>1, <2>2, OneMessage, Received
<1>6. UNCHANGED <<Dest, From, To>> /\ Sorted' /\ \A t, k : Within(t, k)' = Within(t, k)
  BY <1>1, <1>2 DEF Dest, From, To, Sorted, Within
<1>7. ASSUME NEW status, NEW key, Answer(s, status, key)
      PROVE  /\ inbox' = [t \in Servers |-> <<>>]
             /\ answers' = <<[m EXCEPT !.status = status, !.key = key]>>
             /\ Head(answers') = [m EXCEPT !.status = status, !.key = key]
             /\ Head(answers').status = status /\ Head(answers').key = key
             /\ answers' # <<>> /\ answers' = <<Head(answers')>>
  <2>1. inbox' = [t \in Servers |-> <<>>]
    BY <1>4, <1>5, <1>7 DEF Answer
  <2>2. answers' = <<[m EXCEPT !.status = status, !.key = key]>>
    BY <1>4, <1>5, <1>7, OneMessage DEF Answer
  <2>3. Head(answers') = [m EXCEPT !.status = status, !.key = key]
    BY <2>2, OneMessage
  <2>4. Head(answers').status = status /\ Head(answers').key = key
    BY <1>5, <2>3 DEF Asking, Msg
  <2> QED  BY <2>1, <2>2, <2>3, <2>4, OneMessage
<1>8. store \in [Servers -> SUBSET Keys] /\ \A k \in Keys : k \in Int
  BY Numbers DEF DataType
<1> HIDE DEF m
<1>9. CASE mgr.wait = "obtain"
  <2>1. m.cmd = "OBTAIN_MAX" /\ AllPlaced /\ s = From
    BY <1>2, <1>5, <1>9 DEF RightCommand, Dest, m
  <2>2. ServeMinOrMax(s) /\ ~Serves(s, "OBTAIN_MIN")
    BY <1>5, <2>1 DEF Serve, ServeAdd, ServeDispose, ServeUpdateOrObtain,
       ServeMinOrMax, ServeNext, ServeCount, NoMemory, Serves
  <2>3. PICK status, key : Answer(s, status, key)
                           /\ (status = "OK" => store[s] # {} /\ key = Greatest(store[s]))
    BY <2>2 DEF ServeMinOrMax
  <2>4. store' = store
    BY <2>2 DEF ServeMinOrMax, data
  <2>5. Head(answers').status = "OK" => IsGreatest(Head(answers').key)
    <3> SUFFICES ASSUME Head(answers').status = "OK"
                 PROVE  IsGreatest(Head(answers').key)
      OBVIOUS
    <3>1. status = "OK" /\ Head(answers').key = key
      BY <1>7, <2>3
    <3>2. store[s] \in SUBSET Keys /\ store[s] # {} /\ key = Greatest(store[s])
      BY <1>8, <2>3, <3>1
    <3> QED  BY <2>1, <3>1, <3>2, GreatestIsMember DEF IsGreatest
  <2>6. AllPlaced' /\ \A k : IsGreatest(k)' = IsGreatest(k)
    BY <1>6, <2>1, <2>4 DEF AllPlaced, IsGreatest
  <2>7. RightAnswer'
    BY <1>1, <1>7, <1>9, <2>3, <2>5, <2>6 DEF RightAnswer
  <2> QED  BY <1>1, <1>2, <1>6, <1>9, <2>7 DEF RoutingInv
<1>10. CASE mgr.wait = "add"
  <2>1. /\ m.cmd = "ADD" /\ m.key = mgr.newsep /\ IsGreatest(mgr.newsep) /\ AllPlaced
        /\ s = To
    BY <1>2, <1>5, <1>10 DEF RightCommand, Dest, m
  <2>2. ServeAdd(s) \/ NoMemory(s)
    BY <1>5, <2>1 DEF Serve, ServeAdd, ServeDispose, ServeUpdateOrObtain,
       ServeMinOrMax, ServeNext, ServeCount, NoMemory, Serves
  <2>3. Within(From, mgr.newsep)
    BY <1>3, <2>1 DEF AllPlaced, IsGreatest
  <2>4. PICK status :
          /\ Answer(s, status, mgr.newsep)
          /\ \/ status = "OK" /\ store' = [store EXCEPT ![s] = @ \cup {mgr.newsep}]
             \/ status # "OK" /\ store' = store
    BY <1>5, <2>1, <2>2 DEF ServeAdd, NoMemory, data
  <2>5. store'[From] = store[From]
    BY <1>3, <1>8, <2>1, <2>4
  <2>6. IsGreatest(mgr.newsep)'
    BY <1>1, <1>6, <2>1, <2>5 DEF IsGreatest
  <2>7. IF status = "OK" THEN PlacedButMoving' ELSE AllPlaced'
    BY <1>1, <1>3, <1>6, <1>8, <2>1, <2>4 DEF AllPlaced, PlacedButMoving
  <2>8. RightAnswer'
    BY <1>1, <1>6, <1>7, <1>10, <2>3, <2>4, <2>6, <2>7 DEF RightAnswer
  <2> QED  BY <1>1, <1>2, <1>6, <1>10, <2>8 DEF RoutingInv, TransferWaits
<1>11. CASE mgr.wait = "dispose"
  <2>1. /\ m.cmd = "DISPOSE" /\ m.key = mgr.newsep /\ IsGreatest(mgr.newsep)
        /\ Within(From, mgr.newsep) /\ PlacedButMoving /\ s = From
    BY <1>2, <1>5, <1>11 DEF RightCommand, Dest, m
  <2>2. ServeDispose(s)
    BY <1>5, <2>1 DEF Serve, ServeAdd, ServeDispose, ServeUpdateOrObtain,
       ServeMinOrMax, ServeNext, ServeCount, NoMemory, Serves
  <2>3. mgr.newsep \in store[s]
    BY <2>1 DEF IsGreatest
  <2>4. Answer(s, "OK", mgr.newsep) /\ store' = [store EXCEPT ![s] = @ \ {mgr.newsep}]
    BY <1>5, <2>1, <2>2, <2>3 DEF ServeDispose
  <2>5. \A k \in store'[From] : k < mgr.newsep
    BY <1>8, <2>1, <2>3, <2>4 DEF IsGreatest
  <2>6. PlacedButMoving'
    BY <1>1, <1>6, <1>8, <2>1, <2>4 DEF PlacedButMoving
  <2>7. RightAnswer'
    BY <1>1, <1>6, <1>7, <1>11, <2>1, <2>4, <2>5, <2>6 DEF RightAnswer
  <2> QED  BY <1>1, <1>2, <1>6, <1>11, <2>7 DEF RoutingInv, TransferWaits
<1> QED  BY <1>2, <1>9, <1>10, <1>11 DEF RightCommand

(* The end of a transfer: its key, gone from the server it left, becomes   *)
(* the bound between that server and the next.                             *)
LEMMA RoutingSeparator ==
  ASSUME TypeInv, Sorted, rd.at = "right", SetSeparator, UNCHANGED store,
         Within(From, mgr.newsep), PlacedButMoving, mgr.newsep \in Keys,
         \A k \in store[From] : k < mgr.newsep
  PROVE  Sorted' /\ AllPlaced'
<1> USE DEF TypeInv, TypeOK
<1> DEFINE sep == mgr.newsep
<1>1. /\ From \in Servers /\ From + 1 < NServers /\ To = From + 1
      /\ From \in 0 .. NServers - 2 /\ NServers \in Int
  BY TransferEnds, Numbers DEF RdInv, RdType, From, To
<1>2. /\ seps' = [seps EXCEPT ![From] = sep]
      /\ seps \in [0 .. NServers - 2 -> Keys \cup {Top}]
  BY DEF SetSeparator, MgrType
<1>3. /\ seps'[From] = sep
      /\ \A i \in 0 .. NServers - 2 : i # From => seps'[i] = seps[i]
  BY <1>1, <1>2
<1>4. /\ \A i \in 0 .. NServers - 2 : seps[i] \in Int
      /\ \A k \in Keys : k \in Int
      /\ Servers = 0 .. NServers - 1
  BY Numbers
<1>5. sep \in Int /\ sep < seps[From] /\ \A i \in 0 .. From - 1 : sep >= seps[i]
  BY <1>1, <1>4 DEF Within
<1>6. Sorted'
  <2> SUFFICES ASSUME NEW i \in 0 .. NServers - 2, NEW j \in 0 .. NServers - 2, i < j
               PROVE  seps'[i] <= seps'[j]
    BY DEF Sorted
  <2>1. seps[i] <= seps[j]
    BY DEF Sorted
  <2>2. CASE i = From
    <3>1. j # From /\ seps'[i] = sep /\ seps'[j] = seps[j]
      BY <1>3, <2>2
    <3> QED  BY <1>4, <1>5, <2>1, <2>2, <3>1
  <2>3. CASE j = From
    <3>1. i \in 0 .. From - 1 /\ i # From
      BY <1>1, <2>3
    <3> QED  BY <1>3, <1>4, <1>5, <2>3, <3>1
  <2>4. CASE i # From /\ j # From
    BY <1>3, <2>1, <2>4
  <2> QED  BY <2>2, <2>3, <2>4
<1>7. ASSUME NEW s \in Servers, NEW k \in store[s]
      PROVE  Within(s, k)'
  <2>1. k \in Int
    BY <1>4 DEF DataType
  <2>2. Within(s, k) \/ (s = To /\ k = sep)
    BY DEF PlacedButMoving
  <2>3. CASE s < From
    <3>1. Within(s, k)
      BY <1>1, <2>2, <2>3, <1>4
    <3>2. \A i \in 0 .. s : i \in 0 .. NServers - 2 /\ i # From
      BY <1>1, <1>4, <2>3
    <3>3. s \in 0 .. s /\ \A i \in 0 .. s - 1 : i \in 0 .. s
      BY <1>4
    <3> QED  BY <1>3, <3>1, <3>2, <3>3 DEF Within
  <2>4. CASE s = From
    <3>1. Within(s, k) /\ k < sep
      BY <1>1, <2>2, <2>4
    <3>2. \A i \in 0 .. s - 1 : i \in 0 .. NServers - 2 /\ i # From
      BY <1>1, <1>4, <2>4
    <3> QED  BY <1>3, <2>4, <3>1, <3>2 DEF Within
  <2>5. CASE s > From
    <3>1. \A i \in 0 .. s - 1 : i \in 0 .. NServers - 2
      BY <1>1, <1>4
    <3>2. k >= sep
      <4>1. CASE Within(s, k)
        <5>1. From \in 0 .. s - 1
          BY <1>1, <1>4, <2>5
        <5>2. k >= seps[From]
          BY <4>1, <5>1 DEF Within
        <5> QED  BY <1>1, <1>4, <1>5, <2>1, <5>2
      <4>2. CASE s = To /\ k = sep
        BY <2>1, <4>2
      <4> QED  BY <2>2, <4>1, <4>2
    <3>3. \A i \in 0 .. s - 1 : k >= seps'[i]
      <4> TAKE i \in 0 .. s - 1
      <4>1. CASE i = From
        BY <1>3, <3>2, <4>1
      <4>2. CASE i # From
        <5>1. seps'[i] = seps[i] /\ seps[i] \in Int
          BY <1>3, <1>4, <3>1, <4>2
        <5>2. CASE Within(s, k)
          BY <5>1, <5>2 DEF Within
        <5>3. CASE s = To /\ k = sep
          <6>1. i \in 0 .. From - 1
            BY <1>1, <4>2, <5>3
          <6> QED  BY <1>5, <5>1, <5>3, <6>1
        <5> QED  BY <2>2, <5>2, <5>3
      <4> QED  BY <4>1, <4>2
    <3>4. s < NServers - 1 => k < seps'[s]
      <4> SUFFICES ASSUME s < NServers - 1  PROVE k < seps'[s]
        OBVIOUS
      <4>1. s \in 0 .. NServers - 2 /\ seps'[s] = seps[s] /\ From < s
        BY <1>1, <1>3, <1>4, <2>5
      <4>2. CASE Within(s, k)
        BY <4>1, <4>2 DEF Within
      <4>3. CASE k = sep
        <5>1. seps[From] <= seps[s]
          BY <1>1, <4>1 DEF Sorted
        <5> QED  BY <1>1, <1>4, <1>5, <4>1, <4>3, <5>1
      <4> QED  BY <2>2, <4>2, <4>3
    <3> QED  BY <3>3, <3>4 DEF Within
  <2> QED  BY <1>1, <1>4, <2>3, <2>4, <2>5
<1>8. AllPlaced'
  BY <1>7 DEF AllPlaced
<1> QED  BY <1>6, <1>8

(* The manager follows the answer with the next command of the transfer,   *)
(* gives up with every key in place, or moves the separator.               *)
LEMMA RoutingAnswer ==
  ASSUME TypeInv, RoutingInv, Undisturbed, TransferAnswer
  PROVE  RoutingInv'
<1> USE DEF TypeInv, TypeOK
<1> DEFINE m == Head(answers)
<1>1. answers # <<>> /\ answers' = Tail(answers) /\ UNCHANGED store
  BY DEF TransferAnswer, data
<1>2. mgr.wait \in TransferWaits
  BY DEF TransferAnswer, ObtainAnswer, NextAnswer, AddAnswer, DisposeAnswer, TransferWaits
<1>3. Sorted /\ rd.at = "right" /\ RightAnswer
  BY <1>1, <1>2 DEF RoutingInv, RightCommand
<1>4. From \in Servers /\ To \in Servers /\ From # To
  BY <1>3, TransferEnds
<1>5. inbox = [s \in Servers |-> <<>>] /\ answers = <<m>> /\ m \in Answering
  BY <1>1, <1>3, Received DEF RightAnswer, MailType
<1>6. answers' = <<>>
  BY <1>1, <1>5, OneMessage
<1>7. \A w \in Waits : /\ [mgr EXCEPT !.wait = w].wait = w
                       /\ [mgr EXCEPT !.wait = w].newsep = mgr.newsep
                       /\ \A k : /\ [mgr EXCEPT !.wait = w, !.newsep = k].wait = w
                                 /\ [mgr EXCEPT !.wait = w, !.newsep = k].newsep = k
  BY DEF MgrType
<1>8. {"main", "add", "dispose"} \subseteq Waits /\ "main" \notin TransferWaits
  BY DEF Waits, TransferWaits
<1>9. ASSUME inbox' = inbox  PROVE Placed(inbox)'
  <2>1. \A s \in Servers : inbox'[s] = <<>>
    BY <1>5, <1>9
  <2> QED  BY <2>1 DEF Placed
<1>10. ASSUME GiveUp, AllPlaced, seps' = seps  PROVE RoutingInv'
  <2>1. mgr'.wait = "main" /\ inbox' = inbox
    BY <1>7, <1>8, <1>10 DEF GiveUp
  <2>2. Sorted' /\ AllPlaced'
    BY <1>1, <1>3, <1>10 DEF Sorted, AllPlaced, Within
  <2> QED  BY <1>8, <1>9, <2>1, <2>2 DEF RoutingInv
<1>11. ASSUME NEW dest \in Servers, NEW cmd \in {"ADD", "DISPOSE"}, m.status = "OK",
              UNCHANGED <<rd, seps>>,
              inbox' = [inbox EXCEPT ![dest] = Append(@, [m EXCEPT !.cmd = cmd])],
              dest = Dest', mgr'.newsep = m.key,
              \/ /\ mgr'.wait = "add" /\ cmd = "ADD" /\ IsGreatest(m.key) /\ AllPlaced
              \/ /\ mgr'.wait = "dispose" /\ cmd = "DISPOSE" /\ m.key = mgr.newsep
                 /\ IsGreatest(m.key) /\ Within(From, m.key) /\ PlacedButMoving
       PROVE  RoutingInv'
  <2> DEFINE n == [m EXCEPT !.cmd = cmd]
  <2>1. n.cmd = cmd /\ n.key = m.key
    BY <1>5 DEF Answering, Msg
  <2>2. inbox' = [s \in Servers |-> IF s = dest THEN <<n>> ELSE <<>>]
    BY <1>5, <1>11, SentToEmpty
  <2> HIDE DEF n
  <2>3. inbox'[Dest'] = <<n>> /\ Head(inbox'[Dest']) = n /\ inbox'[Dest'] # <<>>
    BY <1>11, <2>2, OneMessage
  <2>4. UNCHANGED <<From, To>> /\ Sorted' /\ \A s, k : Within(s, k)' = Within(s, k)
    BY <1>3, <1>11 DEF From, To, Sorted, Within
  <2>5. IsGreatest(m.key) => IsGreatest(mgr.newsep)'
    BY <1>1, <1>11, <2>4 DEF IsGreatest
  <2>6. AllPlaced => AllPlaced'
    BY <1>1, <2>4 DEF AllPlaced
  <2>7. PlacedButMoving /\ m.key = mgr.newsep => PlacedButMoving'
    BY <1>1, <1>11, <2>4 DEF PlacedButMoving
  <2>8. inbox' = [s \in Servers |-> IF s = Dest' THEN <<Head(inbox'[Dest'])>> ELSE <<>>]
    BY <1>11, <2>2, <2>3
  <2>9. RightCommand'
    BY <1>6, <1>11, <2>1, <2>3, <2>4, <2>5, <2>6, <2>7, <2>8 DEF RightCommand
  <2> QED  BY <1>3, <1>11, <2>4, <2>9 DEF RoutingInv, TransferWaits
<1>12. ~NextAnswer(m)
  BY <1>3 DEF NextAnswer, RightAnswer
<1>13. CASE ObtainAnswer(m)
  <2>1. mgr.wait = "obtain" /\ AllPlaced /\ (m.status = "OK" => IsGreatest(m.key))
        /\ seps' = seps
    BY <1>3, <1>13 DEF ObtainAnswer, RightAnswer
  <2>2. CASE m.status # "OK"
    BY <1>10, <1>13, <2>1, <2>2 DEF ObtainAnswer
  <2>3. CASE m.status = "OK"
    <3>1. /\ inbox' = [inbox EXCEPT ![To] = Append(@, [m EXCEPT !.cmd = "ADD"])]
          /\ mgr' = [mgr EXCEPT !.wait = "add", !.newsep = m.key]
          /\ rd' = rd
      BY <1>3, <1>13, <2>3 DEF ObtainAnswer
    <3>2. mgr'.wait = "add" /\ mgr'.newsep = m.key
      BY <1>7, <1>8, <3>1
    <3>3. Dest' = To
      BY <3>1, <3>2 DEF Dest, To
    <3> QED  BY <1>4, <1>11, <2>1, <2>3, <3>1, <3>2, <3>3
  <2> QED  BY <2>2, <2>3
<1>14. CASE AddAnswer(m)
  <2>1. /\ mgr.wait = "add" /\ m.key = mgr.newsep
        /\ IsGreatest(mgr.newsep) /\ Within(From, mgr.newsep)
        /\ IF m.status = "OK" THEN PlacedButMoving ELSE AllPlaced
        /\ seps' = seps
    BY <1>3, <1>14 DEF AddAnswer, RightAnswer
  <2>2. CASE m.status # "OK"
    BY <1>10, <1>14, <2>1, <2>2 DEF AddAnswer
  <2>3. CASE m.status = "OK"
    <3>1. /\ inbox' = [inbox EXCEPT ![From] = Append(@, [m EXCEPT !.cmd = "DISPOSE"])]
          /\ mgr' = [mgr EXCEPT !.wait = "dispose"]
          /\ rd' = rd
      BY <1>14, <2>3 DEF AddAnswer, Send
    <3>2. mgr'.wait = "dispose" /\ mgr'.newsep = m.key
      BY <1>7, <1>8, <2>1, <3>1
    <3>3. Dest' = From
      BY <3>1, <3>2 DEF Dest, From
    <3> QED  BY <1>4, <1>11, <2>1, <2>3, <3>1, <3>2, <3>3
  <2> QED  BY <2>2, <2>3
<1>15. CASE DisposeAnswer
  <2>1. Within(From, mgr.newsep) /\ PlacedButMoving
        /\ \A k \in store[From] : k < mgr.newsep
    BY <1>3, <1>15 DEF DisposeAnswer, RightAnswer
  <2>2. mgr.newsep \in Keys
    <3>1. From < NServers - 1 /\ From \in 0 .. NServers - 2
      BY <1>3, <1>4, Numbers DEF From, RdInv
    <3>2. mgr.newsep < seps[From] /\ seps[From] \in Keys \cup {Top}
          /\ mgr.newsep \in Keys \cup {Top}
      BY <2>1, <3>1 DEF Within, MgrType
    <3> QED  BY <3>2, ManagerAssumption DEF Keys, Top
  <2>3. Sorted' /\ AllPlaced'
    BY <1>1, <1>3, <1>15, <2>1, <2>2, RoutingSeparator DEF DisposeAnswer
  <2>4. mgr'.wait = "main" /\ inbox' = inbox
    BY <1>7, <1>8, <1>15 DEF DisposeAnswer, SetSeparator
  <2> QED  BY <1>8, <1>9, <2>3, <2>4 DEF RoutingInv
<1> QED  BY <1>12, <1>13, <1>14, <1>15 DEF TransferAnswer

(* A wait of a transfer that runs out leaves an answer to come.            *)
LEMMA RoutingTimeout ==
  ASSUME TypeInv, RoutingInv, Undisturbed, TransferTimeout
  PROVE  ~Undisturbed'
<1>1. mgr.wait \in TransferWaits /\ answers = <<>> /\ RunsOut(ServersSilent)
  BY DEF TransferTimeout
<1>2. rd.at = "right" /\ RightCommand
  BY <1>1 DEF RoutingInv, RightAnswer
<1>3. Dest \in Servers
  BY <1>2, TransferEnds DEF TypeInv, Dest
<1>4. ~ServersSilent
  BY <1>2, <1>3 DEF RightCommand, ServersSilent
<1>5. timeouts = 0 /\ timeouts' = timeouts + 1
  BY <1>1, <1>4 DEF RunsOut, Undisturbed
<1> QED  BY <1>5 DEF Undisturbed

-----------------------------------------------------------------------------
(* What was disturbed stays so.                                            *)
LEMMA UndisturbedBefore ==
  ASSUME TypeInv, [Next]_vars, Undisturbed'
  PROVE  Undisturbed
BY HistoryStays DEF Undisturbed

(* Every step keeps the invariant.                                         *)
LEMMA RoutingInvStep ==
  ASSUME TypeInv, RoutingInv, [Next]_vars
  PROVE  RoutingInv'
<1> SUFFICES ASSUME Undisturbed'  PROVE RoutingInv'
  BY DEF RoutingInv
<1>1. Undisturbed
  BY UndisturbedBefore
<1>2. CASE Manager
  BY <1>1, <1>2, RoutingElsewhere, RoutingBegin, RoutingAnswer, RoutingTimeout DEF Manager
<1>3. CASE \E s \in Servers : Serve(s)
  BY <1>1, <1>3, RoutingServeCommand, RoutingServeTransfer
<1>4. CASE \E c \in Clients : Client(c)
  BY <1>1, <1>4, RoutingClient
<1>5. CASE UNCHANGED vars
  <2>1. UNCHANGED <<rd, inbox, answers, store, seps, mgr>>
    BY <1>5 DEF vars, mail, data
  <2>2. UNCHANGED <<Sorted, AllPlaced, Placed(inbox), PlacedButMoving, Dest, From>>
    BY <2>1 DEF Sorted, AllPlaced, Placed, Within, PlacedButMoving, Dest, From, To
  <2>3. /\ \A k : Within(From, k)' = Within(From, k)
        /\ \A k : IsGreatest(k)' = IsGreatest(k)
    BY <2>1 DEF Within, IsGreatest, From
  <2>4. RightCommand' = RightCommand
    BY <2>1, <2>2, <2>3 DEF RightCommand
  <2>5. RightAnswer' = RightAnswer
    BY <2>1, <2>2, <2>3 DEF RightAnswer
  <2> QED  BY <1>1, <2>1, <2>2, <2>4, <2>5 DEF RoutingInv
<1> QED  BY <1>2, <1>3, <1>4, <1>5 DEF Next

(* An empty collection is in order.                                        *)
LEMMA RoutingInvInit ==
  ASSUME Init
  PROVE  RoutingInv
<1>1. NServers \in Nat \ {0} /\ Top \in Int
  BY NServersAssumption, ManagerAssumption DEF Top
<1>2. Sorted
  BY <1>1 DEF Init, Sorted
<1>3. mgr.wait \notin TransferWaits /\ AllPlaced /\ Placed(inbox)
  BY DEF Init, TransferWaits, AllPlaced, Placed
<1> QED  BY <1>2, <1>3 DEF RoutingInv

(* The separators of a collection stay sorted for any number of servers,   *)
(* clients and keys: transfer_right lowers the separator to a key that no  *)
(* server to its left may hold.                                            *)
THEOREM SeparatorsStaySorted == Spec => []SeparatorsSorted
<1> DEFINE Inv == TypeInv /\ RoutingInv
<1>1. Init => Inv
  BY TypeInvInit, RoutingInvInit
<1>2. Inv /\ [Next]_vars => Inv'
  BY TypeInvStep, RoutingInvStep
<1>3. Inv => SeparatorsSorted
  BY DEF RoutingInv, Sorted, SeparatorsSorted
<1> QED  BY <1>1, <1>2, <1>3, PTL DEF Spec

(* At rest, get_id_for_key sends the commands of every stored key to the   *)
(* server that stores it, for any number of servers, clients and keys.     *)
THEOREM KeysStayRoutable == Spec => []RoutableBeforeLeft
<1> DEFINE Inv == TypeInv /\ RoutingInv
<1>1. Init => Inv
  BY TypeInvInit, RoutingInvInit
<1>2. Inv /\ [Next]_vars => Inv'
  BY TypeInvStep, RoutingInvStep
<1>3. ASSUME Inv, AtRest, Undisturbed, NEW s \in Servers, NEW k \in store[s]
      PROVE  Route(k) = s
  <2>1. AllPlaced /\ MgrType /\ k \in Keys
    BY <1>3 DEF RoutingInv, AtRest, AtMain, TransferWaits, TypeInv, TypeOK, DataType
  <2>2. Within(s, k)
    BY <2>1 DEF AllPlaced
  <2> QED  BY <2>1, <2>2, RouteExists, RouteUnique
<1>4. Inv => RoutableBeforeLeft
  BY <1>3 DEF RoutableBeforeLeft
<1> QED  BY <1>1, <1>2, <1>4, PTL DEF Spec

-----------------------------------------------------------------------------
(***************************************************************************)
(* The collection as its clients see it, for any number of clients, keys   *)
(* and storage servers.                                                    *)
(*                                                                         *)
(* First the messages: as long as every wait is long enough and no         *)
(* transfer crosses another command, there is exactly one message about a  *)
(* command that a client waits for, and it says what the client asked.     *)
(*                                                                         *)
(* Then the keys: the manager and the servers together implement one set   *)
(* of keys (KeyMap), as long as no wait runs out early and up to the first *)
(* transfer to the left or beside another command.                         *)
(*                                                                         *)
(* With one client no transfer goes on beside another command, and what    *)
(* the client is told stays true: a command and its answer count for two   *)
(* changes, the threshold is even, and so a redistribution starts only     *)
(* after an answer, when nothing is under way.                             *)
(***************************************************************************)

(* No wait ran out early, and no transfer began beside another command.    *)
Calm == timeouts = 0 /\ ~crossed

(* A mailbox holds no message of client c, or m and no other.              *)
NoneOf(box, c) == \A i \in DOMAIN box : box[i].pid # c

OneOf(box, c, m) ==
  /\ m.pid = c
  /\ \E i \in DOMAIN box : box[i] = m /\ \A j \in DOMAIN box : box[j].pid = c => j = i

(* What client c waits for, with the status it has on its way.             *)
Sends(c, status) ==
  [pid |-> c, req |-> client[c].ctr, cmd |-> client[c].cmd, status |-> status,
   key |-> client[c].key, cnt |-> 0]

Done == Statuses \ {"CLIENT"}

(* The four places where the only message of client c can be, and none.    *)
InRequests(c) ==
  /\ OneOf(requests, c, Sends(c, "CLIENT"))
  /\ NoneOf(answers, c) /\ NoneOf(replies[c], c)
  /\ \A s \in Servers : NoneOf(inbox[s], c)

InInbox(c, s) ==
  /\ OneOf(inbox[s], c, Sends(c, "CLIENT"))
  /\ NoneOf(requests, c) /\ NoneOf(answers, c) /\ NoneOf(replies[c], c)
  /\ \A t \in Servers \ {s} : NoneOf(inbox[t], c)

InAnswers(c, status) ==
  /\ OneOf(answers, c, Sends(c, status))
  /\ NoneOf(requests, c) /\ NoneOf(replies[c], c)
  /\ \A s \in Servers : NoneOf(inbox[s], c)

InReplies(c, status) ==
  /\ OneOf(replies[c], c, Sends(c, status))
  /\ NoneOf(requests, c) /\ NoneOf(answers, c)
  /\ \A s \in Servers : NoneOf(inbox[s], c)

Nowhere(c) ==
  /\ NoneOf(requests, c) /\ NoneOf(answers, c) /\ NoneOf(replies[c], c)
  /\ \A s \in Servers : NoneOf(inbox[s], c)

(* The command of client c is still to be served, or was, with a status.   *)
Stage(c, status) ==
  /\ client[c].waiting /\ client[c].cmd \in KeyCmds /\ client[c].key \in Keys
  /\ \/ status = "CLIENT" /\ (InRequests(c) \/ \E s \in Servers : InInbox(c, s))
     \/ status \in Done /\ (InAnswers(c, status) \/ InReplies(c, status))

ClientInv(c) ==
  IF client[c].waiting THEN \E status \in Statuses : Stage(c, status) ELSE Nowhere(c)

(* A step that leaves client c and its command as they are.                *)
Kept(c) ==
  /\ client'[c] = client[c]
  /\ \A status : Stage(c, status) => Stage(c, status)'
  /\ Nowhere(c) => Nowhere(c)'

(* In a transfer nothing but the manager's own is with the servers; at     *)
(* other times the only thing of its own is a question for a count.        *)
OwnInv ==
  IF mgr.wait \in TransferWaits
  THEN /\ \A i \in DOMAIN answers : answers[i].pid = ManagerPid
       /\ \A s \in Servers : \A i \in DOMAIN inbox[s] : inbox[s][i].pid = ManagerPid
  ELSE \A s \in Servers : \A i \in DOMAIN inbox[s] :
         inbox[s][i].pid = ManagerPid => inbox[s][i].cmd = "GET_RECORDS_CNT"

(* What is sent to the pid of a client is about a command of that client,  *)
(* and only clients ask the manager for something.                         *)
RepliesInv ==
  /\ \A c \in Clients : \A i \in DOMAIN replies[c] : replies[c][i].pid = c
  /\ \A i \in DOMAIN requests : requests[i].pid \in Clients

MessagesInv ==
  /\ RepliesInv
  /\ Calm => OwnInv /\ \A c \in Clients : ClientInv(c)

-----------------------------------------------------------------------------
(* Sending and receiving leave a mailbox apart from client c if the        *)
(* message is not about a command of c.                                    *)
Apart(box, next, c) ==
  /\ NoneOf(box, c) => NoneOf(next, c)
  /\ \A m : OneOf(box, c, m) => OneOf(next, c, m)

(* What has not changed is apart from every client.                        *)
LEMMA ApartSame == \A box, c : Apart(box, box, c)
BY DEF Apart

(* So is what changed twice, each time apart from it.                      *)
LEMMA ApartTwice ==
  ASSUME NEW a, NEW b, NEW d, NEW c, Apart(a, b, c), Apart(b, d, c)
  PROVE  Apart(a, d, c)
BY DEF Apart

(* Places in a mailbox after its first message was taken.                  *)
LEMMA PlacesLeft ==
  ASSUME NEW M, NEW box \in Seq(M), box # <<>>
  PROVE  /\ 1 \in DOMAIN box /\ Head(box) = box[1]
         /\ \A i \in DOMAIN Tail(box) : /\ i + 1 \in DOMAIN box /\ i + 1 # 1 /\ i \in Int
                                        /\ Tail(box)[i] = box[i + 1]
         /\ \A i \in DOMAIN box : i \in Int
         /\ \A i \in DOMAIN box : i # 1 => i - 1 \in DOMAIN Tail(box)
                                           /\ Tail(box)[i - 1] = box[i]
OBVIOUS

(* Sending a message of somebody else is apart from the client.            *)
LEMMA ApartSent ==
  ASSUME NEW M, NEW box \in Seq(M), NEW c, NEW m, m.pid # c
  PROVE  Apart(box, Append(box, m), c)
<1> DEFINE next == Append(box, m)
<1>1. /\ \A i \in DOMAIN box : i \in DOMAIN next /\ next[i] = box[i]
      /\ \A i \in DOMAIN next : i \in DOMAIN box \/ next[i] = m
  OBVIOUS
<1> HIDE DEF next
<1>2. ASSUME NoneOf(box, c)  PROVE NoneOf(next, c)
  BY <1>1, <1>2 DEF NoneOf
<1>3. ASSUME NEW n, OneOf(box, c, n)  PROVE OneOf(next, c, n)
  <2>1. PICK i \in DOMAIN box : box[i] = n /\ \A j \in DOMAIN box : box[j].pid = c => j = i
    BY <1>3 DEF OneOf
  <2>2. i \in DOMAIN next /\ next[i] = n
    BY <1>1, <2>1
  <2>3. ASSUME NEW j \in DOMAIN next, next[j].pid = c
        PROVE  j = i
    BY <1>1, <2>1, <2>3
  <2> QED  BY <1>3, <2>2, <2>3 DEF OneOf
<1> QED  BY <1>2, <1>3 DEF Apart, next

(* Taking a message of somebody else is, too.                              *)
LEMMA ApartTaken ==
  ASSUME NEW M, NEW box \in Seq(M), NEW c, box # <<>>, Head(box).pid # c
  PROVE  Apart(box, Tail(box), c)
<1> DEFINE next == Tail(box)
<1>1. /\ Head(box) = box[1]
      /\ \A i \in DOMAIN next : /\ i + 1 \in DOMAIN box /\ i \in Int
                                /\ next[i] = box[i + 1]
      /\ \A i \in DOMAIN box : /\ i \in Int
                               /\ i # 1 => i - 1 \in DOMAIN next /\ next[i - 1] = box[i]
  BY PlacesLeft
<1> HIDE DEF next
<1>2. ASSUME NoneOf(box, c)  PROVE NoneOf(next, c)
  BY <1>1, <1>2 DEF NoneOf
<1>3. ASSUME NEW n, OneOf(box, c, n)  PROVE OneOf(next, c, n)
  <2>1. PICK i \in DOMAIN box : box[i] = n /\ \A j \in DOMAIN box : box[j].pid = c => j = i
    BY <1>3 DEF OneOf
  <2>2. i # 1 /\ i \in Int
    BY <1>1, <1>3, <2>1 DEF OneOf
  <2>3. i - 1 \in DOMAIN next /\ next[i - 1] = n
    BY <1>1, <2>1, <2>2
  <2>4. ASSUME NEW j \in DOMAIN next, next[j].pid = c
        PROVE  j = i - 1
    <3>1. j + 1 = i /\ j \in Int
      BY <1>1, <2>1, <2>4
    <3> QED  BY <2>2, <3>1
  <2> QED  BY <1>3, <2>3, <2>4 DEF OneOf
<1> QED  BY <1>2, <1>3 DEF Apart, next

(* What happens to the message of client c itself.                         *)
LEMMA OneSent ==
  ASSUME NEW M, NEW box \in Seq(M), NEW c, NEW m, m.pid = c, NoneOf(box, c)
  PROVE  OneOf(Append(box, m), c, m)
<1> DEFINE next == Append(box, m)
           i == Len(box) + 1
<1>1. /\ i \in DOMAIN next /\ next[i] = m
      /\ \A j \in DOMAIN next : j = i \/ (j \in DOMAIN box /\ next[j] = box[j])
  OBVIOUS
<1> HIDE DEF next, i
<1>2. \A j \in DOMAIN next : next[j].pid = c => j = i
  BY <1>1 DEF NoneOf
<1> QED  BY <1>1, <1>2 DEF OneOf, next

(* Taking the client's one message leaves none of its messages.            *)
LEMMA OneTaken ==
  ASSUME NEW M, NEW box \in Seq(M), NEW c, NEW m, OneOf(box, c, m), box # <<>>,
         Head(box).pid = c
  PROVE  Head(box) = m /\ NoneOf(Tail(box), c)
<1> DEFINE next == Tail(box)
<1>1. PICK i \in DOMAIN box : box[i] = m /\ \A j \in DOMAIN box : box[j].pid = c => j = i
  BY DEF OneOf
<1>2. /\ 1 \in DOMAIN box /\ Head(box) = box[1]
      /\ \A j \in DOMAIN next : /\ j + 1 \in DOMAIN box /\ j + 1 # 1
                                /\ next[j] = box[j + 1]
  BY PlacesLeft
<1> HIDE DEF next
<1>3. i = 1
  BY <1>1, <1>2
<1>4. NoneOf(next, c)
  BY <1>1, <1>2, <1>3 DEF NoneOf
<1> QED  BY <1>1, <1>2, <1>3, <1>4 DEF next

(* A message that is there is seen.                                        *)
LEMMA OneSeen ==
  ASSUME NEW M, NEW box \in Seq(M), NEW c, NEW m
  PROVE  /\ OneOf(box, c, m) => box # <<>> /\ ~NoneOf(box, c)
         /\ box # <<>> /\ Head(box).pid = c => ~NoneOf(box, c)
<1>1. box # <<>> => 1 \in DOMAIN box /\ Head(box) = box[1]
  OBVIOUS
<1>2. OneOf(box, c, m) => box # <<>>
  BY DEF OneOf
<1> QED  BY <1>1, <1>2 DEF OneOf, NoneOf

-----------------------------------------------------------------------------
(* A client that is left alone keeps its stage.                            *)
LEMMA KeptInv ==
  ASSUME NEW c \in Clients, ClientInv(c), Kept(c)
  PROVE  ClientInv(c)'
BY DEF ClientInv, Kept

(* A client that neither acts nor is the subject of what happens.          *)
LEMMA ClientApart ==
  ASSUME NEW c \in Clients, client'[c] = client[c],
         Apart(requests, requests', c), Apart(answers, answers', c),
         Apart(replies[c], replies'[c], c),
         \A s \in Servers : Apart(inbox[s], inbox'[s], c)
  PROVE  Kept(c)
<1>1. \A status : Sends(c, status)' = Sends(c, status)
  BY DEF Sends
<1>2. /\ NoneOf(requests, c) => NoneOf(requests', c)
      /\ NoneOf(answers, c) => NoneOf(answers', c)
      /\ NoneOf(replies[c], c) => NoneOf(replies'[c], c)
      /\ \A s \in Servers : NoneOf(inbox[s], c) => NoneOf(inbox'[s], c)
  BY DEF Apart
<1>3. \A m : /\ OneOf(requests, c, m) => OneOf(requests', c, m)
             /\ OneOf(answers, c, m) => OneOf(answers', c, m)
             /\ OneOf(replies[c], c, m) => OneOf(replies'[c], c, m)
             /\ \A s \in Servers : OneOf(inbox[s], c, m) => OneOf(inbox'[s], c, m)
  BY DEF Apart
<1>4. InRequests(c) => InRequests(c)'
  BY <1>1, <1>2, <1>3 DEF InRequests
<1>5. \A s \in Servers : InInbox(c, s) => InInbox(c, s)'
  BY <1>1, <1>2, <1>3 DEF InInbox
<1>6. \A status : InAnswers(c, status) => InAnswers(c, status)'
  BY <1>1, <1>2, <1>3 DEF InAnswers
<1>7. \A status : InReplies(c, status) => InReplies(c, status)'
  BY <1>1, <1>2, <1>3 DEF InReplies
<1>8. Nowhere(c) => Nowhere(c)'
  BY <1>2 DEF Nowhere
<1>9. ASSUME NEW status, Stage(c, status)  PROVE Stage(c, status)'
  BY <1>4, <1>5, <1>6, <1>7, <1>9 DEF Stage
<1> QED  BY <1>8, <1>9 DEF Kept

(* Sending to a server, and taking a server's first message.               *)
LEMMA ApartInbox ==
  ASSUME NEW M, NEW box \in [Servers -> Seq(M)], NEW c, NEW d
  PROVE  /\ \A m : m.pid # c =>
               \A s \in Servers : Apart(box[s], [box EXCEPT ![d] = Append(@, m)][s], c)
         /\ d \in Servers /\ box[d] # <<>> /\ Head(box[d]).pid # c =>
               \A s \in Servers : Apart(box[s], [box EXCEPT ![d] = Tail(@)][s], c)
<1>1. ASSUME NEW m, m.pid # c, NEW s \in Servers
      PROVE  Apart(box[s], [box EXCEPT ![d] = Append(@, m)][s], c)
  <2>1. CASE s = d
    <3>1. [box EXCEPT ![d] = Append(@, m)][s] = Append(box[s], m)
      BY <2>1
    <3>2. box[s] \in Seq(M)
      OBVIOUS
    <3> QED  BY <1>1, <3>1, <3>2, ApartSent
  <2>2. CASE s # d
    <3>1. [box EXCEPT ![d] = Append(@, m)][s] = box[s]
      BY <2>2
    <3> QED  BY <3>1, ApartSame
  <2> QED  BY <2>1, <2>2
<1>2. ASSUME d \in Servers, box[d] # <<>>, Head(box[d]).pid # c, NEW s \in Servers
      PROVE  Apart(box[s], [box EXCEPT ![d] = Tail(@)][s], c)
  <2>1. CASE s = d
    <3>1. [box EXCEPT ![d] = Tail(@)][s] = Tail(box[s])
      BY <2>1
    <3>2. box[s] \in Seq(M)
      OBVIOUS
    <3> QED  BY <1>2, <2>1, <3>1, <3>2, ApartTaken
  <2>2. CASE s # d
    <3>1. [box EXCEPT ![d] = Tail(@)][s] = box[s]
      BY <2>2
    <3> QED  BY <3>1, ApartSame
  <2> QED  BY <2>1, <2>2
<1> QED  BY <1>1, <1>2

-----------------------------------------------------------------------------
(* What a client asks is the only message about its command.               *)
LEMMA MessagesRequest ==
  ASSUME TypeInv, RepliesInv, \A c \in Clients : ClientInv(c), NEW d \in Clients,
         NEW cmd \in ClientCmds, NEW key \in Keys, Request(d, cmd, key),
         NEW c \in Clients
  PROVE  IF c = d THEN Nowhere(c) /\ Stage(c, "CLIENT")' ELSE Kept(c)
<1> USE DEF TypeInv, TypeOK
<1> DEFINE m == [pid |-> d, req |-> client[d].ctr, cmd |-> cmd, status |-> "CLIENT",
                 key |-> key, cnt |-> 0]
<1>1. /\ requests' = Append(requests, m) /\ UNCHANGED <<inbox, answers, replies>>
      /\ ~client[d].waiting
      /\ client' = [client EXCEPT ![d] = [waiting |-> TRUE, ctr |-> @.ctr,
                                          cmd |-> cmd, key |-> key]]
  BY DEF Request
<1>2. requests \in Seq(Asking)
  BY DEF MailType
<1>3. CASE c # d
  <2>1. m.pid # c
    BY <1>3
  <2> HIDE DEF m
  <2>2. Apart(requests, requests', c) /\ client'[c] = client[c]
    BY <1>1, <1>2, <1>3, <2>1, ApartSent DEF ClientType
  <2> QED  BY <1>1, <1>3, <2>2, ApartSame, ClientApart
<1>4. CASE c = d
  <2>1. Nowhere(c)
    BY <1>1, <1>4 DEF ClientInv
  <2>2. client'[c] = [waiting |-> TRUE, ctr |-> client[c].ctr, cmd |-> cmd, key |-> key]
    BY <1>1, <1>4 DEF ClientType
  <2>3. Sends(c, "CLIENT")' = m
    BY <1>4, <2>2 DEF Sends
  <2>4. OneOf(Append(requests, m), c, m)
    BY <1>2, <1>4, <2>1, OneSent DEF Nowhere
  <2>5. InRequests(c)'
    BY <1>1, <2>1, <2>3, <2>4 DEF InRequests, Nowhere
  <2>6. client'[c].waiting /\ client'[c].cmd \in KeyCmds /\ client'[c].key \in Keys
    BY <2>2, ManagerAssumption DEF KeyCmds
  <2> QED  BY <1>4, <2>1, <2>5, <2>6 DEF Stage
<1> QED  BY <1>3, <1>4

(* The first message a waiting client finds is its answer.                 *)
LEMMA FirstReply ==
  ASSUME TypeInv, RepliesInv, NEW c \in Clients, ClientInv(c), replies[c] # <<>>
  PROVE  /\ client[c].waiting /\ Head(replies[c]).req = client[c].ctr
         /\ NoneOf(requests, c) /\ NoneOf(answers, c) /\ NoneOf(Tail(replies[c]), c)
         /\ \A s \in Servers : NoneOf(inbox[s], c)
         /\ \E status \in Done : Stage(c, status) /\ Head(replies[c]) = Sends(c, status)
<1>1. replies[c] \in Seq(Answering)
  BY DEF TypeInv, TypeOK, MailType
<1>2. Head(replies[c]).pid = c
  <2>1. 1 \in DOMAIN replies[c] /\ Head(replies[c]) = replies[c][1]
    BY <1>1, PlacesLeft
  <2> QED  BY <2>1 DEF RepliesInv
<1>3. ~NoneOf(replies[c], c)
  BY <1>1, <1>2, OneSeen
<1>4. client[c].waiting /\ \E status \in Done : Stage(c, status) /\ InReplies(c, status)
  BY <1>3 DEF ClientInv, Stage, Nowhere, InRequests, InInbox, InAnswers
<1>5. PICK status \in Done : Stage(c, status) /\ InReplies(c, status)
  BY <1>4
<1>6. Head(replies[c]) = Sends(c, status) /\ NoneOf(Tail(replies[c]), c)
  BY <1>1, <1>2, <1>5, OneTaken DEF InReplies
<1>7. Head(replies[c]).req = client[c].ctr
  BY <1>6 DEF Sends
<1> QED  BY <1>4, <1>5, <1>6, <1>7 DEF InReplies

(* A client takes no message but its answer, and does not give up early.   *)
LEMMA MessagesReply ==
  ASSUME TypeInv, RepliesInv, \A c \in Clients : ClientInv(c), timeouts' = 0,
         NEW d \in Clients, SkipReply(d) \/ AcceptReply(d) \/ ClientTimeout(d),
         NEW c \in Clients
  PROVE  IF c = d /\ AcceptReply(d)
         THEN ~client'[c].waiting /\ Nowhere(c)'
         ELSE c # d /\ Kept(c)
<1> USE DEF TypeInv, TypeOK
<1>1. UNCHANGED <<inbox, answers, requests>>
  BY DEF SkipReply, AcceptReply, ClientTimeout, mail
<1>2. CASE c # d
  <2>1. client'[c] = client[c] /\ replies'[c] = replies[c]
    BY <1>2 DEF SkipReply, AcceptReply, ClientTimeout, mail, ClientType, MailType
  <2> QED  BY <1>1, <1>2, <2>1, ApartSame, ClientApart
<1>3. CASE c = d /\ SkipReply(d)
  BY <1>3, FirstReply DEF SkipReply
<1>4. CASE c = d /\ AcceptReply(d)
  <2>1. replies[c] # <<>> /\ replies'[c] = Tail(replies[c]) /\ ~client'[c].waiting
    BY <1>4 DEF AcceptReply, MailType, ClientType
  <2>2. Nowhere(c)'
    BY <1>1, <2>1, FirstReply DEF Nowhere
  <2> QED  BY <1>4, <2>1, <2>2
<1>5. CASE c = d /\ ClientTimeout(d)
  <2>1. client[c].waiting /\ replies[c] = <<>> /\ RunsOut(~ComingFor(c))
    BY <1>5 DEF ClientTimeout
  <2>2. timeouts \in Nat /\ ~(timeouts' = timeouts + 1)
    BY ManagerAssumption DEF ClientType
  <2>3. ~ComingFor(c)
    BY <2>1, <2>2 DEF RunsOut
  <2>4. /\ NoneOf(requests, c) /\ NoneOf(answers, c)
        /\ \A s \in Servers : NoneOf(inbox[s], c)
    BY <2>3 DEF ComingFor, NoneOf
  <2>5. NoneOf(replies[c], c)
    BY <2>1 DEF NoneOf
  <2>6. /\ requests \in Seq(Asking) /\ answers \in Seq(Answering)
        /\ replies[c] \in Seq(Answering) /\ \A s \in Servers : inbox[s] \in Seq(Asking)
    BY DEF MailType
  <2>7. /\ \A status : ~InRequests(c) /\ ~InAnswers(c, status) /\ ~InReplies(c, status)
        /\ \A s \in Servers : ~InInbox(c, s)
    BY <2>4, <2>5, <2>6, OneSeen DEF InRequests, InAnswers, InReplies, InInbox
  <2> QED  BY <2>1, <2>7 DEF ClientInv, Stage
<1> QED  BY <1>2, <1>3, <1>4, <1>5

-----------------------------------------------------------------------------
(* The manager's own commands are about no command of a client.            *)
LEMMA OwnApart ==
  ASSUME NEW c \in Clients, NEW box \in [Servers -> Seq(Asking)],
         NEW cmd \in {"OBTAIN_MIN", "OBTAIN_MAX", "GET_RECORDS_CNT"}, NEW d
  PROVE  \A s \in Servers :
           Apart(box[s], [box EXCEPT ![d] = Append(@, OwnMsg(cmd))][s], c)
<1>1. OwnMsg(cmd).pid # c
  BY ManagerAssumption DEF OwnMsg
<1> QED  BY <1>1, ApartInbox

(* The redistribution that the end of the loop body may begin with.        *)
LEMMA CountChangeApart ==
  ASSUME NEW c \in Clients, NEW box \in [Servers -> Seq(Asking)], NEW cmd,
         CountChange(cmd, box)
  PROVE  /\ \A s \in Servers : Apart(box[s], inbox'[s], c)
         /\ inbox' = box \/ inbox' = [box EXCEPT ![0] = Append(@, OwnMsg("GET_RECORDS_CNT"))]
BY ApartSame, OwnApart DEF CountChange

(* A command of a client goes to one server.                               *)
LEMMA MessagesForwardRequest ==
  ASSUME TypeInv, ForwardRequest, NEW c \in Clients
  PROVE  Kept(c)
<1> USE DEF TypeInv, TypeOK
<1> DEFINE m   == Head(requests)
           box == [inbox EXCEPT ![Route(m.key)] = Append(@, m)]
<1>1. /\ requests # <<>> /\ requests' = Tail(requests)
      /\ UNCHANGED <<answers, replies, client>> /\ CountChange(m.cmd, box)
  BY DEF ForwardRequest
<1>2. requests \in Seq(Asking) /\ inbox \in [Servers -> Seq(Asking)] /\ m \in Asking
  BY <1>1, Received DEF MailType
<1>3. box \in [Servers -> Seq(Asking)]
  BY <1>2, SentTo
<1>4. \A s \in Servers : Apart(box[s], inbox'[s], c)
  BY <1>1, <1>3, CountChangeApart
<1>5. CASE m.pid # c
  <2>1. \A s \in Servers : Apart(inbox[s], box[s], c)
    BY <1>2, <1>5, ApartInbox
  <2> HIDE DEF m, box
  <2>2. \A s \in Servers : Apart(inbox[s], inbox'[s], c)
    BY <1>4, <2>1, ApartTwice
  <2>3. Apart(requests, requests', c)
    BY <1>1, <1>2, <1>5, ApartTaken DEF m
  <2> QED  BY <1>1, <2>2, <2>3, ApartSame, ClientApart
<1>6. CASE m.pid = c
  <2>1. ~NoneOf(requests, c)
    BY <1>1, <1>2, <1>6, OneSeen
  <2> SUFFICES ASSUME NEW status, Stage(c, status)  PROVE Stage(c, status)'
    BY <1>1, <2>1 DEF Kept, Nowhere
  <2>2. client[c].waiting /\ InRequests(c) /\ client[c].cmd \in KeyCmds
        /\ client[c].key \in Keys /\ status = "CLIENT"
    BY <2>1 DEF Stage, InInbox, InAnswers, InReplies
  <2>3. m = Sends(c, "CLIENT") /\ NoneOf(requests', c)
    <3>1. OneOf(requests, c, Sends(c, "CLIENT"))
      BY <2>2 DEF InRequests
    <3>2. Head(requests).pid = c /\ requests # <<>> /\ requests \in Seq(Asking)
      BY <1>1, <1>2, <1>6
    <3>3. Head(requests) = Sends(c, "CLIENT")
      BY <3>1, <3>2, OneTaken
    <3>4. NoneOf(Tail(requests), c)
      BY <3>1, <3>2, OneTaken
    <3> QED  BY <1>1, <3>3, <3>4
  <2>4. Route(m.key) \in Servers
    BY <2>2, <2>3, RouteExists DEF Sends
  <2>5. PICK s \in Servers : s = Route(m.key)
    BY <2>4
  <2>6. box[s] = Append(inbox[s], m) /\ \A t \in Servers \ {s} : box[t] = inbox[t]
    BY <1>2, <2>5
  <2>7. inbox[s] \in Seq(Asking) /\ NoneOf(inbox[s], c)
    BY <1>2, <2>2 DEF InRequests
  <2> HIDE DEF m, box
  <2>8. OneOf(box[s], c, m)
    BY <1>6, <2>6, <2>7, OneSent
  <2>9. OneOf(inbox'[s], c, m) /\ \A t \in Servers \ {s} : NoneOf(inbox'[t], c)
    BY <1>4, <2>2, <2>6, <2>8 DEF Apart, InRequests
  <2>10. Sends(c, "CLIENT")' = Sends(c, "CLIENT")
    BY <1>1 DEF Sends
  <2>11. InInbox(c, s)'
    BY <1>1, <2>2, <2>3, <2>9, <2>10 DEF InInbox, InRequests
  <2> QED  BY <1>1, <2>2, <2>11 DEF Stage
<1> QED  BY <1>5, <1>6

(* An answer goes to the client whose pid it bears.                        *)
LEMMA MessagesForwardAnswer ==
  ASSUME TypeInv, ForwardAnswer, NEW c \in Clients
  PROVE  Kept(c)
<1> USE DEF TypeInv, TypeOK
<1> DEFINE m == Head(answers)
<1>1. /\ answers # <<>> /\ answers' = Tail(answers)
      /\ UNCHANGED <<requests, client>> /\ CountChange(m.cmd, inbox)
      /\ replies' = [d \in Clients |->
           IF d = m.pid THEN Append(replies[d], m) ELSE replies[d]]
  BY DEF ForwardAnswer
<1>2. /\ answers \in Seq(Answering) /\ inbox \in [Servers -> Seq(Asking)]
      /\ replies[c] \in Seq(Answering)
  BY DEF MailType
<1>3. \A s \in Servers : Apart(inbox[s], inbox'[s], c)
  BY <1>1, <1>2, CountChangeApart
<1> HIDE DEF m
<1>4. CASE m.pid # c
  <2>1. replies'[c] = replies[c]
    BY <1>1, <1>4
  <2>2. Apart(answers, answers', c)
    BY <1>1, <1>2, <1>4, ApartTaken DEF m
  <2> QED  BY <1>1, <1>3, <2>1, <2>2, ApartSame, ClientApart
<1>5. CASE m.pid = c
  <2>1. ~NoneOf(answers, c)
    BY <1>1, <1>2, <1>5, OneSeen DEF m
  <2> SUFFICES ASSUME NEW status, Stage(c, status)  PROVE Stage(c, status)'
    BY <1>1, <2>1 DEF Kept, Nowhere
  <2>2. /\ client[c].waiting /\ client[c].cmd \in KeyCmds /\ client[c].key \in Keys
        /\ status \in Done
    BY <2>1 DEF Stage, InRequests, InInbox
  <2>3. InAnswers(c, status)
    BY <2>1 DEF Stage, InRequests, InInbox, InReplies
  <2>4. m = Sends(c, status) /\ NoneOf(answers', c)
    <3>1. OneOf(answers, c, Sends(c, status))
      BY <2>3 DEF InAnswers
    <3>2. Head(answers).pid = c /\ answers # <<>> /\ answers \in Seq(Answering)
      BY <1>1, <1>2, <1>5 DEF m
    <3>3. Head(answers) = Sends(c, status)
      BY <3>1, <3>2, OneTaken
    <3>4. NoneOf(Tail(answers), c)
      BY <3>1, <3>2, OneTaken
    <3> QED  BY <1>1, <3>3, <3>4 DEF m
  <2>5. replies'[c] = Append(replies[c], m)
    BY <1>1, <1>5
  <2>6. OneOf(replies'[c], c, m)
    BY <1>2, <1>5, <2>3, <2>5, OneSent DEF InAnswers
  <2>7. \A s \in Servers : NoneOf(inbox'[s], c)
    BY <1>3, <2>3 DEF Apart, InAnswers
  <2>8. Sends(c, status)' = Sends(c, status)
    BY <1>1 DEF Sends
  <2>9. InReplies(c, status)'
    BY <1>1, <2>3, <2>4, <2>6, <2>7, <2>8 DEF InReplies, InAnswers
  <2> QED  BY <1>1, <2>2, <2>9 DEF Stage
<1> QED  BY <1>4, <1>5

(* Counting, the loop and the beginning of a transfer send only commands   *)
(* of the manager's own.                                                   *)
LEMMA MessagesElsewhere ==
  ASSUME TypeInv, NEW c \in Clients,
         \/ CountAnswer \/ CountTimeout \/ RedistributionLoop \/ RedistributionReturns
         \/ BeginTransfer
  PROVE  Kept(c)
<1> USE DEF TypeInv, TypeOK
<1>1. inbox \in [Servers -> Seq(Asking)]
  BY DEF MailType
<1>2. UNCHANGED <<requests, answers, replies, client>>
  BY DEF CountAnswer, CountTimeout, RedistributionLoop, RedistributionReturns, Local,
         BeginTransfer, mail
<1>3. \A s \in Servers : Apart(inbox[s], inbox'[s], c)
  <2>1. CASE CountAnswer
    BY <1>1, <2>1, OwnApart, ApartSame DEF CountAnswer
  <2>2. CASE BeginTransfer
    <3> DEFINE cmd == IF rd.at = "left" THEN "OBTAIN_MIN" ELSE "OBTAIN_MAX"
    <3>1. [OwnMsg("OBTAIN_MIN") EXCEPT !.cmd = cmd] = OwnMsg(cmd)
      BY DEF OwnMsg
    <3>2. inbox' = [inbox EXCEPT ![From] = Append(@, OwnMsg(cmd))]
      BY <2>2, <3>1 DEF BeginTransfer, Send
    <3> QED  BY <1>1, <3>2, OwnApart
  <2>3. CASE CountTimeout \/ RedistributionLoop \/ RedistributionReturns
    <3>1. inbox' = inbox
      BY <2>3 DEF CountTimeout, RedistributionLoop, RedistributionReturns, Local, mail
    <3> QED  BY <3>1, ApartSame
  <2> QED  BY <2>1, <2>2, <2>3
<1> QED  BY <1>2, <1>3, ApartSame, ClientApart

(* In a transfer the manager takes no answer that is a client's.           *)
LEMMA MessagesTransferAnswer ==
  ASSUME TypeInv, OwnInv, TransferAnswer, NEW c \in Clients
  PROVE  Kept(c)
<1> USE DEF TypeInv, TypeOK
<1> DEFINE m == Head(answers)
<1>1. /\ answers # <<>> /\ answers' = Tail(answers)
      /\ UNCHANGED <<requests, replies, client>>
      /\ ObtainAnswer(m) \/ NextAnswer(m) \/ AddAnswer(m) \/ DisposeAnswer
  BY DEF TransferAnswer
<1>2. answers \in Seq(Answering) /\ inbox \in [Servers -> Seq(Asking)] /\ m \in Answering
  BY <1>1, Received DEF MailType
<1>3. mgr.wait \in TransferWaits
  BY <1>1 DEF ObtainAnswer, NextAnswer, AddAnswer, DisposeAnswer, TransferWaits
<1>4. m.pid = ManagerPid /\ m.pid # c
  <2>1. 1 \in DOMAIN answers /\ m = answers[1]
    BY <1>1, <1>2, PlacesLeft
  <2> QED  BY <1>3, <2>1, ManagerAssumption DEF OwnInv
<1>5. \A cmd : [m EXCEPT !.cmd = cmd].pid # c
  BY <1>2, <1>4 DEF Answering, Msg
<1> HIDE DEF m
<1>6. \/ inbox' = inbox
      \/ \E d, cmd : inbox' = [inbox EXCEPT ![d] = Append(@, [m EXCEPT !.cmd = cmd])]
  BY <1>1 DEF ObtainAnswer, NextAnswer, AddAnswer, DisposeAnswer, GiveUp, SetSeparator, Send
<1>7. \A s \in Servers : Apart(inbox[s], inbox'[s], c)
  BY <1>2, <1>5, <1>6, ApartInbox, ApartSame
<1>8. Apart(answers, answers', c)
  BY <1>1, <1>2, <1>4, ApartTaken DEF m
<1> QED  BY <1>1, <1>7, <1>8, ApartSame, ClientApart

(* No step of the manager changes what a client asked or was answered.     *)
LEMMA MessagesManager ==
  ASSUME TypeInv, OwnInv, Manager, NEW c \in Clients
  PROVE  Kept(c)
<1>1. CASE TransferTimeout
  <2>1. UNCHANGED <<requests, answers, replies, client, inbox>>
    BY <1>1 DEF TransferTimeout, GiveUp, SetSeparator
  <2> QED  BY <2>1, ApartSame, ClientApart
<1> QED
  BY <1>1, MessagesForwardRequest, MessagesForwardAnswer, MessagesElsewhere,
     MessagesTransferAnswer DEF Manager

(* An answer is the command with another status.                           *)
LEMMA SendsAnswered ==
  ASSUME NEW c, NEW status
  PROVE  [Sends(c, "CLIENT") EXCEPT !.status = status, !.key = client[c].key]
           = Sends(c, status)
<1> DEFINE m == [Sends(c, "CLIENT") EXCEPT !.status = status]
<1>1. m = Sends(c, status)
  BY DEF Sends
<1> HIDE DEF m
<1>2. [m EXCEPT !.key = client[c].key] = Sends(c, status)
  BY <1>1 DEF Sends
<1>3. [Sends(c, "CLIENT") EXCEPT !.status = status, !.key = client[c].key]
        = [m EXCEPT !.key = client[c].key]
  BY DEF m
<1> QED  BY <1>2, <1>3

(* A server answers a client's command, with what the client sent.         *)
LEMMA MessagesServe ==
  ASSUME TypeInv, \A c \in Clients : ClientInv(c), NEW s \in Servers, Serve(s),
         NEW c \in Clients
  PROVE  IF Head(inbox[s]).pid = c
         THEN /\ Stage(c, "CLIENT") /\ InInbox(c, s)
              /\ Head(inbox[s]) = Sends(c, "CLIENT") /\ client' = client
              /\ \A status \in Done :
                   Answer(s, status, client[c].key) => Stage(c, status)'
              /\ ServeAdd(s) \/ ServeDispose(s) \/ ServeUpdateOrObtain(s) \/ NoMemory(s)
         ELSE Kept(c)
<1> USE DEF TypeInv, TypeOK
<1> DEFINE m == Head(inbox[s])
<1>1. /\ inbox[s] # <<>> /\ inbox' = [inbox EXCEPT ![s] = Tail(@)]
      /\ UNCHANGED <<requests, replies, client>>
  BY DEF Serve, ServeAdd, ServeDispose, ServeUpdateOrObtain, ServeMinOrMax, ServeNext,
         ServeCount, NoMemory, Serves, Answer
<1>2. \/ answers' = answers
      \/ \E status, key : answers' = Append(answers, [m EXCEPT !.status = status, !.key = key])
  BY DEF Serve, ServeAdd, ServeDispose, ServeUpdateOrObtain, ServeMinOrMax, ServeNext,
         ServeCount, NoMemory, Answer
<1>3. /\ answers \in Seq(Answering) /\ inbox \in [Servers -> Seq(Asking)]
      /\ inbox[s] \in Seq(Asking) /\ m \in Asking
  BY <1>1, Received DEF MailType
<1>4. CASE m.pid # c
  <2>1. \A t \in Servers : Apart(inbox[t], inbox'[t], c)
    BY <1>1, <1>3, <1>4, ApartInbox
  <2>2. \A status, key : [m EXCEPT !.status = status, !.key = key].pid # c
    BY <1>3, <1>4 DEF Asking, Msg
  <2> HIDE DEF m
  <2>3. Apart(answers, answers', c)
    BY <1>2, <1>3, <2>2, ApartSent, ApartSame
  <2>4. Kept(c)
    BY <1>1, <2>1, <2>3, ApartSame, ClientApart
  <2> QED  BY <1>4, <2>4 DEF m
<1>5. CASE m.pid = c
  <2>1. ~NoneOf(inbox[s], c)
    BY <1>1, <1>3, <1>5, OneSeen
  <2>2. ClientInv(c)
    OBVIOUS
  <2>3. /\ client[c].waiting /\ client[c].cmd \in KeyCmds /\ client[c].key \in Keys
        /\ InInbox(c, s) /\ Stage(c, "CLIENT")
    BY <2>1, <2>2 DEF ClientInv, Stage, Nowhere, InRequests, InInbox, InAnswers, InReplies
  <2>4. m = Sends(c, "CLIENT") /\ NoneOf(Tail(inbox[s]), c)
    <3>1. OneOf(inbox[s], c, Sends(c, "CLIENT"))
      BY <2>3 DEF InInbox
    <3>2. Head(inbox[s]).pid = c /\ inbox[s] # <<>> /\ inbox[s] \in Seq(Asking)
      BY <1>1, <1>3, <1>5
    <3>3. Head(inbox[s]) = Sends(c, "CLIENT")
      BY <3>1, <3>2, OneTaken
    <3>4. NoneOf(Tail(inbox[s]), c)
      BY <3>1, <3>2, OneTaken
    <3> QED  BY <3>3, <3>4
  <2>5. ServeAdd(s) \/ ServeDispose(s) \/ ServeUpdateOrObtain(s) \/ NoMemory(s)
    <3>1. m.cmd \in KeyCmds
      BY <2>3, <2>4 DEF Sends
    <3> QED
      BY <3>1 DEF Serve, ServeMinOrMax, ServeNext, ServeCount, NoMemory, Serves, KeyCmds, DataChanges
  <2>6. ASSUME NEW status \in Done, Answer(s, status, client[c].key)
        PROVE  Stage(c, status)'
    <3>1. answers' = Append(answers, Sends(c, status))
      <4>1. answers' = Append(answers, [m EXCEPT !.status = status, !.key = client[c].key])
        BY <2>6 DEF Answer
      <4> QED  BY <2>4, <4>1, SendsAnswered
    <3>2. Sends(c, status).pid = c /\ Sends(c, status)' = Sends(c, status)
      BY <1>1 DEF Sends
    <3>3. OneOf(answers', c, Sends(c, status))
      BY <1>3, <2>3, <3>1, <3>2, OneSent DEF InInbox
    <3>4. \A t \in Servers : NoneOf(inbox'[t], c)
      BY <1>1, <1>3, <2>3, <2>4 DEF InInbox
    <3>5. InAnswers(c, status)'
      BY <1>1, <2>3, <3>2, <3>3, <3>4 DEF InAnswers, InInbox
    <3> QED  BY <1>1, <2>3, <3>5 DEF Stage
  <2> QED  BY <1>1, <1>5, <2>3, <2>4, <2>5, <2>6
<1> QED  BY <1>4, <1>5

(* What a server answers a command about a key.                            *)
LEMMA ServeAnswers ==
  ASSUME NEW s \in Servers,
         ServeAdd(s) \/ ServeDispose(s) \/ ServeUpdateOrObtain(s) \/ NoMemory(s)
  PROVE  \E status \in Done : Answer(s, status, Head(inbox[s]).key)
BY DEF ServeAdd, ServeDispose, ServeUpdateOrObtain, NoMemory, Done, Statuses

-----------------------------------------------------------------------------
(* A mailbox of which every message was there before, or is m.             *)
Holds(next, box) ==
  \A i \in DOMAIN next : \E j \in DOMAIN box : next[i] = box[j]

HoldsOr(next, box, m) ==
  \A i \in DOMAIN next : next[i] = m \/ \E j \in DOMAIN box : next[i] = box[j]

(* Sending adds that one message.                                          *)
LEMMA HoldsSent ==
  ASSUME NEW M, NEW box \in Seq(M), NEW m
  PROVE  HoldsOr(Append(box, m), box, m)
<1> DEFINE next == Append(box, m)
<1>1. \A i \in DOMAIN next : next[i] = m \/ (i \in DOMAIN box /\ next[i] = box[i])
  OBVIOUS
<1> HIDE DEF next
<1> QED  BY <1>1 DEF HoldsOr, next

(* Taking adds none.                                                       *)
LEMMA HoldsTaken ==
  ASSUME NEW M, NEW box \in Seq(M), box # <<>>
  PROVE  Holds(Tail(box), box)
<1> DEFINE next == Tail(box)
<1>1. \A i \in DOMAIN next : i + 1 \in DOMAIN box /\ next[i] = box[i + 1]
  BY PlacesLeft
<1> HIDE DEF next
<1> QED  BY <1>1 DEF Holds, next

(* Nor does leaving the mailbox alone.                                     *)
LEMMA HoldsSame == \A box, m : Holds(box, box) /\ HoldsOr(box, box, m)
BY DEF Holds, HoldsOr

(* The mailboxes of the servers, after one was sent m, or one was read.    *)
LEMMA HoldsInbox ==
  ASSUME NEW M, NEW box \in [Servers -> Seq(M)], NEW d
  PROVE  /\ \A m : \A s \in Servers :
              HoldsOr([box EXCEPT ![d] = Append(@, m)][s], box[s], m)
         /\ d \in Servers /\ box[d] # <<>> =>
              \A s \in Servers : Holds([box EXCEPT ![d] = Tail(@)][s], box[s])
<1>1. ASSUME NEW m, NEW s \in Servers
      PROVE  HoldsOr([box EXCEPT ![d] = Append(@, m)][s], box[s], m)
  <2>1. CASE s = d
    <3>1. [box EXCEPT ![d] = Append(@, m)][s] = Append(box[s], m) /\ box[s] \in Seq(M)
      BY <2>1
    <3> QED  BY <3>1, HoldsSent
  <2>2. CASE s # d
    <3>1. [box EXCEPT ![d] = Append(@, m)][s] = box[s]
      BY <2>2
    <3> QED  BY <3>1, HoldsSame
  <2> QED  BY <2>1, <2>2
<1>2. ASSUME d \in Servers, box[d] # <<>>, NEW s \in Servers
      PROVE  Holds([box EXCEPT ![d] = Tail(@)][s], box[s])
  <2>1. CASE s = d
    <3>1. /\ [box EXCEPT ![d] = Tail(@)][s] = Tail(box[s])
          /\ box[s] \in Seq(M) /\ box[s] # <<>>
      BY <1>2, <2>1
    <3> QED  BY <3>1, HoldsTaken
  <2>2. CASE s # d
    <3>1. [box EXCEPT ![d] = Tail(@)][s] = box[s]
      BY <2>2
    <3> QED  BY <3>1, HoldsSame
  <2> QED  BY <2>1, <2>2
<1> QED  BY <1>1, <1>2

(* Who writes to a client, and who to the manager.                         *)
LEMMA RepliesInvStep ==
  ASSUME TypeInv, RepliesInv, [Next]_vars
  PROVE  RepliesInv'
<1> USE DEF TypeInv, TypeOK
<1>1. /\ requests \in Seq(Asking) /\ answers \in Seq(Answering)
      /\ replies \in [Clients -> Seq(Answering)]
  BY DEF MailType
<1>2. ASSUME NEW c \in Clients  PROVE \A i \in DOMAIN replies'[c] : replies'[c][i].pid = c
  <2>1. \A i \in DOMAIN replies[c] : replies[c][i].pid = c
    BY DEF RepliesInv
  <2>2. replies[c] \in Seq(Answering)
    BY <1>1
  <2>3. CASE ForwardAnswer
    <3> DEFINE m == Head(answers)
    <3>1. replies'[c] = IF c = m.pid THEN Append(replies[c], m) ELSE replies[c]
      BY <2>3 DEF ForwardAnswer
    <3> HIDE DEF m
    <3>2. HoldsOr(Append(replies[c], m), replies[c], m)
      BY <2>2, HoldsSent
    <3> QED  BY <2>1, <3>1, <3>2 DEF HoldsOr
  <2>4. CASE \E d \in Clients : SkipReply(d) \/ AcceptReply(d)
    <3>1. PICK d \in Clients : /\ replies[d] # <<>>
                               /\ replies' = [replies EXCEPT ![d] = Tail(@)]
      BY <2>4 DEF SkipReply, AcceptReply
    <3>2. CASE c = d
      <4>1. replies'[c] = Tail(replies[c]) /\ replies[c] # <<>>
        BY <1>1, <3>1, <3>2
      <4>2. Holds(replies'[c], replies[c])
        BY <2>2, <4>1, HoldsTaken
      <4> QED  BY <2>1, <4>2 DEF Holds
    <3>3. CASE c # d
      BY <1>1, <2>1, <3>1, <3>3
    <3> QED  BY <3>2, <3>3
  <2>5. CASE replies' = replies
    BY <2>1, <2>5
  <2> QED
    BY <2>3, <2>4, <2>5 DEF Next, Manager, ForwardRequest, CountAnswer, CountTimeout,
       RedistributionLoop, RedistributionReturns, Local, BeginTransfer, TransferAnswer,
       TransferTimeout, Serve, ServeAdd, ServeDispose, ServeUpdateOrObtain,
       ServeMinOrMax, ServeNext, ServeCount, NoMemory, Answer, Client, Request, ClientTimeout,
       vars, mail
<1>3. \A i \in DOMAIN requests' : requests'[i].pid \in Clients
  <2>1. \A i \in DOMAIN requests : requests[i].pid \in Clients
    BY DEF RepliesInv
  <2>2. CASE ForwardRequest
    <3>1. requests # <<>> /\ requests' = Tail(requests)
      BY <2>2 DEF ForwardRequest
    <3>2. Holds(requests', requests)
      BY <1>1, <3>1, HoldsTaken
    <3> QED  BY <2>1, <3>2 DEF Holds
  <2>3. CASE \E d \in Clients, cmd \in ClientCmds, key \in Keys : Request(d, cmd, key)
    <3>1. PICK m : m.pid \in Clients /\ requests' = Append(requests, m)
      BY <2>3 DEF Request
    <3>2. HoldsOr(requests', requests, m)
      BY <1>1, <3>1, HoldsSent
    <3> QED  BY <2>1, <3>1, <3>2 DEF HoldsOr
  <2>4. CASE requests' = requests
    BY <2>1, <2>4
  <2> QED
    BY <2>2, <2>3, <2>4 DEF Next, Manager, ForwardAnswer, CountAnswer, CountTimeout,
       RedistributionLoop, RedistributionReturns, Local, BeginTransfer, TransferAnswer,
       TransferTimeout, Serve, ServeAdd, ServeDispose, ServeUpdateOrObtain,
       ServeMinOrMax, ServeNext, ServeCount, NoMemory, Answer, Client, SkipReply, AcceptReply,
       ClientTimeout, vars, mail
<1> QED  BY <1>2, <1>3 DEF RepliesInv

(* The first message of a mailbox is one of its messages.                  *)
LEMMA FirstHeld ==
  ASSUME NEW M, NEW box \in Seq(M), box # <<>>
  PROVE  \E i \in DOMAIN box : box[i] = Head(box)
BY PlacesLeft

(* A question for a count is no obstacle to the invariant.                 *)
LEMMA OwnCount ==
  ASSUME mgr'.wait \notin TransferWaits, NEW box,
         \A s \in Servers : \A i \in DOMAIN box[s] :
           box[s][i].pid = ManagerPid => box[s][i].cmd = "GET_RECORDS_CNT",
         \A s \in Servers : HoldsOr(inbox'[s], box[s], OwnMsg("GET_RECORDS_CNT"))
  PROVE  OwnInv'
BY DEF OwnInv, HoldsOr, OwnMsg

(* In a transfer something is always on its way, so none is given up.      *)
LEMMA NoEarlyEnd ==
  ASSUME TypeInv, TransferInv, Calm, Calm'
  PROVE  ~TransferTimeout
<1> SUFFICES ASSUME TransferTimeout  PROVE FALSE
  OBVIOUS
<1>1. mgr.wait \in TransferWaits /\ answers = <<>> /\ RunsOut(ServersSilent)
  BY DEF TransferTimeout
<1>2. timeouts = 0 /\ timeouts' = 0 /\ ServersSilent
  BY <1>1 DEF Calm, RunsOut
<1>3. rd.at \in {"left", "right"} /\ OnlyCommand
  BY <1>1 DEF TransferInv, Calm, OnlyAnswer
<1>4. Dest \in Servers
  BY <1>3, TransferEnds DEF Dest, TypeInv, TypeOK
<1>5. \E n : inbox[Dest] = <<n>>
  BY <1>3, <1>4 DEF OnlyCommand
<1> QED  BY <1>2, <1>4, <1>5, OneMessage DEF ServersSilent

(* What is the manager's own among the messages to the servers.            *)
LEMMA OwnInvManager ==
  ASSUME TypeInv, TransferInv, RepliesInv, OwnInv, Calm, Calm', Manager
  PROVE  OwnInv'
<1> USE DEF TypeInv, TypeOK
<1>1. /\ inbox \in [Servers -> Seq(Asking)] /\ requests \in Seq(Asking)
      /\ answers \in Seq(Answering)
  BY DEF MailType
<1>2. CASE ForwardRequest \/ ForwardAnswer
  <2>1. /\ mgr.wait \notin TransferWaits /\ mgr'.wait \notin TransferWaits
    BY <1>2 DEF ForwardRequest, ForwardAnswer, AtMain, CountChange, TransferWaits, MgrType
  <2> DEFINE only(box) == \A s \in Servers : \A i \in DOMAIN box[s] :
                 box[s][i].pid = ManagerPid => box[s][i].cmd = "GET_RECORDS_CNT"
  <2>2. only(inbox)
    BY <2>1 DEF OwnInv
  <2>3. PICK cmd, box : /\ CountChange(cmd, box) /\ box \in [Servers -> Seq(Asking)]
                        /\ only(box)
    <3>1. CASE ForwardAnswer
      BY <1>1, <2>2, <3>1 DEF ForwardAnswer
    <3>2. CASE ForwardRequest
      <4> DEFINE m == Head(requests)
                 b == [inbox EXCEPT ![Route(m.key)] = Append(@, m)]
      <4>1. CountChange(m.cmd, b) /\ requests # <<>>
        BY <3>2 DEF ForwardRequest
      <4>2. m \in Asking /\ m.pid # ManagerPid
        <5>1. \E i \in DOMAIN requests : requests[i] = m
          BY <1>1, <4>1, FirstHeld
        <5>2. m.pid \in Clients
          BY <5>1 DEF RepliesInv
        <5> QED  BY <1>1, <4>1, <5>2, Received, ManagerAssumption
      <4>3. b \in [Servers -> Seq(Asking)]
        BY <1>1, <4>2, SentTo
      <4>4. \A s \in Servers : HoldsOr(b[s], inbox[s], m)
        BY <1>1, HoldsInbox
      <4> HIDE DEF m, b
      <4>5. only(b)
        BY <2>2, <4>2, <4>4 DEF HoldsOr
      <4> QED  BY <4>1, <4>3, <4>5
    <3> QED  BY <1>2, <3>1, <3>2
  <2>4. \/ inbox' = box
        \/ inbox' = [box EXCEPT ![0] = Append(@, OwnMsg("GET_RECORDS_CNT"))]
    BY <2>3 DEF CountChange
  <2>5. \A s \in Servers : HoldsOr(inbox'[s], box[s], OwnMsg("GET_RECORDS_CNT"))
    BY <2>3, <2>4, HoldsInbox, HoldsSame
  <2> QED  BY <2>1, <2>3, <2>5, OwnCount
<1>3. CASE CountAnswer \/ CountTimeout \/ RedistributionLoop \/ RedistributionReturns
  <2>1. /\ mgr.wait \notin TransferWaits /\ mgr'.wait \notin TransferWaits
    BY <1>3 DEF CountAnswer, CountTimeout, RedistributionLoop, RedistributionReturns,
                Local, TransferWaits, MgrType
  <2>2. \/ inbox' = inbox
        \/ \E d : inbox' = [inbox EXCEPT ![d] = Append(@, OwnMsg("GET_RECORDS_CNT"))]
    BY <1>3 DEF CountAnswer, CountTimeout, RedistributionLoop, RedistributionReturns,
                Local, mail
  <2>3. \A s \in Servers : HoldsOr(inbox'[s], inbox[s], OwnMsg("GET_RECORDS_CNT"))
    BY <1>1, <2>2, HoldsInbox, HoldsSame
  <2>4. \A s \in Servers : \A i \in DOMAIN inbox[s] :
          inbox[s][i].pid = ManagerPid => inbox[s][i].cmd = "GET_RECORDS_CNT"
    BY <2>1 DEF OwnInv
  <2> QED  BY <2>1, <2>3, <2>4, OwnCount
<1>4. CASE BeginTransfer
  <2>1. ServersSilent /\ mgr'.wait = "obtain" /\ answers' = answers
    BY <1>4 DEF BeginTransfer, Calm, Send, MgrType
  <2> DEFINE m == [OwnMsg("OBTAIN_MIN") EXCEPT
                     !.cmd = IF rd.at = "left" THEN "OBTAIN_MIN" ELSE "OBTAIN_MAX"]
  <2>2. m.pid = ManagerPid /\ inbox' = [inbox EXCEPT ![From] = Append(@, m)]
    <3>1. m.pid = ManagerPid
      BY DEF OwnMsg
    <3> QED  BY <1>4, <3>1 DEF BeginTransfer, Send
  <2> HIDE DEF m
  <2>3. \A s \in Servers : HoldsOr(inbox'[s], inbox[s], m)
    BY <1>1, <2>2, HoldsInbox
  <2>4. DOMAIN answers' = {} /\ \A s \in Servers : DOMAIN inbox[s] = {}
    BY <2>1 DEF ServersSilent
  <2>5. \A s \in Servers : \A i \in DOMAIN inbox'[s] : inbox'[s][i].pid = ManagerPid
    BY <2>2, <2>3, <2>4 DEF HoldsOr
  <2> QED  BY <2>1, <2>4, <2>5 DEF OwnInv, TransferWaits
<1>5. CASE TransferAnswer
  <2> DEFINE m == Head(answers)
  <2>1. /\ answers # <<>> /\ answers' = Tail(answers)
        /\ ObtainAnswer(m) \/ NextAnswer(m) \/ AddAnswer(m) \/ DisposeAnswer
    BY <1>5 DEF TransferAnswer
  <2>2. mgr.wait \in TransferWaits
    BY <2>1 DEF ObtainAnswer, NextAnswer, AddAnswer, DisposeAnswer, TransferWaits
  <2>3. /\ \A i \in DOMAIN answers : answers[i].pid = ManagerPid
        /\ \A s \in Servers : \A i \in DOMAIN inbox[s] : inbox[s][i].pid = ManagerPid
    BY <2>2 DEF OwnInv
  <2>4. \A s \in Servers : inbox[s] = <<>>
    BY <2>1, <2>2 DEF TransferInv, Calm, OnlyCommand, OnlyAnswer
  <2>5. m.pid = ManagerPid /\ m \in Answering
    BY <1>1, <2>1, <2>3, FirstHeld, Received
  <2>6. \A cmd : [m EXCEPT !.cmd = cmd].pid = ManagerPid
    BY <2>5 DEF Answering, Msg
  <2>7. Holds(answers', answers)
    BY <1>1, <2>1, HoldsTaken
  <2> HIDE DEF m
  <2>8. \/ inbox' = inbox /\ mgr'.wait = "main"
        \/ /\ mgr'.wait \in TransferWaits
           /\ \E d, cmd : inbox' = [inbox EXCEPT ![d] = Append(@, [m EXCEPT !.cmd = cmd])]
    <3>1. \A w \in Waits : /\ [mgr EXCEPT !.wait = w].wait = w
                           /\ \A k : [mgr EXCEPT !.wait = w, !.newsep = k].wait = w
      BY DEF MgrType
    <3>2. {"main", "next", "add", "dispose"} \subseteq Waits
          /\ {"next", "add", "dispose"} \subseteq TransferWaits
      BY DEF Waits, TransferWaits
    <3> DEFINE sends(d, cmd, w) ==
                 /\ inbox' = [inbox EXCEPT ![d] = Append(@, [m EXCEPT !.cmd = cmd])]
                 /\ mgr'.wait = w
    <3>3. CASE ObtainAnswer(m) \/ NextAnswer(m) \/ AddAnswer(m)
      <4>1. \/ GiveUp
            \/ sends(From, "OBTAIN_NEXT", "next")
            \/ sends(To, "ADD", "add")
            \/ sends(From, "DISPOSE", "dispose")
        BY <3>1, <3>2, <3>3, ZenonT(40) DEF ObtainAnswer, NextAnswer, AddAnswer, Send
      <4>2. GiveUp => inbox' = inbox /\ mgr'.wait = "main"
        BY <3>1, <3>2 DEF GiveUp
      <4> QED  BY <3>2, <4>1, <4>2
    <3>4. CASE DisposeAnswer
      BY <3>1, <3>2, <3>4 DEF DisposeAnswer, SetSeparator
    <3> QED  BY <2>1, <3>3, <3>4
  <2>9. CASE inbox' = inbox /\ mgr'.wait = "main"
    BY <2>4, <2>9 DEF OwnInv, TransferWaits
  <2>10. CASE /\ mgr'.wait \in TransferWaits
              /\ \E d, cmd : inbox' = [inbox EXCEPT ![d] = Append(@, [m EXCEPT !.cmd = cmd])]
    <3>1. PICK n : /\ n.pid = ManagerPid
                   /\ \A s \in Servers : HoldsOr(inbox'[s], inbox[s], n)
      BY <1>1, <2>6, <2>10, HoldsInbox
    <3>2. \A s \in Servers : \A i \in DOMAIN inbox'[s] : inbox'[s][i].pid = ManagerPid
      BY <2>3, <3>1 DEF HoldsOr
    <3>3. \A i \in DOMAIN answers' : answers'[i].pid = ManagerPid
      BY <2>3, <2>7 DEF Holds
    <3> QED  BY <2>10, <3>2, <3>3 DEF OwnInv
  <2> QED  BY <2>8, <2>9, <2>10
<1>6. CASE TransferTimeout
  BY <1>6, NoEarlyEnd
<1> QED  BY <1>2, <1>3, <1>4, <1>5, <1>6 DEF Manager

(* A server answers in the name of who asked.                              *)
LEMMA OwnInvServe ==
  ASSUME TypeInv, OwnInv, NEW s \in Servers, Serve(s)
  PROVE  OwnInv'
<1> USE DEF TypeInv, TypeOK
<1> DEFINE m == Head(inbox[s])
<1>1. inbox \in [Servers -> Seq(Asking)] /\ answers \in Seq(Answering)
  BY DEF MailType
<1>2. /\ inbox[s] # <<>> /\ inbox' = [inbox EXCEPT ![s] = Tail(@)] /\ mgr' = mgr
  BY DEF Serve, ServeAdd, ServeDispose, ServeUpdateOrObtain, ServeMinOrMax, ServeNext,
         ServeCount, NoMemory, Serves, Answer
<1>3. \A t \in Servers : Holds(inbox'[t], inbox[t])
  BY <1>1, <1>2, HoldsInbox
<1>4. inbox[s] \in Seq(Asking) /\ m \in Asking /\ \E i \in DOMAIN inbox[s] : inbox[s][i] = m
  BY <1>1, <1>2, Received, FirstHeld
<1>5. \/ answers' = answers
      \/ \E status, key : answers' = Append(answers, [m EXCEPT !.status = status, !.key = key])
  BY DEF Serve, ServeAdd, ServeDispose, ServeUpdateOrObtain, ServeMinOrMax, ServeNext,
         ServeCount, NoMemory, Answer
<1>6. \A status, key : [m EXCEPT !.status = status, !.key = key].pid = m.pid
  BY <1>4 DEF Asking, Msg
<1> HIDE DEF m
<1>7. CASE mgr.wait \in TransferWaits
  <2>1. /\ \A i \in DOMAIN answers : answers[i].pid = ManagerPid
        /\ \A t \in Servers : \A i \in DOMAIN inbox[t] : inbox[t][i].pid = ManagerPid
    BY <1>7 DEF OwnInv
  <2>2. PICK n : n.pid = ManagerPid /\ HoldsOr(answers', answers, n)
    BY <1>1, <1>4, <1>5, <1>6, <2>1, HoldsSent, HoldsSame
  <2>3. \A i \in DOMAIN answers' : answers'[i].pid = ManagerPid
    BY <2>1, <2>2 DEF HoldsOr
  <2>4. \A t \in Servers : \A i \in DOMAIN inbox'[t] : inbox'[t][i].pid = ManagerPid
    BY <1>3, <2>1 DEF Holds
  <2> QED  BY <1>2, <1>7, <2>3, <2>4 DEF OwnInv
<1>8. CASE mgr.wait \notin TransferWaits
  <2>1. \A t \in Servers : \A i \in DOMAIN inbox[t] :
          inbox[t][i].pid = ManagerPid => inbox[t][i].cmd = "GET_RECORDS_CNT"
    BY <1>8 DEF OwnInv
  <2>2. \A t \in Servers : \A i \in DOMAIN inbox'[t] :
          inbox'[t][i].pid = ManagerPid => inbox'[t][i].cmd = "GET_RECORDS_CNT"
    BY <1>3, <2>1 DEF Holds
  <2> QED  BY <1>2, <1>8, <2>2 DEF OwnInv
<1> QED  BY <1>7, <1>8

-----------------------------------------------------------------------------
(* Nobody has sent anything.                                               *)
LEMMA MessagesInvInit ==
  ASSUME Init
  PROVE  MessagesInv
<1>1. OwnInv /\ RepliesInv
  BY DEF Init, OwnInv, RepliesInv, TransferWaits
<1>2. \A c \in Clients : ClientInv(c)
  BY DEF Init, ClientInv, Nowhere, NoneOf
<1> QED  BY <1>1, <1>2 DEF MessagesInv

(* Every step keeps the invariant.                                         *)
LEMMA MessagesInvStep ==
  ASSUME TypeInv, TransferInv, MessagesInv, [Next]_vars
  PROVE  MessagesInv'
<1>1. RepliesInv /\ RepliesInv'
  BY RepliesInvStep DEF MessagesInv
<1> SUFFICES ASSUME Calm'  PROVE OwnInv' /\ \A c \in Clients : ClientInv(c)'
  BY <1>1 DEF MessagesInv
<1>2. Calm
  BY HistoryStays DEF Calm
<1>3. OwnInv /\ \A c \in Clients : ClientInv(c)
  BY <1>2 DEF MessagesInv
<1>4. CASE Manager
  <2>1. OwnInv'
    BY <1>1, <1>2, <1>3, <1>4, OwnInvManager
  <2>2. ASSUME NEW c \in Clients  PROVE Kept(c)
    BY <1>3, <1>4, <2>2, MessagesManager
  <2> QED  BY <1>3, <2>1, <2>2, KeptInv
<1>5. CASE \E s \in Servers : Serve(s)
  <2>1. PICK s \in Servers : Serve(s)
    BY <1>5
  <2>2. ASSUME NEW c \in Clients  PROVE ClientInv(c)'
    <3>1. CASE Head(inbox[s]).pid = c
      <4>1. /\ Head(inbox[s]) = Sends(c, "CLIENT") /\ Stage(c, "CLIENT") /\ client' = client
            /\ \A status \in Done : Answer(s, status, client[c].key) => Stage(c, status)'
            /\ ServeAdd(s) \/ ServeDispose(s) \/ ServeUpdateOrObtain(s) \/ NoMemory(s)
        BY <1>3, <2>1, <2>2, <3>1, MessagesServe
      <4>2. Head(inbox[s]).key = client[c].key
        BY <4>1 DEF Sends
      <4>3. \E status \in Done : Stage(c, status)'
        BY <4>1, <4>2, ServeAnswers
      <4> QED  BY <4>3 DEF ClientInv, Stage, Done
    <3>2. CASE Head(inbox[s]).pid # c
      BY <1>3, <2>1, <2>2, <3>2, MessagesServe, KeptInv
    <3> QED  BY <3>1, <3>2
  <2> QED  BY <1>3, <2>1, <2>2, OwnInvServe
<1>6. CASE \E d \in Clients : Client(d)
  <2>1. UNCHANGED <<mgr, inbox, answers>>
    BY <1>6 DEF Client, Request, SkipReply, AcceptReply, ClientTimeout, mail
  <2>2. OwnInv'
    BY <1>3, <2>1 DEF OwnInv
  <2>3. timeouts' = 0
    BY DEF Calm
  <2>4. PICK d \in Clients : Client(d)
    BY <1>6
  <2>5. ASSUME NEW c \in Clients  PROVE ClientInv(c)'
    <3>1. CASE \E cmd \in ClientCmds, key \in Keys : Request(d, cmd, key)
      <4>1. IF c = d THEN Nowhere(c) /\ Stage(c, "CLIENT")' ELSE Kept(c)
        BY <1>1, <1>3, <2>5, <3>1, MessagesRequest
      <4>2. Stage(c, "CLIENT")' => ClientInv(c)'
        BY DEF ClientInv, Stage, Statuses
      <4> QED  BY <1>3, <4>1, <4>2, KeptInv
    <3>2. CASE SkipReply(d) \/ AcceptReply(d) \/ ClientTimeout(d)
      <4>1. IF c = d /\ AcceptReply(d)
            THEN ~client'[c].waiting /\ Nowhere(c)'
            ELSE c # d /\ Kept(c)
        BY <1>1, <1>3, <2>3, <2>5, <3>2, MessagesReply
      <4>2. ~client'[c].waiting /\ Nowhere(c)' => ClientInv(c)'
        BY DEF ClientInv
      <4> QED  BY <1>3, <4>1, <4>2, KeptInv
    <3> QED  BY <2>4, <3>1, <3>2 DEF Client
  <2> QED  BY <2>2, <2>5
<1>7. CASE UNCHANGED vars
  <2>1. UNCHANGED <<mgr, inbox, answers, requests, replies, client>>
    BY <1>7 DEF vars, mail
  <2>2. OwnInv'
    BY <1>3, <2>1 DEF OwnInv
  <2>3. \A c \in Clients : Kept(c)
    BY <2>1, ApartSame, ClientApart
  <2> QED  BY <1>3, <2>2, <2>3, KeptInv
<1> QED  BY <1>4, <1>5, <1>6, <1>7 DEF Next

-----------------------------------------------------------------------------
Held(box, c) == Cardinality({i \in DOMAIN box : box[i].pid = c})

(* Counting a mailbox's messages of client c.                              *)
LEMMA HeldCounts ==
  ASSUME NEW box, NEW c
  PROVE  /\ NoneOf(box, c) => Held(box, c) = 0
         /\ \A m : OneOf(box, c, m) => Held(box, c) = 1
<1> DEFINE S == {i \in DOMAIN box : box[i].pid = c}
<1>1. ASSUME NoneOf(box, c)  PROVE Held(box, c) = 0
  <2>1. S = {}
    BY <1>1 DEF NoneOf
  <2> QED  BY <2>1, FS_EmptySet DEF Held
<1>2. ASSUME NEW m, OneOf(box, c, m)  PROVE Held(box, c) = 1
  <2>1. PICK i \in DOMAIN box : box[i] = m /\ \A j \in DOMAIN box : box[j].pid = c => j = i
    BY <1>2 DEF OneOf
  <2>2. S = {i}
    BY <1>2, <2>1 DEF OneOf
  <2> QED  BY <2>2, FS_Singleton DEF Held
<1> QED  BY <1>1, <1>2

(* What is nowhere, or in one place only, adds up.                         *)
LEMMA InFlightCounts ==
  ASSUME NEW c \in Clients, ClientInv(c)
  PROVE  InFlight(c) = IF client[c].waiting THEN 1 ELSE 0
<1> DEFINE Own == [s \in Servers |-> Held(inbox[s], c)]
           Zero == [s \in Servers |-> 0]
<1>1. InFlight(c) = Held(requests, c) + Held(answers, c) + Held(replies[c], c) + Sum(Own)
  BY DEF InFlight, Held
<1>2. ASSUME \A s \in Servers : NoneOf(inbox[s], c)  PROVE Sum(Own) = 0
  <2>1. Own = Zero
    BY <1>2, HeldCounts
  <2> QED  BY <2>1, SumZero
<1>3. ASSUME Nowhere(c)  PROVE InFlight(c) = 0
  BY <1>1, <1>2, <1>3, HeldCounts DEF Nowhere
<1>4. ASSUME InRequests(c)  PROVE InFlight(c) = 1
  BY <1>1, <1>2, <1>4, HeldCounts DEF InRequests
<1>5. ASSUME NEW status, InAnswers(c, status)  PROVE InFlight(c) = 1
  BY <1>1, <1>2, <1>5, HeldCounts DEF InAnswers
<1>6. ASSUME NEW status, InReplies(c, status)  PROVE InFlight(c) = 1
  BY <1>1, <1>2, <1>6, HeldCounts DEF InReplies
<1>7. ASSUME NEW s \in Servers, InInbox(c, s)  PROVE InFlight(c) = 1
  <2>1. Held(inbox[s], c) = 1 /\ \A t \in Servers \ {s} : Held(inbox[t], c) = 0
    BY <1>7, HeldCounts DEF InInbox
  <2> DEFINE one == 1
  <2>2. /\ Own \in [Servers -> Int] /\ Zero \in [Servers -> Int] /\ one \in Int
        /\ \A t \in Servers : Own[t] = Zero[t] + (IF t = s THEN one ELSE 0)
    BY <2>1
  <2> HIDE DEF Own, Zero, one
  <2>3. Sum(Own) = Sum(Zero) + one
    BY <2>2, SumBump
  <2>4. Sum(Own) = 1
    BY <2>3, SumZero DEF Zero, one
  <2>5. Held(requests, c) = 0 /\ Held(answers, c) = 0 /\ Held(replies[c], c) = 0
    BY <1>7, HeldCounts DEF InInbox
  <2> QED  BY <1>1, <2>4, <2>5
<1> QED  BY <1>3, <1>4, <1>5, <1>6, <1>7 DEF ClientInv, Stage

(* The invariants the theorems below rest on, together.                    *)
LEMMA CalmInvariant ==
  /\ Init => TypeInv /\ TransferInv /\ MessagesInv
  /\ TypeInv /\ TransferInv /\ MessagesInv /\ [Next]_vars =>
       (TypeInv /\ TransferInv /\ MessagesInv)'
<1>1. ASSUME Init  PROVE TransferInv
  BY <1>1 DEF Init, TransferInv, TransferWaits
<1> QED
  BY <1>1, TypeInvInit, MessagesInvInit, TypeInvStep, TransferInvStep, MessagesInvStep

(* No command is lost or doubled on its way from the client over the       *)
(* manager to a server and back, for any number of each, as long as no     *)
(* wait runs out early: answers pass requests, redistributions come in     *)
(* between, and there is one message about each command all the while.     *)
THEOREM NoCommandLostOrDoubled == Spec => [](timeouts = 0 => OneMessagePerClient)
<1> DEFINE Inv == TypeInv /\ TransferInv /\ MessagesInv
<1>1. Init => Inv
  BY CalmInvariant
<1>2. Inv /\ [Next]_vars => Inv'
  BY CalmInvariant
<1>3. Inv => (timeouts = 0 => OneMessagePerClient)
  BY InFlightCounts DEF MessagesInv, Calm, OneMessagePerClient
<1> QED  BY <1>1, <1>2, <1>3, PTL DEF Spec

(* The answer a client accepts by its req_id is the answer to what it      *)
(* asked, for any number of clients and servers and whatever request       *)
(* number the counter wraps around to.                                     *)
THEOREM AnswersAreOwn == Spec => [](timeouts = 0 => AnswersMatch)
<1> DEFINE Inv == TypeInv /\ TransferInv /\ MessagesInv
<1>1. Init => Inv
  BY CalmInvariant
<1>2. Inv /\ [Next]_vars => Inv'
  BY CalmInvariant
<1>3. ASSUME Inv, timeouts = 0, ~crossed, NEW c \in Clients, replies[c] # <<>>
      PROVE  Head(replies[c]).cmd = client[c].cmd /\ Head(replies[c]).key = client[c].key
  <2>1. RepliesInv /\ ClientInv(c)
    BY <1>3 DEF MessagesInv, Calm
  <2>2. PICK status \in Done : Head(replies[c]) = Sends(c, status)
    BY <1>3, <2>1, FirstReply
  <2> QED  BY <2>2 DEF Sends
<1>4. Inv => (timeouts = 0 => AnswersMatch)
  BY <1>3 DEF AnswersMatch
<1> QED  BY <1>1, <1>2, <1>4, PTL DEF Spec

-----------------------------------------------------------------------------
(* The keys.                                                               *)

CalmInv == TypeInv /\ TransferInv /\ RoutingInv /\ MessagesInv

(* A command under way, as KeyMap sees it.                                 *)
Abstract(c, status) ==
  [at |-> IF status = "CLIENT" THEN "asked" ELSE "done",
   cmd |-> client[c].cmd, key |-> client[c].key, status |-> status]

-----------------------------------------------------------------------------
(* The messages of client c in a mailbox, as a set.                        *)
LEMMA OwnInBox ==
  ASSUME NEW box, NEW c
  PROVE  LET own == {m \in {box[i] : i \in DOMAIN box} : m.pid = c}
         IN  /\ NoneOf(box, c) => own = {}
             /\ \A m : OneOf(box, c, m) => own = {m}
<1> DEFINE own == {m \in {box[i] : i \in DOMAIN box} : m.pid = c}
<1>1. NoneOf(box, c) => own = {}
  BY DEF NoneOf
<1>2. ASSUME NEW m, OneOf(box, c, m)  PROVE own = {m}
  BY <1>2 DEF OneOf
<1> QED  BY <1>1, <1>2

(* While a command is under way, its one message shows how far it is.      *)
LEMMA StageShows ==
  \A c \in Clients : \A status \in Statuses :
    Stage(c, status) => OpOf(c) = Abstract(c, status)
<1> SUFFICES ASSUME NEW c \in Clients, NEW status \in Statuses, Stage(c, status)
             PROVE  OpOf(c) = Abstract(c, status)
  OBVIOUS
<1> DEFINE of(box) == {m \in {box[i] : i \in DOMAIN box} : m.pid = c}
           n == Sends(c, status)
<1>1. \A box : /\ NoneOf(box, c) => of(box) = {}
               /\ OneOf(box, c, n) => of(box) = {n}
  BY OwnInBox
<1>2. MessagesOf(c) = of(requests) \cup of(answers) \cup of(replies[c])
                      \cup UNION {of(inbox[s]) : s \in Servers}
  BY DEF MessagesOf
<1>3. n.cmd = client[c].cmd /\ n.key = client[c].key /\ n.status = status
  BY DEF Sends
<1> HIDE DEF of, n
<1>4. ASSUME InRequests(c), n = Sends(c, "CLIENT")  PROVE MessagesOf(c) = {n}
  BY <1>1, <1>2, <1>4 DEF InRequests
<1>5. ASSUME NEW s \in Servers, InInbox(c, s), n = Sends(c, "CLIENT")
      PROVE  MessagesOf(c) = {n}
  <2>1. of(inbox[s]) = {n} /\ \A t \in Servers \ {s} : of(inbox[t]) = {}
    BY <1>1, <1>5 DEF InInbox
  <2>2. UNION {of(inbox[t]) : t \in Servers} = {n}
    BY <2>1
  <2>3. of(requests) = {} /\ of(answers) = {} /\ of(replies[c]) = {}
    BY <1>1, <1>5 DEF InInbox
  <2> QED  BY <1>2, <2>2, <2>3
<1>6. ASSUME InAnswers(c, status)  PROVE MessagesOf(c) = {n}
  BY <1>1, <1>2, <1>6 DEF InAnswers, n
<1>7. ASSUME InReplies(c, status)  PROVE MessagesOf(c) = {n}
  BY <1>1, <1>2, <1>7 DEF InReplies, n
<1>8. client[c].waiting /\ MessagesOf(c) = {n}
  BY <1>4, <1>5, <1>6, <1>7 DEF Stage, n
<1>9. (CHOOSE m \in MessagesOf(c) : TRUE) = n
  BY <1>8
<1> QED  BY <1>3, <1>8, <1>9 DEF OpOf, Abstract

(* A client that waits for nothing has no operation under way.             *)
LEMMA IdleShows ==
  \A c \in Clients : ~client[c].waiting => OpOf(c) = [at |-> "idle"]
BY DEF OpOf

(* The same after a step.                                                  *)
LEMMA ShowsNext ==
  /\ \A c \in Clients : \A status \in Statuses :
       Stage(c, status)' => OpOf(c)' = Abstract(c, status)'
  /\ \A c \in Clients : ~client'[c].waiting => OpOf(c)' = [at |-> "idle"]
<1>1. (\A c \in Clients : \A status \in Statuses :
         Stage(c, status) => OpOf(c) = Abstract(c, status))'
  BY StageShows, PTL
<1>2. (\A c \in Clients : ~client[c].waiting => OpOf(c) = [at |-> "idle"])'
  BY IdleShows, PTL
<1> QED  BY <1>1, <1>2

(* Where a client and its message are left alone, so is its operation.     *)
LEMMA KeptShows ==
  ASSUME NEW c \in Clients, ClientInv(c), Kept(c)
  PROVE  OpOf(c)' = OpOf(c)
<1>1. client'[c] = client[c]
  BY DEF Kept
<1>2. \A status : Abstract(c, status)' = Abstract(c, status)
  BY <1>1 DEF Abstract
<1>3. CASE client[c].waiting
  <2>1. PICK status \in Statuses : Stage(c, status)
    BY <1>3 DEF ClientInv
  <2>2. Stage(c, status)'
    BY <2>1 DEF Kept
  <2> QED  BY <1>2, <2>1, <2>2, StageShows, ShowsNext
<1>4. CASE ~client[c].waiting
  BY <1>1, <1>4, IdleShows, ShowsNext
<1> QED  BY <1>3, <1>4

-----------------------------------------------------------------------------
(* Steps that neither move a key nor further a command do nothing at all.  *)
LEMMA NothingShows ==
  ASSUME Stored' = Stored, \A c \in Clients : ClientInv(c) /\ Kept(c)
  PROVE  UNCHANGED KM!vars
<1>1. \A c \in Clients : OpOf(c)' = OpOf(c)
  BY KeptShows
<1> QED  BY <1>1 DEF KM!vars

(* A step that furthers the command of one client.                         *)
LEMMA OneShows ==
  ASSUME NEW c \in Clients, NEW o, OpOf(c)' = o,
         \A d \in Clients \ {c} : ClientInv(d) /\ Kept(d)
  PROVE  [d \in Clients |-> OpOf(d)]' = [[d \in Clients |-> OpOf(d)] EXCEPT ![c] = o]
<1>1. \A d \in Clients \ {c} : OpOf(d)' = OpOf(d)
  BY KeptShows
<1> QED  BY <1>1

(* What a client asks is asked of the abstract set of keys.                *)
LEMMA RequestAsks ==
  ASSUME CalmInv, Calm, NEW c \in Clients, NEW cmd \in ClientCmds, NEW key \in Keys,
         Request(c, cmd, key)
  PROVE  KM!Ask(c, cmd, key)
<1>1. /\ TypeInv /\ RepliesInv /\ \A d \in Clients : ClientInv(d)
  BY DEF CalmInv, MessagesInv
<1>2. /\ ~client[c].waiting /\ store' = store
      /\ client'[c].cmd = cmd /\ client'[c].key = key
  BY <1>1 DEF Request, data, TypeInv, TypeOK, ClientType
<1>3. /\ Stage(c, "CLIENT")' /\ \A d \in Clients \ {c} : Kept(d)
  BY <1>1, MessagesRequest
<1>4. OpOf(c) = KM!NoOp
  BY <1>2, IdleShows DEF KM!NoOp
<1>5. OpOf(c)' = KM!Op("asked", cmd, key, "CLIENT")
  BY <1>2, <1>3, ShowsNext DEF KM!Op, Abstract, Statuses
<1>6. [d \in Clients |-> OpOf(d)]'
        = [[d \in Clients |-> OpOf(d)] EXCEPT ![c] = KM!Op("asked", cmd, key, "CLIENT")]
  BY <1>1, <1>3, <1>5, OneShows
<1>7. Stored' = Stored
  BY <1>2 DEF Stored
<1> QED  BY <1>4, <1>6, <1>7 DEF KM!Ask

(* The answer a client takes is what the abstract command returned.        *)
LEMMA ReplyReturns ==
  ASSUME CalmInv, Calm, timeouts' = 0, NEW c \in Clients,
         SkipReply(c) \/ AcceptReply(c) \/ ClientTimeout(c)
  PROVE  KM!Return(c)
<1>1. /\ TypeInv /\ RepliesInv /\ \A d \in Clients : ClientInv(d)
  BY DEF CalmInv, MessagesInv
<1>2. /\ AcceptReply(c) /\ ~client'[c].waiting
      /\ \A d \in Clients \ {c} : Kept(d)
  BY <1>1, MessagesReply
<1>3. replies[c] # <<>> /\ store' = store
  BY <1>2 DEF AcceptReply, data
<1>4. PICK status \in Done : Stage(c, status)
  BY <1>1, <1>3, FirstReply
<1>5. OpOf(c).at = "done"
  BY <1>4, StageShows DEF Abstract, Done
<1>6. OpOf(c)' = KM!NoOp
  BY <1>2, ShowsNext DEF KM!NoOp
<1>7. [d \in Clients |-> OpOf(d)]' = [[d \in Clients |-> OpOf(d)] EXCEPT ![c] = KM!NoOp]
  BY <1>1, <1>2, <1>6, OneShows
<1>8. Stored' = Stored
  BY <1>3 DEF Stored
<1> QED  BY <1>5, <1>7, <1>8 DEF KM!Return

(* A server performs a client's command on the whole set of keys, or       *)
(* refuses it: the key, if it is stored at all, is stored there.           *)
LEMMA ServePerforms ==
  ASSUME CalmInv, Undisturbed, NEW s \in Servers, Serve(s), NEW c \in Clients,
         Head(inbox[s]).pid = c
  PROVE  KM!Perform(c) \/ KM!Refuse(c)
<1> DEFINE key == client[c].key
           cmd == client[c].cmd
<1>1. /\ TypeInv /\ OwnInv /\ \A d \in Clients : ClientInv(d)
  BY DEF CalmInv, MessagesInv, Undisturbed, Calm
<1>2. /\ Stage(c, "CLIENT") /\ InInbox(c, s)
      /\ Head(inbox[s]) = Sends(c, "CLIENT") /\ client' = client
      /\ \A status \in Done : Answer(s, status, key) => Stage(c, status)'
      /\ ServeAdd(s) \/ ServeDispose(s) \/ ServeUpdateOrObtain(s) \/ NoMemory(s)
  BY <1>1, MessagesServe
<1>3. \A d \in Clients \ {c} : Kept(d)
  BY <1>1, MessagesServe
<1>4. /\ Head(inbox[s]).cmd = cmd /\ Head(inbox[s]).key = key
      /\ cmd \in KeyCmds /\ key \in Keys
  BY <1>2 DEF Sends, Stage
<1>5. PICK i \in DOMAIN inbox[s] : inbox[s][i] = Sends(c, "CLIENT")
  BY <1>2 DEF InInbox, OneOf
<1>6. mgr.wait \notin TransferWaits
  <2>1. inbox[s][i].pid = c /\ c # ManagerPid
    BY <1>5, ManagerAssumption DEF Sends
  <2> QED  BY <1>1, <2>1 DEF OwnInv
<1>7. AllPlaced /\ Within(s, key)
  <2>1. AllPlaced /\ Placed(inbox)
    BY <1>6 DEF CalmInv, RoutingInv
  <2>2. inbox[s][i].cmd \in KeyCmds /\ inbox[s][i].key = key
    BY <1>4, <1>5 DEF Sends
  <2> QED  BY <2>1, <2>2 DEF Placed
<1>8. \A t \in Servers : key \in store[t] => t = s
  BY <1>1, <1>4, <1>7, RouteUnique DEF AllPlaced, TypeInv, TypeOK
<1>9. store \in [Servers -> SUBSET Keys]
  BY <1>1 DEF TypeInv, TypeOK, DataType
<1>10. key \in Stored <=> key \in store[s]
  BY <1>8 DEF Stored
<1> DEFINE status == IF cmd = "ADD" THEN IF key \in Stored THEN "EXISTENT_KEY" ELSE "OK"
                                   ELSE IF key \in Stored THEN "OK" ELSE "NONEXISTENT_KEY"
<1>11. OpOf(c) = KM!Op("asked", cmd, key, "CLIENT")
  BY <1>2, StageShows DEF Abstract, KM!Op, Statuses
<1>12. OpOf(c).at = "asked" /\ OpOf(c).cmd = cmd /\ OpOf(c).key = key
  BY <1>11 DEF KM!Op
<1>13. ASSUME NEW answer \in Done, Answer(s, answer, key)
       PROVE  [d \in Clients |-> OpOf(d)]'
                = [[d \in Clients |-> OpOf(d)] EXCEPT ![c] = KM!Op("done", cmd, key, answer)]
  <2>1. Stage(c, answer)' /\ client' = client
    BY <1>2, <1>13
  <2> HIDE DEF key, cmd
  <2>2. OpOf(c)' = KM!Op("done", cmd, key, answer)
    BY <1>2, <1>13, <2>1, ShowsNext DEF Abstract, KM!Op, Done, key, cmd
  <2> QED  BY <1>1, <1>3, <2>2, OneShows
<1>14. CASE NoMemory(s)
  <2>1. Answer(s, "BAD_ALLOC", key) /\ "BAD_ALLOC" \in Done /\ Stored' = Stored
    BY <1>4, <1>14 DEF NoMemory, Done, Statuses, Stored, data
  <2>2. cmd \in {"ADD", "UPDATE"}
    BY <1>4, <1>14 DEF NoMemory, Serves
  <2> HIDE DEF key, cmd
  <2> QED  BY <1>12, <1>13, <2>1, <2>2 DEF KM!Refuse
<1>15. CASE ServeAdd(s) \/ ServeDispose(s) \/ ServeUpdateOrObtain(s)
  <2>1. Answer(s, status, key) /\ status \in Done
    BY <1>4, <1>10, <1>15
    DEF ServeAdd, ServeDispose, ServeUpdateOrObtain, Serves, Done, Statuses
  <2>2. Stored' = CASE cmd = "ADD"     -> Stored \cup {key}
                    [] cmd = "DISPOSE" -> Stored \ {key}
                    [] OTHER           -> Stored
    <3>1. CASE ServeAdd(s)
      <4>1. cmd = "ADD" /\ store' = [store EXCEPT ![s] = @ \cup {key}]
        BY <1>4, <1>9, <3>1 DEF ServeAdd, Serves, data
      <4>2. Stored' = Stored \cup {key}
        BY <1>9, <4>1 DEF Stored
      <4> QED  BY <4>1, <4>2
    <3>2. CASE ServeDispose(s)
      <4>1. cmd = "DISPOSE" /\ store' = [store EXCEPT ![s] = @ \ {key}]
        BY <1>4, <1>9, <3>2 DEF ServeDispose, Serves, data
      <4>2. Stored' = Stored \ {key}
        BY <1>8, <1>9, <4>1 DEF Stored
      <4> QED  BY <4>1, <4>2
    <3>3. CASE ServeUpdateOrObtain(s)
      BY <1>4, <3>3 DEF ServeUpdateOrObtain, Serves, data, Stored
    <3> QED  BY <1>15, <3>1, <3>2, <3>3
  <2> HIDE DEF key, cmd, status
  <2> QED  BY <1>12, <1>13, <2>1, <2>2 DEF KM!Perform, KM!Outcome, status
<1> QED  BY <1>2, <1>14, <1>15

(* The servers move keys between them, and the set stays the same.         *)
LEMMA ServeOwnKeeps ==
  ASSUME CalmInv, Calm, NEW s \in Servers, Serve(s), Head(inbox[s]).pid = ManagerPid
  PROVE  Stored' = Stored
<1>1. TypeInv /\ TransferInv /\ OwnInv /\ ~crossed
  BY DEF CalmInv, MessagesInv, Calm
<1>2. CASE mgr.wait \in TransferWaits
  BY <1>1, <1>2, ServedInTransfer
<1>3. CASE mgr.wait \notin TransferWaits
  <2>1. inbox[s] \in Seq(Asking) /\ inbox[s] # <<>>
    BY <1>1 DEF TypeInv, TypeOK, MailType, Serve, ServeAdd, ServeDispose,
       ServeUpdateOrObtain, ServeMinOrMax, ServeNext, ServeCount, NoMemory, Serves
  <2>2. PICK i \in DOMAIN inbox[s] : inbox[s][i] = Head(inbox[s])
    BY <2>1, FirstHeld
  <2>3. Head(inbox[s]).cmd = "GET_RECORDS_CNT"
    BY <1>1, <1>3, <2>2 DEF OwnInv
  <2>4. store' = store
    BY <2>3 DEF Serve, ServeAdd, ServeDispose, ServeUpdateOrObtain, ServeMinOrMax,
       ServeNext, ServeCount, NoMemory, Serves, data
  <2> QED  BY <2>4 DEF Stored
<1> QED  BY <1>2, <1>3

(* Every message to a server comes from a client or from the manager.      *)
LEMMA ServedPid ==
  ASSUME TypeInv, NEW s \in Servers, Serve(s)
  PROVE  Head(inbox[s]).pid \in Clients \cup {ManagerPid}
<1>1. inbox[s] \in Seq(Asking) /\ inbox[s] # <<>>
  BY DEF TypeInv, TypeOK, MailType, Serve, ServeAdd, ServeDispose, ServeUpdateOrObtain,
     ServeMinOrMax, ServeNext, ServeCount, NoMemory, Serves
<1>2. Head(inbox[s]) \in Asking
  BY <1>1, Received
<1> QED  BY <1>2 DEF Asking, Msg

(* Every step does what some step of KeyMap does, or nothing.              *)
LEMMA StepImplements ==
  ASSUME CalmInv, [Next]_vars, timeouts = 0, timeouts' = 0, ~wentLeft', ~crossed'
  PROVE  [KM!Next]_(KM!vars)
<1>1. Calm /\ Undisturbed
  BY HistoryStays DEF CalmInv, Calm, Undisturbed
<1>2. TypeInv /\ OwnInv /\ \A c \in Clients : ClientInv(c)
  BY <1>1 DEF CalmInv, MessagesInv
<1>3. CASE Manager
  <2>1. \A c \in Clients : Kept(c)
    BY <1>2, <1>3, MessagesManager
  <2>2. store' = store
    BY <1>3 DEF Manager, ForwardAnswer, ForwardRequest, CountAnswer, CountTimeout,
       RedistributionLoop, RedistributionReturns, Local, BeginTransfer, TransferAnswer,
       TransferTimeout, data
  <2>3. Stored' = Stored
    BY <2>2 DEF Stored
  <2> QED  BY <1>2, <2>1, <2>3, NothingShows
<1>4. CASE \E s \in Servers : Serve(s)
  <2>1. PICK s \in Servers : Serve(s)
    BY <1>4
  <2>2. CASE Head(inbox[s]).pid \in Clients
    <3>1. PICK c \in Clients : Head(inbox[s]).pid = c
      BY <2>2
    <3>2. KM!Perform(c) \/ KM!Refuse(c)
      BY <1>1, <2>1, <3>1, ServePerforms
    <3> QED  BY <3>2 DEF KM!Next
  <2>3. CASE Head(inbox[s]).pid \notin Clients
    <3>1. \A c \in Clients : Kept(c)
      BY <1>2, <2>1, <2>3, MessagesServe
    <3>2. Stored' = Stored
      BY <1>1, <1>2, <2>1, <2>3, ServedPid, ServeOwnKeeps
    <3> QED  BY <1>2, <3>1, <3>2, NothingShows
  <2> QED  BY <2>2, <2>3
<1>5. CASE \E c \in Clients : Client(c)
  <2>1. PICK c \in Clients : Client(c)
    BY <1>5
  <2>2. CASE \E cmd \in ClientCmds, key \in Keys : Request(c, cmd, key)
    <3>1. \E cmd \in ClientCmds, key \in Keys : KM!Ask(c, cmd, key)
      BY <1>1, <2>2, RequestAsks
    <3> QED  BY <3>1 DEF KM!Next
  <2>3. CASE SkipReply(c) \/ AcceptReply(c) \/ ClientTimeout(c)
    <3>1. KM!Return(c)
      BY <1>1, <2>3, ReplyReturns
    <3> QED  BY <3>1 DEF KM!Next
  <2> QED  BY <2>1, <2>2, <2>3 DEF Client
<1>6. CASE UNCHANGED vars
  <2>1. UNCHANGED <<store, client, requests, answers, replies, inbox>>
    BY <1>6 DEF vars, data, mail
  <2>2. \A c \in Clients : Kept(c)
    BY <2>1, ApartSame, ClientApart
  <2>3. Stored' = Stored
    BY <2>1 DEF Stored
  <2> QED  BY <1>2, <2>2, <2>3, NothingShows
<1> QED  BY <1>3, <1>4, <1>5, <1>6 DEF Next

(* Spread over any number of servers, routed by separators and moved while *)
(* clients use them, the keys behave as one set on which every command     *)
(* takes effect once: the manager, the servers and the clients implement   *)
(* KeyMap, when no wait runs out early.                                    *)
THEOREM ServersImplementKeyMap == Spec /\ [](timeouts = 0) => ImplementsKeyMap
<1>1. Init => CalmInv
  BY CalmInvariant, RoutingInvInit DEF CalmInv
<1>2. CalmInv /\ [Next]_vars => CalmInv'
  BY CalmInvariant, RoutingInvStep DEF CalmInv
<1>3. Init => KM!Init
  <2>1. ASSUME Init  PROVE Stored = {} /\ \A c \in Clients : OpOf(c) = KM!NoOp
    BY <2>1 DEF Init, Stored, OpOf, KM!NoOp
  <2> QED  BY <2>1 DEF KM!Init
<1>4. CalmInv /\ [Next]_vars /\ timeouts = 0 /\ (timeouts = 0)'
        => [KM!Next \/ wentLeft' \/ crossed']_(KM!vars)
  BY StepImplements
<1> QED  BY <1>1, <1>2, <1>3, <1>4, PTL DEF Spec, ImplementsKeyMap

-----------------------------------------------------------------------------
(* One client.                                                             *)

Threshold == ChangesPerServer * (1 + NServers)

(* The message of client c is with the servers or on its way back.         *)
Forwarded(c) ==
  ~(NoneOf(answers, c) /\ \A s \in Servers : NoneOf(inbox[s], c))

NoOwn == \A s \in Servers : NoneOf(inbox[s], ManagerPid)

(* The manager's question for a count is with one server, or answered.     *)
CountAsked ==
  \/ /\ counts = <<>>
     /\ \E s \in Servers :
          /\ OneOf(inbox[s], ManagerPid, OwnMsg("GET_RECORDS_CNT"))
          /\ \A t \in Servers \ {s} : NoneOf(inbox[t], ManagerPid)
  \/ counts # <<>> /\ Tail(counts) = <<>> /\ NoOwn

CountInv ==
  IF mgr.wait = "count" THEN CountAsked
  ELSE counts = <<>> /\ (mgr.wait = "main" => NoOwn)

(* An odd number of changes was counted while a change is under way, and   *)
(* nothing is under way while the manager is not in its main loop.         *)
ParityInv(c) ==
  /\ changes \in 0 .. Threshold - 1
  /\ changes % 2 = IF Forwarded(c) /\ client[c].cmd \in DataChanges THEN 1 ELSE 0
  /\ ~AtMain => ~Forwarded(c)
  /\ mgr.wait \notin TransferWaits => NoneOf(answers, ManagerPid)

AloneInv(c) ==
  timeouts = 0 => ~crossed /\ CountInv /\ ParityInv(c)

(* The inductive invariant, with what it rests on.                         *)
AloneAll(c) == CalmInv /\ AloneInv(c)

-----------------------------------------------------------------------------
(* The threshold is a number of changes.                                   *)
LEMMA ThresholdType == Threshold \in Nat \ {0}
<1>1. ChangesPerServer \in Nat \ {0} /\ 1 + NServers \in Nat \ {0}
  BY ManagerAssumption, NServersAssumption
<1>2. \A a, b \in Nat \ {0} : a * b \in Nat \ {0}
  OBVIOUS
<1> QED  BY <1>1, <1>2 DEF Threshold

(* A message in a mailbox comes from the one client or from the manager.   *)
LEMMA FromEither ==
  ASSUME NEW c, Clients = {c}, NEW box, box \in Seq(Asking) \/ box \in Seq(Answering),
         NoneOf(box, c), NoneOf(box, ManagerPid)
  PROVE  box = <<>>
<1> SUFFICES ASSUME box # <<>>  PROVE FALSE
  OBVIOUS
<1>1. 1 \in DOMAIN box /\ box[1] \in Asking \cup Answering
  OBVIOUS
<1>2. box[1].pid \in {c, ManagerPid}
  BY <1>1 DEF Asking, Answering, Msg
<1> QED  BY <1>1, <1>2 DEF NoneOf

(* The manager asks a server for its count.                                *)
LEMMA AskedNow ==
  ASSUME inbox \in [Servers -> Seq(Asking)], NoOwn, NEW d \in Servers, counts' = <<>>,
         inbox' = [inbox EXCEPT ![d] = Append(@, OwnMsg("GET_RECORDS_CNT"))]
  PROVE  CountAsked'
<1> DEFINE m == OwnMsg("GET_RECORDS_CNT")
<1>1. inbox'[d] = Append(inbox[d], m) /\ inbox[d] \in Seq(Asking) /\ m' = m
  BY DEF OwnMsg
<1>2. m.pid = ManagerPid /\ NoneOf(inbox[d], ManagerPid)
  BY DEF OwnMsg, NoOwn
<1>3. OneOf(inbox'[d], ManagerPid, m)
  BY <1>1, <1>2, OneSent
<1>4. \A t \in Servers \ {d} : NoneOf(inbox'[t], ManagerPid)
  BY DEF NoOwn
<1> QED  BY <1>1, <1>3, <1>4 DEF CountAsked

(* The client is in a position to ask only when nothing is under way.      *)
LEMMA ForwardedInv ==
  ASSUME NEW c \in Clients, ClientInv(c), Forwarded(c)
  PROVE  /\ client[c].cmd \in KeyCmds /\ NoneOf(requests, c)
         /\ \/ \E s \in Servers : InInbox(c, s)
            \/ \E status \in Done : InAnswers(c, status)
BY DEF ClientInv, Nowhere, Stage, InRequests, InInbox, InAnswers, InReplies, Forwarded

-----------------------------------------------------------------------------
(* What the client does counts for nothing.                                *)
LEMMA AloneClient ==
  ASSUME NEW c \in Clients, Clients = {c}, AloneAll(c), Calm, Calm', Client(c)
  PROVE  AloneInv(c)'
<1>1. /\ TypeInv /\ RepliesInv /\ ClientInv(c) /\ CountInv /\ ParityInv(c)
      /\ \A d \in Clients : ClientInv(d)
  BY DEF AloneAll, CalmInv, AloneInv, MessagesInv, Calm
<1>2. UNCHANGED <<inbox, answers, counts, mgr, rd, changes, crossed>>
  BY DEF Client, Request, SkipReply, AcceptReply, ClientTimeout, mail, history
<1>3. CountInv'
  BY <1>1, <1>2 DEF CountInv, CountAsked, NoOwn
<1>4. ~Forwarded(c)
  <2>1. CASE \E cmd \in ClientCmds, key \in Keys : Request(c, cmd, key)
    BY <1>1, <2>1, MessagesRequest DEF Nowhere, Forwarded
  <2>2. CASE SkipReply(c) \/ AcceptReply(c) \/ ClientTimeout(c)
    <3>1. AcceptReply(c)
      BY <1>1, <2>2, MessagesReply DEF Calm
    <3>2. replies[c] # <<>>
      BY <3>1 DEF AcceptReply
    <3> QED  BY <1>1, <3>2, FirstReply DEF Forwarded
  <2> QED  BY <2>1, <2>2 DEF Client
<1>5. Forwarded(c)' = Forwarded(c) /\ AtMain' = AtMain
  BY <1>2 DEF Forwarded, AtMain, Running
<1>6. ParityInv(c)'
  BY <1>1, <1>2, <1>4, <1>5 DEF ParityInv
<1> QED  BY <1>2, <1>3, <1>6 DEF AloneInv, Calm

(* A command or an answer is counted.                                      *)
LEMMA AloneForwardRequest ==
  ASSUME NEW c \in Clients, Clients = {c}, Threshold % 2 = 0, AloneAll(c), Calm, Calm',
         ForwardRequest
  PROVE  AloneInv(c)'
<1> DEFINE m == Head(requests)
           box == [inbox EXCEPT ![Route(m.key)] = Append(@, m)]
<1>1. /\ TypeInv /\ RepliesInv /\ ClientInv(c) /\ CountInv /\ ParityInv(c)
  BY DEF AloneAll, CalmInv, AloneInv, MessagesInv, Calm
<1>2. /\ requests # <<>> /\ CountChange(m.cmd, box) /\ AtMain
      /\ UNCHANGED <<answers, counts, rd, client, crossed>>
  BY DEF ForwardRequest, history
<1>3. /\ requests \in Seq(Asking) /\ inbox \in [Servers -> Seq(Asking)]
      /\ MgrType
  BY <1>1 DEF TypeInv, TypeOK, MailType
<1>4. m.pid = c /\ m.pid # ManagerPid
  <2>1. PICK i \in DOMAIN requests : requests[i] = m
    BY <1>2, <1>3, FirstHeld
  <2> QED  BY <1>1, <2>1, ManagerAssumption DEF RepliesInv
<1>5. ~NoneOf(requests, c)
  BY <1>2, <1>3, <1>4, OneSeen
<1>6. ~Forwarded(c)
  BY <1>1, <1>5, ForwardedInv
<1>7. OneOf(requests, c, Sends(c, "CLIENT"))
      /\ client[c].cmd \in KeyCmds /\ client[c].key \in Keys
  BY <1>1, <1>5 DEF ClientInv, Nowhere, Stage, InRequests, InInbox, InAnswers, InReplies
<1>8. m = Sends(c, "CLIENT")
  BY <1>2, <1>3, <1>4, <1>7, OneTaken
<1>9. m.cmd = client[c].cmd /\ m.key \in Keys
  BY <1>7, <1>8 DEF Sends
<1>10. PICK s \in Servers : s = Route(m.key)
  BY <1>3, <1>9, RouteExists
<1> DEFINE due == changes + (IF m.cmd \in DataChanges THEN 1 ELSE 0) >= Threshold
<1>11. ~due
  <2>1. changes \in Int /\ changes % 2 = 0 /\ changes < Threshold /\ Threshold \in Int
    BY <1>1, <1>6, ThresholdType DEF ParityInv
  <2> QED  BY <2>1
<1>12. /\ inbox' = box /\ mgr' = mgr
       /\ changes' = changes + (IF m.cmd \in DataChanges THEN 1 ELSE 0)
  BY <1>2, <1>11 DEF CountChange, Threshold
<1>13. Forwarded(c)'
  <2>1. inbox'[s] = Append(inbox[s], m) /\ inbox[s] \in Seq(Asking)
    BY <1>3, <1>10, <1>12
  <2>2. Len(inbox[s]) + 1 \in DOMAIN inbox'[s] /\ inbox'[s][Len(inbox[s]) + 1] = m
    BY <2>1
  <2>3. ~NoneOf(inbox'[s], c)
    BY <1>4, <2>2 DEF NoneOf
  <2> QED  BY <2>3 DEF Forwarded
<1>14. AtMain' /\ mgr.wait = "main"
  BY <1>2, <1>12 DEF AtMain, Running
<1>15. NoOwn'
  <2>1. \A t \in Servers : Apart(inbox[t], box[t], ManagerPid)
    BY <1>3, <1>4, ApartInbox
  <2> HIDE DEF m, box
  <2> QED  BY <1>1, <1>12, <1>14, <2>1 DEF CountInv, NoOwn, Apart
<1>16. CountInv'
  BY <1>1, <1>2, <1>12, <1>14, <1>15 DEF CountInv
<1>17. ParityInv(c)'
  <2>1. /\ changes \in 0 .. Threshold - 1 /\ changes % 2 = 0
        /\ NoneOf(answers, ManagerPid)
    BY <1>1, <1>6, <1>14 DEF ParityInv, TransferWaits
  <2>2. changes' \in 0 .. Threshold - 1
    BY <1>11, <1>12, <2>1, ThresholdType
  <2>3. changes' % 2 = IF m.cmd \in DataChanges THEN 1 ELSE 0
    BY <1>12, <2>1
  <2> QED  BY <1>2, <1>9, <1>13, <1>14, <2>1, <2>2, <2>3 DEF ParityInv
<1> QED  BY <1>2, <1>16, <1>17 DEF AloneInv, Calm

(* Passing on an answer keeps the invariant of the one client: the change  *)
(* that was open is closed, or the count it makes due is begun.            *)
LEMMA AloneForwardAnswer ==
  ASSUME NEW c \in Clients, Clients = {c}, Threshold % 2 = 0, AloneAll(c), Calm, Calm',
         ForwardAnswer
  PROVE  AloneInv(c)'
<1> DEFINE m == Head(answers)
<1>1. /\ TypeInv /\ ClientInv(c) /\ CountInv /\ ParityInv(c)
  BY DEF AloneAll, CalmInv, AloneInv, MessagesInv, Calm
<1>2. /\ answers # <<>> /\ answers' = Tail(answers)
      /\ CountChange(m.cmd, inbox) /\ AtMain
      /\ UNCHANGED <<counts, rd, client, crossed>>
  BY DEF ForwardAnswer, history
<1>3. /\ answers \in Seq(Answering) /\ inbox \in [Servers -> Seq(Asking)]
      /\ MgrType /\ m \in Answering
  BY <1>1, <1>2, Received DEF TypeInv, TypeOK, MailType
<1>4. mgr.wait = "main" /\ NoneOf(answers, ManagerPid) /\ NoOwn /\ counts = <<>>
  BY <1>1, <1>2 DEF AtMain, ParityInv, CountInv, TransferWaits
<1>5. m.pid = c
  <2>1. m.pid # ManagerPid
    BY <1>2, <1>3, <1>4, OneSeen
  <2> QED  BY <1>3, <2>1 DEF Answering, Msg
<1>6. ~NoneOf(answers, c)
  BY <1>2, <1>3, <1>5, OneSeen
<1>7. Forwarded(c)
  BY <1>6 DEF Forwarded
<1>8. PICK status \in Done : InAnswers(c, status)
  BY <1>1, <1>6, <1>7, ForwardedInv DEF InInbox
<1>9. m = Sends(c, status) /\ NoneOf(Tail(answers), c)
  <2>1. OneOf(answers, c, Sends(c, status))
    BY <1>8 DEF InAnswers
  <2>2. m = Sends(c, status)
    BY <1>2, <1>3, <1>5, <2>1, OneTaken
  <2>3. NoneOf(Tail(answers), c)
    BY <1>2, <1>3, <1>5, <2>1, OneTaken
  <2> QED  BY <2>2, <2>3
<1>10. m.cmd = client[c].cmd
  BY <1>9 DEF Sends
<1>11. /\ changes \in 0 .. Threshold - 1
       /\ changes % 2 = IF m.cmd \in DataChanges THEN 1 ELSE 0
  BY <1>1, <1>7, <1>10 DEF ParityInv
<1>12. \A s \in Servers : NoneOf(inbox'[s], c)
  <2>1. \A s \in Servers : NoneOf(inbox[s], c)
    BY <1>8 DEF InAnswers
  <2>2. \A s \in Servers : Apart(inbox[s], inbox'[s], c)
    BY <1>2, <1>3, CountChangeApart
  <2> QED  BY <2>1, <2>2 DEF Apart
<1>13. ~Forwarded(c)'
  BY <1>2, <1>9, <1>12 DEF Forwarded
<1>14. NoneOf(answers', ManagerPid)
  <2>1. m.pid # ManagerPid
    BY <1>5, ManagerAssumption
  <2> QED  BY <1>2, <1>3, <1>4, <2>1, ApartTaken DEF Apart
<1> DEFINE changed == changes + (IF m.cmd \in DataChanges THEN 1 ELSE 0)
<1>15. changed \in 0 .. Threshold /\ changed % 2 = 0
  BY <1>11, ThresholdType
<1> HIDE DEF m
<1>16. CASE changed >= Threshold
  <2>1. /\ inbox' = [inbox EXCEPT ![0] = Append(@, OwnMsg("GET_RECORDS_CNT"))]
        /\ mgr'.wait = "count" /\ changes' = 0
    BY <1>2, <1>3, <1>16 DEF CountChange, Threshold, MgrType
  <2>2. CountAsked'
    <3>1. PICK d \in Servers : d = 0
      BY NServersAssumption DEF Servers
    <3> QED  BY <1>2, <1>3, <1>4, <2>1, <3>1, AskedNow
  <2>3. changes' \in 0 .. Threshold - 1 /\ changes' % 2 = 0
    BY <2>1, ThresholdType
  <2>4. ParityInv(c)'
    BY <1>13, <1>14, <2>3 DEF ParityInv
  <2> QED  BY <1>2, <2>1, <2>2, <2>4 DEF AloneInv, CountInv, Calm
<1>17. CASE ~(changed >= Threshold)
  <2>1. inbox' = inbox /\ mgr' = mgr /\ changes' = changed
    BY <1>2, <1>17 DEF CountChange, Threshold
  <2>2. CountInv'
    BY <1>2, <1>4, <2>1 DEF CountInv, NoOwn
  <2> HIDE DEF changed
  <2>3. changes' \in 0 .. Threshold - 1
    BY <1>15, <1>17, <2>1, ThresholdType
  <2>4. ParityInv(c)'
    BY <1>13, <1>14, <1>15, <2>1, <2>3 DEF ParityInv
  <2> QED  BY <1>2, <2>2, <2>4 DEF AloneInv, Calm
<1> QED  BY <1>16, <1>17

-----------------------------------------------------------------------------
(* The manager counts, and moves keys, while nothing else is under way.    *)
LEMMA AloneCount ==
  ASSUME NEW c \in Clients, Clients = {c}, AloneAll(c), Calm, Calm',
         CountAnswer \/ CountTimeout
  PROVE  AloneInv(c)'
<1>1. /\ TypeInv /\ CountInv /\ ParityInv(c)
  BY DEF AloneAll, CalmInv, AloneInv, Calm
<1>2. /\ mgr.wait = "count" /\ ~Forwarded(c) /\ CountAsked
      /\ NoneOf(answers, ManagerPid)
  BY <1>1 DEF CountAnswer, CountTimeout, CountInv, ParityInv, AtMain, TransferWaits
<1>3. /\ inbox \in [Servers -> Seq(Asking)] /\ MgrType
  BY <1>1 DEF TypeInv, TypeOK, MailType
<1>4. ~CountTimeout
  <2> SUFFICES ASSUME CountTimeout  PROVE FALSE
    OBVIOUS
  <2>1. counts = <<>> /\ \A s \in Servers : inbox[s] = <<>>
    BY DEF CountTimeout, RunsOut, Calm
  <2>2. PICK s \in Servers : OneOf(inbox[s], ManagerPid, OwnMsg("GET_RECORDS_CNT"))
    BY <1>2, <2>1 DEF CountAsked
  <2>3. inbox[s] \in Seq(Asking)
    BY <1>3
  <2> QED  BY <2>1, <2>2, <2>3, OneSeen
<1>5. /\ CountAnswer /\ counts # <<>> /\ counts' = Tail(counts)
      /\ UNCHANGED <<answers, changes, client, crossed>>
  BY <1>4 DEF CountAnswer, history
<1>6. NoOwn /\ counts' = <<>>
  BY <1>2, <1>5 DEF CountAsked
<1>7. Kept(c) /\ \A s \in Servers : Apart(inbox[s], inbox'[s], c)
  <2>1. \/ inbox' = inbox
        \/ \E d : inbox' = [inbox EXCEPT ![d] = Append(@, OwnMsg("GET_RECORDS_CNT"))]
    BY <1>5 DEF CountAnswer
  <2>2. \A s \in Servers : Apart(inbox[s], inbox'[s], c)
    BY <1>3, <2>1, OwnApart, ApartSame
  <2> QED  BY <1>1, <1>5, <2>2, MessagesElsewhere
<1>8. ~Forwarded(c)'
  BY <1>2, <1>5, <1>7 DEF Forwarded, Apart
<1>9. ParityInv(c)'
  BY <1>1, <1>2, <1>5, <1>8 DEF ParityInv
<1>10. CountInv'
  <2> DEFINE next == mgr.asked + 1
  <2>1. CASE next < NServers
    <3>1. /\ inbox' = [inbox EXCEPT ![next] = Append(@, OwnMsg("GET_RECORDS_CNT"))]
          /\ mgr'.wait = "count"
      BY <1>2, <1>3, <1>5, <2>1 DEF CountAnswer, MgrType
    <3>2. next \in Servers
      BY <1>3, <2>1, NServersAssumption, SMTT(30) DEF MgrType, Servers
    <3> HIDE DEF next
    <3>3. CountAsked'
      BY <1>3, <1>6, <3>1, <3>2, AskedNow
    <3> QED  BY <3>1, <3>3 DEF CountInv
  <2>2. CASE ~(next < NServers)
    <3>1. inbox' = inbox /\ mgr'.wait = "main"
      BY <1>3, <1>5, <2>2 DEF CountAnswer, MgrType
    <3> QED  BY <1>6, <3>1 DEF CountInv, NoOwn
  <2> QED  BY <2>1, <2>2
<1> QED  BY <1>5, <1>9, <1>10 DEF AloneInv, Calm

(* The steps of the loop of a redistribution send and take nothing.        *)
LEMMA AloneLoop ==
  ASSUME NEW c \in Clients, Clients = {c}, AloneAll(c), Calm, Calm',
         RedistributionLoop \/ RedistributionReturns
  PROVE  AloneInv(c)'
<1>1. /\ CountInv /\ ParityInv(c)
  BY DEF AloneAll, CalmInv, AloneInv, Calm
<1>2. UNCHANGED <<inbox, answers, counts, mgr, changes, client, crossed>>
  BY DEF RedistributionLoop, RedistributionReturns, Local, mail, history
<1>3. Running
  BY DEF RedistributionLoop, RedistributionReturns, LoopStep, SkipDeficit, BeginLeft,
     NoLeft, NextLeftHop, EndLeft, BeginRight, NoRight, EndRight, Finished, Running
<1>4. ~Forwarded(c)
  BY <1>1, <1>3 DEF ParityInv, AtMain
<1>5. ~Forwarded(c)'
  BY <1>2, <1>4 DEF Forwarded
<1>6. CountInv'
  BY <1>1, <1>2 DEF CountInv, CountAsked, NoOwn
<1>7. ParityInv(c)'
  BY <1>1, <1>2, <1>4, <1>5 DEF ParityInv
<1> QED  BY <1>2, <1>6, <1>7 DEF AloneInv, Calm

(* Nothing of the client's and nothing of the manager's own: nothing.      *)
LEMMA AloneBegin ==
  ASSUME NEW c \in Clients, Clients = {c}, AloneAll(c), ~crossed, timeouts = 0, BeginTransfer
  PROVE  AloneInv(c)' /\ ~crossed'
<1>1. /\ TypeInv /\ CountInv /\ ParityInv(c)
  BY DEF AloneAll, CalmInv, AloneInv
<1>2. /\ mgr.wait = "main" /\ Running
      /\ UNCHANGED <<answers, counts, changes, client>>
      /\ crossed' = (crossed \/ ~ServersSilent)
  BY DEF BeginTransfer, WantsTransfer, Running
<1>3. /\ inbox \in [Servers -> Seq(Asking)] /\ answers \in Seq(Answering) /\ MgrType
  BY <1>1 DEF TypeInv, TypeOK, MailType
<1>4. ~Forwarded(c) /\ NoOwn /\ counts = <<>> /\ NoneOf(answers, ManagerPid)
  BY <1>1, <1>2 DEF ParityInv, AtMain, CountInv, TransferWaits
<1>5. ServersSilent
  <2>1. answers = <<>>
    BY <1>3, <1>4, FromEither DEF Forwarded
  <2>2. ASSUME NEW s \in Servers  PROVE inbox[s] = <<>>
    <3>1. inbox[s] \in Seq(Asking) /\ NoneOf(inbox[s], c) /\ NoneOf(inbox[s], ManagerPid)
      BY <1>3, <1>4 DEF Forwarded, NoOwn
    <3> QED  BY <3>1, FromEither
  <2> QED  BY <2>1, <2>2 DEF ServersSilent
<1>6. \A s \in Servers : Apart(inbox[s], inbox'[s], c)
  <2> DEFINE cmd == IF rd.at = "left" THEN "OBTAIN_MIN" ELSE "OBTAIN_MAX"
  <2>1. [OwnMsg("OBTAIN_MIN") EXCEPT !.cmd = cmd] = OwnMsg(cmd)
    BY DEF OwnMsg
  <2>2. inbox' = [inbox EXCEPT ![From] = Append(@, OwnMsg(cmd))]
    BY <2>1 DEF BeginTransfer, Send
  <2> QED  BY <1>3, <2>2, OwnApart
<1>7. ~Forwarded(c)'
  BY <1>2, <1>4, <1>6 DEF Forwarded, Apart
<1>8. mgr'.wait = "obtain"
  BY <1>3 DEF BeginTransfer, Send, MgrType
<1>9. CountInv'
  BY <1>2, <1>4, <1>8 DEF CountInv
<1>10. ParityInv(c)'
  BY <1>1, <1>2, <1>4, <1>7, <1>8 DEF ParityInv, TransferWaits
<1> QED  BY <1>2, <1>5, <1>9, <1>10 DEF AloneInv

(* The answers of a transfer are the manager's own, and so is what it      *)
(* sends next; with the last one it is back in its loop.                   *)
LEMMA AloneTransfer ==
  ASSUME NEW c \in Clients, Clients = {c}, AloneAll(c), Calm, Calm', TransferAnswer, OwnInv'
  PROVE  AloneInv(c)'
<1> DEFINE m == Head(answers)
<1>1. /\ TypeInv /\ TransferInv /\ CountInv /\ ParityInv(c)
  BY DEF AloneAll, CalmInv, AloneInv, Calm
<1>2. /\ answers # <<>> /\ answers' = Tail(answers)
      /\ UNCHANGED <<counts, changes, client, crossed>>
      /\ ObtainAnswer(m) \/ NextAnswer(m) \/ AddAnswer(m) \/ DisposeAnswer
  BY DEF TransferAnswer, history
<1>3. mgr.wait \in TransferWaits /\ mgr.wait \notin {"main", "count"} /\ MgrType
  BY <1>1, <1>2
     DEF ObtainAnswer, NextAnswer, AddAnswer, DisposeAnswer, TransferWaits, TypeInv, TypeOK
<1>4. ~Forwarded(c) /\ counts = <<>>
  BY <1>1, <1>3 DEF ParityInv, AtMain, CountInv
<1>5. answers' = <<>> /\ \A s \in Servers : inbox[s] = <<>>
  BY <1>1, <1>2, <1>3, OneMessage DEF TransferInv, Calm, OnlyCommand, OnlyAnswer
<1> HIDE DEF m
<1>6. \/ mgr'.wait \in TransferWaits
      \/ mgr'.wait = "main" /\ inbox' = inbox
  <2>1. \A w \in Waits : /\ [mgr EXCEPT !.wait = w].wait = w
                         /\ \A k : [mgr EXCEPT !.wait = w, !.newsep = k].wait = w
    BY <1>3 DEF MgrType
  <2>2. {"main", "next", "add", "dispose"} \subseteq Waits
        /\ {"next", "add", "dispose"} \subseteq TransferWaits
    BY DEF Waits, TransferWaits
  <2>3. CASE ObtainAnswer(m) \/ NextAnswer(m) \/ AddAnswer(m)
    <3>1. GiveUp \/ mgr'.wait \in {"next", "add", "dispose"}
      BY <2>1, <2>2, <2>3 DEF ObtainAnswer, NextAnswer, AddAnswer, Send
    <3>2. GiveUp => inbox' = inbox /\ mgr'.wait = "main"
      BY <2>1, <2>2 DEF GiveUp
    <3> QED  BY <2>2, <3>1, <3>2
  <2>4. CASE DisposeAnswer
    BY <2>1, <2>2, <2>4 DEF DisposeAnswer, SetSeparator
  <2> QED  BY <1>2, <2>3, <2>4
<1>7. \A s \in Servers : NoneOf(inbox'[s], c)
  <2>1. CASE mgr'.wait \in TransferWaits
    BY <2>1, ManagerAssumption DEF OwnInv, NoneOf
  <2>2. CASE mgr'.wait = "main" /\ inbox' = inbox
    BY <1>5, <2>2 DEF NoneOf
  <2> QED  BY <1>6, <2>1, <2>2
<1>8. ~Forwarded(c)' /\ NoneOf(answers', ManagerPid)
  BY <1>5, <1>7 DEF Forwarded, NoneOf
<1>9. CountInv'
  <2>1. inbox' = inbox => NoOwn'
    BY <1>5 DEF NoOwn, NoneOf
  <2>2. "main" \notin TransferWaits /\ "count" \notin TransferWaits
    BY DEF TransferWaits
  <2> QED  BY <1>2, <1>4, <1>6, <2>1, <2>2 DEF CountInv
<1>10. ParityInv(c)'
  BY <1>1, <1>2, <1>4, <1>8 DEF ParityInv
<1> QED  BY <1>2, <1>9, <1>10 DEF AloneInv, Calm

-----------------------------------------------------------------------------
(* A server answers, and what is under way stays under way.                *)
LEMMA AloneServe ==
  ASSUME NEW c \in Clients, Clients = {c}, AloneAll(c), Calm, Calm', OwnInv',
         NEW s \in Servers, Serve(s)
  PROVE  AloneInv(c)'
<1> DEFINE m == Head(inbox[s])
<1>1. /\ TypeInv /\ TransferInv /\ OwnInv /\ CountInv /\ ParityInv(c)
      /\ \A d \in Clients : ClientInv(d)
  BY DEF AloneAll, CalmInv, AloneInv, MessagesInv, Calm
<1>2. /\ inbox[s] # <<>> /\ inbox' = [inbox EXCEPT ![s] = Tail(@)]
      /\ UNCHANGED <<mgr, rd, changes, client, crossed>>
  BY DEF Serve, ServeAdd, ServeDispose, ServeUpdateOrObtain, ServeMinOrMax, ServeNext,
         ServeCount, NoMemory, Serves, Answer, history
<1>3. /\ inbox \in [Servers -> Seq(Asking)] /\ answers \in Seq(Answering)
      /\ inbox[s] \in Seq(Asking) /\ m \in Asking
  BY <1>1, <1>2, Received DEF TypeInv, TypeOK, MailType
<1>4. PICK i \in DOMAIN inbox[s] : inbox[s][i] = m
  BY <1>2, <1>3, FirstHeld
<1>5. AtMain' = AtMain
  BY <1>2 DEF AtMain, Running
<1>6. m.pid \in {c, ManagerPid} /\ c # ManagerPid
  BY <1>1, ServedPid, ManagerAssumption
<1>7. CASE m.pid = c
  <2>1. Forwarded(c) /\ mgr.wait = "main" /\ mgr.wait \notin TransferWaits
    BY <1>1, <1>4, <1>7 DEF ParityInv, AtMain, Forwarded, NoneOf, TransferWaits
  <2>2. NoOwn /\ counts = <<>> /\ NoneOf(answers, ManagerPid)
    BY <1>1, <2>1 DEF CountInv, ParityInv
  <2>3. /\ m = Sends(c, "CLIENT")
        /\ ServeAdd(s) \/ ServeDispose(s) \/ ServeUpdateOrObtain(s) \/ NoMemory(s)
    BY <1>1, <1>7, MessagesServe
  <2>4. PICK status, n : /\ n.pid = c /\ answers' = Append(answers, n)
                         /\ counts' = counts
    <3>1. PICK status \in Done : Answer(s, status, m.key)
      BY <2>3, ServeAnswers
    <3> DEFINE n == [m EXCEPT !.status = status, !.key = m.key]
    <3>2. n.pid = c
      BY <1>3, <1>7 DEF Asking, Msg
    <3> QED  BY <3>1, <3>2 DEF Answer
  <2>5. Forwarded(c)'
    <3>1. Len(answers) + 1 \in DOMAIN answers' /\ answers'[Len(answers) + 1] = n
      BY <1>3, <2>4
    <3> QED  BY <2>4, <3>1 DEF Forwarded, NoneOf
  <2>6. NoneOf(answers', ManagerPid)
    BY <1>3, <1>6, <2>2, <2>4, ApartSent DEF Apart
  <2>7. NoOwn'
    <3>1. \A t \in Servers : Apart(inbox[t], inbox'[t], ManagerPid)
      BY <1>2, <1>3, <1>6, <1>7, ApartInbox
    <3> QED  BY <2>2, <3>1 DEF NoOwn, Apart
  <2>8. CountInv'
    BY <1>2, <2>1, <2>2, <2>4, <2>7 DEF CountInv
  <2>9. ParityInv(c)'
    BY <1>1, <1>2, <1>5, <2>1, <2>5, <2>6 DEF ParityInv
  <2> QED  BY <1>2, <2>8, <2>9 DEF AloneInv, Calm
<1>8. CASE m.pid = ManagerPid /\ mgr.wait \notin TransferWaits
  <2>1. m.cmd = "GET_RECORDS_CNT"
    BY <1>1, <1>4, <1>8 DEF OwnInv
  <2>2. ServeCount(s)
    BY <2>1 DEF Serve, ServeAdd, ServeDispose, ServeUpdateOrObtain, ServeMinOrMax,
       ServeNext, NoMemory, Serves
  <2>3. PICK n : counts' = Append(counts, n) /\ answers' = answers
    BY <2>2 DEF ServeCount
  <2>4. ~NoneOf(inbox[s], ManagerPid)
    BY <1>2, <1>3, <1>8, OneSeen
  <2>5. mgr.wait = "count" /\ CountAsked
    <3>1. mgr.wait \in {"main", "count"}
      BY <1>1, <1>8 DEF TypeInv, TypeOK, MgrType, Waits
    <3> QED  BY <1>1, <2>4, <3>1 DEF CountInv, NoOwn
  <2>6. /\ counts = <<>> /\ OneOf(inbox[s], ManagerPid, OwnMsg("GET_RECORDS_CNT"))
        /\ \A t \in Servers \ {s} : NoneOf(inbox[t], ManagerPid)
    BY <2>4, <2>5 DEF CountAsked, NoOwn
  <2>7. NoneOf(Tail(inbox[s]), ManagerPid)
    BY <1>2, <1>3, <1>8, <2>6, OneTaken
  <2>8. NoOwn'
    BY <1>2, <1>3, <2>6, <2>7 DEF NoOwn
  <2>9. counts' # <<>> /\ Tail(counts') = <<>>
    BY <2>3, <2>6
  <2>10. CountInv'
    BY <1>2, <2>5, <2>8, <2>9 DEF CountInv, CountAsked
  <2>11. ~Forwarded(c) /\ \A t \in Servers : Apart(inbox[t], inbox'[t], c)
    BY <1>1, <1>2, <1>3, <1>6, <1>8, <2>5, ApartInbox DEF ParityInv, AtMain
  <2>12. ~Forwarded(c)'
    BY <2>3, <2>11 DEF Forwarded, Apart
  <2>13. ParityInv(c)'
    BY <1>1, <1>2, <2>3, <2>11, <2>12 DEF ParityInv
  <2> QED  BY <1>2, <2>10, <2>13 DEF AloneInv, Calm
<1>9. CASE mgr.wait \in TransferWaits
  <2>1. OnlyCommand /\ s = Dest
    BY <1>1, <1>9, ServedInTransfer DEF Calm
  <2>2. m.cmd # "GET_RECORDS_CNT"
    <3>1. PICK n \in Asking : IsDue(n) /\ inbox[s] = <<n>>
      BY <2>1 DEF OnlyCommand
    <3> QED  BY <3>1, OneMessage DEF IsDue
  <2>3. counts' = counts
    BY <2>2 DEF Serve, ServeAdd, ServeDispose, ServeUpdateOrObtain, ServeMinOrMax,
       ServeNext, ServeCount, NoMemory, Serves, Answer
  <2>4. mgr.wait \notin {"main", "count"}
    BY <1>9 DEF TransferWaits
  <2>5. CountInv'
    BY <1>1, <1>2, <2>3, <2>4 DEF CountInv
  <2>6. ~Forwarded(c) /\ ~Forwarded(c)'
    <3>1. NoneOf(answers', c) /\ \A t \in Servers : NoneOf(inbox'[t], c)
      BY <1>2, <1>6, <1>9 DEF OwnInv, NoneOf
    <3> QED  BY <1>1, <2>4, <3>1 DEF ParityInv, AtMain, Forwarded
  <2>7. ParityInv(c)'
    BY <1>1, <1>2, <1>9, <2>6 DEF ParityInv
  <2> QED  BY <1>2, <2>5, <2>7 DEF AloneInv, Calm
<1> QED  BY <1>6, <1>7, <1>8, <1>9

-----------------------------------------------------------------------------
(* The invariant of the one client holds at the start, ...                 *)
LEMMA AloneInit ==
  ASSUME NEW c \in Clients, Init
  PROVE  AloneInv(c)
<1>1. ~Forwarded(c) /\ NoOwn /\ NoneOf(answers, ManagerPid)
  BY DEF Init, Forwarded, NoOwn, NoneOf
<1>2. counts = <<>> /\ mgr.wait = "main" /\ changes = 0 /\ ~crossed /\ AtMain
  BY DEF Init, AtMain, Running, Idle
<1>3. 0 \in 0 .. Threshold - 1 /\ 0 % 2 = 0
  BY ThresholdType
<1> QED  BY <1>1, <1>2, <1>3 DEF AloneInv, CountInv, ParityInv

(* ... and is kept by every step.                                          *)
LEMMA AloneStep ==
  ASSUME NEW c \in Clients, Clients = {c}, Threshold % 2 = 0, AloneAll(c), [Next]_vars
  PROVE  AloneInv(c)'
<1> SUFFICES ASSUME timeouts' = 0  PROVE AloneInv(c)'
  BY DEF AloneInv
<1>1. timeouts = 0 /\ ~crossed /\ Calm
  BY HistoryStays DEF AloneAll, CalmInv, AloneInv, Calm
<1>2. CASE BeginTransfer
  BY <1>1, <1>2, AloneBegin
<1>3. CASE ~BeginTransfer
  <2>1. crossed' = crossed
    BY <1>3 DEF Next, Manager, ForwardAnswer, ForwardRequest, CountAnswer, CountTimeout,
       RedistributionLoop, RedistributionReturns, Local, TransferAnswer, TransferTimeout,
       Serve, ServeAdd, ServeDispose, ServeUpdateOrObtain, ServeMinOrMax, ServeNext,
       ServeCount, NoMemory, Answer, Client, Request, SkipReply, AcceptReply, ClientTimeout, vars,
       history
  <2>2. Calm' /\ MessagesInv'
    BY <1>1, <2>1, MessagesInvStep DEF AloneAll, CalmInv, Calm
  <2>3. OwnInv'
    BY <2>2 DEF MessagesInv
  <2>4. CASE Manager
    BY <1>1, <1>3, <2>2, <2>3, <2>4, AloneForwardAnswer, AloneForwardRequest, AloneCount,
       AloneLoop, AloneTransfer, NoEarlyEnd DEF Manager, AloneAll, CalmInv
  <2>5. CASE \E s \in Servers : Serve(s)
    BY <1>1, <2>2, <2>3, <2>5, AloneServe
  <2>6. CASE \E d \in Clients : Client(d)
    BY <1>1, <2>2, <2>6, AloneClient
  <2>7. CASE UNCHANGED vars
    <3>1. UNCHANGED <<inbox, answers, counts, mgr, rd, changes, client>>
      BY <2>7 DEF vars, mail
    <3>2. CountInv /\ ParityInv(c)
      BY <1>1 DEF AloneAll, AloneInv
    <3>3. CountInv'
      BY <3>1, <3>2 DEF CountInv, CountAsked, NoOwn
    <3>4. Forwarded(c)' = Forwarded(c) /\ AtMain' = AtMain
      BY <3>1 DEF Forwarded, AtMain, Running
    <3>5. ParityInv(c)'
      BY <3>1, <3>2, <3>4 DEF ParityInv
    <3> QED  BY <2>2, <3>3, <3>5 DEF AloneInv, Calm
  <2> QED  BY <2>4, <2>5, <2>6, <2>7 DEF Next
<1> QED  BY <1>2, <1>3

-----------------------------------------------------------------------------
(* What the client was told is stored, what it asks to dispose it was not  *)
(* told since, and what it is about to be told is stored.                  *)
KnownInv(c) ==
  timeouts = 0 =>
    /\ known \subseteq Stored
    /\ OpOf(c).at # "idle" /\ OpOf(c).cmd = "DISPOSE" => OpOf(c).key \notin known
    /\ OpOf(c).at = "done" /\ TellsPresent(OpOf(c)) => OpOf(c).key \in Stored

(* A step that leaves the command, the keys and what is known of them.     *)
LEMMA KnownElsewhere ==
  ASSUME NEW c \in Clients, KnownInv(c), ClientInv(c), Kept(c), timeouts = 0,
         Stored' = Stored, known' = known
  PROVE  KnownInv(c)'
<1>1. OpOf(c)' = OpOf(c)
  BY KeptShows
<1> QED  BY <1>1 DEF KnownInv, TellsPresent

(* A client that asks to dispose a key no longer counts on it.             *)
LEMMA KnownRequest ==
  ASSUME NEW c \in Clients, CalmInv, Calm, KnownInv(c),
         NEW cmd \in ClientCmds, NEW key \in Keys, Request(c, cmd, key)
  PROVE  KnownInv(c)'
<1>1. KM!Ask(c, cmd, key)
  BY RequestAsks
<1>2. OpOf(c)' = KM!Op("asked", cmd, key, "CLIENT") /\ Stored' = Stored
  BY <1>1 DEF KM!Ask
<1>3. known' = IF cmd = "DISPOSE" THEN known \ {key} ELSE known
  BY DEF Request
<1> QED  BY <1>2, <1>3 DEF KnownInv, Calm, KM!Op

(* A client counts on a key after an answer that says so, and what that    *)
(* answer says is what the abstract map has.                               *)
LEMMA KnownReply ==
  ASSUME NEW c \in Clients, CalmInv, Calm, timeouts' = 0, KnownInv(c),
         SkipReply(c) \/ AcceptReply(c) \/ ClientTimeout(c)
  PROVE  KnownInv(c)'
<1>1. /\ TypeInv /\ RepliesInv /\ \A d \in Clients : ClientInv(d)
  BY DEF CalmInv, MessagesInv
<1>2. AcceptReply(c) /\ ~client'[c].waiting
  BY <1>1, MessagesReply
<1> DEFINE m == Head(replies[c])
<1>3. /\ replies[c] # <<>> /\ store' = store
      /\ known' = IF TellsPresent(m) THEN known \cup {m.key} ELSE known
  BY <1>2 DEF AcceptReply, data
<1>4. PICK status \in Done : Stage(c, status) /\ m = Sends(c, status)
  BY <1>1, <1>3, FirstReply
<1>5. OpOf(c) = Abstract(c, status) /\ OpOf(c).at = "done"
  BY <1>4, StageShows DEF Abstract, Done
<1>6. m.cmd = OpOf(c).cmd /\ m.key = OpOf(c).key /\ m.status = OpOf(c).status
  BY <1>4, <1>5 DEF Sends, Abstract
<1>7. TellsPresent(m) => m.key \in Stored
  BY <1>5, <1>6 DEF KnownInv, TellsPresent, Calm
<1>8. Stored' = Stored
  BY <1>3 DEF Stored
<1> HIDE DEF m
<1>9. known' \subseteq Stored'
  BY <1>3, <1>7, <1>8 DEF KnownInv, Calm
<1>10. OpOf(c)'.at = "idle"
  <2>1. OpOf(c)' = [at |-> "idle"]
    BY <1>2, ShowsNext
  <2> QED  BY <2>1
<1> QED  BY <1>9, <1>10 DEF KnownInv

(* A server that serves the client's command changes no key that the       *)
(* client counts on.                                                       *)
LEMMA KnownServe ==
  ASSUME NEW c \in Clients, CalmInv, Calm, KnownInv(c),
         NEW s \in Servers, Serve(s), Head(inbox[s]).pid = c
  PROVE  KnownInv(c)'
<1> DEFINE key == client[c].key
           cmd == client[c].cmd
<1>1. /\ TypeInv /\ \A d \in Clients : ClientInv(d)
  BY DEF CalmInv, MessagesInv
<1>2. /\ Stage(c, "CLIENT") /\ Head(inbox[s]) = Sends(c, "CLIENT") /\ client' = client
      /\ \A status \in Done : Answer(s, status, key) => Stage(c, status)'
      /\ ServeAdd(s) \/ ServeDispose(s) \/ ServeUpdateOrObtain(s) \/ NoMemory(s)
  BY <1>1, MessagesServe
<1>3. Head(inbox[s]).cmd = cmd /\ Head(inbox[s]).key = key
  BY <1>2 DEF Sends
<1>4. OpOf(c).at = "asked" /\ OpOf(c).cmd = cmd /\ OpOf(c).key = key
  BY <1>2, StageShows DEF Abstract, Statuses
<1>5. /\ known \subseteq Stored /\ (cmd = "DISPOSE" => key \notin known)
      /\ store \in [Servers -> SUBSET Keys] /\ known' = known
  BY <1>1, <1>4 DEF KnownInv, Calm, TypeInv, TypeOK, DataType, Serve, ServeAdd,
     ServeDispose, ServeUpdateOrObtain, ServeMinOrMax, ServeNext, ServeCount, NoMemory, Answer, history
<1>6. \E status \in Done :
        /\ Answer(s, status, key) /\ known \subseteq Stored'
        /\ cmd \in {"ADD", "UPDATE", "OBTAIN"} /\ status \in {"OK", "EXISTENT_KEY"}
             => key \in Stored'
  <2>1. {"OK", "EXISTENT_KEY", "NONEXISTENT_KEY"} \subseteq Done
    BY DEF Done, Statuses
  <2>2. CASE ServeAdd(s)
    <3>1. CASE key \in store[s]
      <4>1. Answer(s, "EXISTENT_KEY", key) /\ store' = store
        BY <1>3, <2>2, <3>1 DEF ServeAdd, data
      <4> QED  BY <1>5, <2>1, <3>1, <4>1 DEF Stored
    <3>2. CASE key \notin store[s]
      <4>1. Answer(s, "OK", key) /\ store' = [store EXCEPT ![s] = @ \cup {key}]
        BY <1>3, <2>2, <3>2 DEF ServeAdd
      <4>2. Stored' = Stored \cup {key}
        BY <1>5, <4>1 DEF Stored
      <4> QED  BY <1>5, <2>1, <4>1, <4>2
    <3> QED  BY <3>1, <3>2
  <2>3. CASE ServeDispose(s)
    <3>1. cmd = "DISPOSE"
      BY <1>3, <2>3 DEF ServeDispose, Serves
    <3>2. \/ Answer(s, "NONEXISTENT_KEY", key) /\ store' = store
          \/ Answer(s, "OK", key) /\ store' = [store EXCEPT ![s] = @ \ {key}]
      BY <1>3, <2>3 DEF ServeDispose, data
    <3>3. Stored \ {key} \subseteq Stored'
      BY <1>5, <3>2 DEF Stored
    <3> QED  BY <1>5, <2>1, <3>1, <3>2, <3>3
  <2>4. CASE ServeUpdateOrObtain(s)
    <3>1. /\ store' = store
          /\ Answer(s, IF key \in store[s] THEN "OK" ELSE "NONEXISTENT_KEY", key)
      BY <1>3, <2>4 DEF ServeUpdateOrObtain, data
    <3> QED  BY <1>5, <2>1, <3>1 DEF Stored
  <2>5. CASE NoMemory(s)
    <3>1. store' = store /\ Answer(s, "BAD_ALLOC", key) /\ "BAD_ALLOC" \in Done
      BY <1>3, <2>5 DEF NoMemory, Done, Statuses, data
    <3> QED  BY <1>5, <3>1 DEF Stored
  <2> QED  BY <1>2, <2>2, <2>3, <2>4, <2>5
<1>7. PICK status \in Done :
        /\ Answer(s, status, key) /\ known \subseteq Stored'
        /\ cmd \in {"ADD", "UPDATE", "OBTAIN"} /\ status \in {"OK", "EXISTENT_KEY"}
             => key \in Stored'
  BY <1>6
<1>8. OpOf(c)' = Abstract(c, status)'
  BY <1>2, <1>7, ShowsNext DEF Done
<1>9. OpOf(c)'.cmd = cmd /\ OpOf(c)'.key = key /\ OpOf(c)'.status = status
  BY <1>2, <1>8 DEF Abstract
<1> HIDE DEF cmd, key
<1>10. TellsPresent(OpOf(c))' => key \in Stored'
  BY <1>7, <1>9 DEF TellsPresent
<1> QED  BY <1>5, <1>7, <1>9, <1>10 DEF KnownInv, TellsPresent

(* Every step keeps what the client knows true.                            *)
LEMMA KnownStep ==
  ASSUME NEW c \in Clients, Clients = {c}, AloneAll(c), KnownInv(c), [Next]_vars
  PROVE  KnownInv(c)'
<1> SUFFICES ASSUME timeouts' = 0  PROVE KnownInv(c)'
  BY DEF KnownInv
<1>1. CalmInv /\ Calm /\ timeouts = 0
  BY HistoryStays DEF AloneAll, CalmInv, AloneInv, Calm
<1>2. TypeInv /\ OwnInv /\ ClientInv(c) /\ \A d \in Clients : ClientInv(d)
  BY <1>1 DEF CalmInv, MessagesInv
<1>3. CASE Manager
  <2>1. Kept(c)
    BY <1>2, <1>3, MessagesManager
  <2>2. UNCHANGED <<store, known>>
    BY <1>3 DEF Manager, ForwardAnswer, ForwardRequest, CountAnswer, CountTimeout,
       RedistributionLoop, RedistributionReturns, Local, BeginTransfer, TransferAnswer,
       TransferTimeout, data, history
  <2>3. Stored' = Stored
    BY <2>2 DEF Stored
  <2> QED  BY <1>1, <1>2, <2>1, <2>2, <2>3, KnownElsewhere
<1>4. CASE \E s \in Servers : Serve(s)
  <2>1. PICK s \in Servers : Serve(s)
    BY <1>4
  <2>2. CASE Head(inbox[s]).pid = c
    BY <1>1, <2>1, <2>2, KnownServe
  <2>3. CASE Head(inbox[s]).pid # c
    <3>1. Kept(c)
      BY <1>2, <2>1, <2>3, MessagesServe
    <3>2. Stored' = Stored
      BY <1>1, <1>2, <2>1, <2>3, ServedPid, ServeOwnKeeps
    <3>3. known' = known
      BY <2>1 DEF Serve, ServeAdd, ServeDispose, ServeUpdateOrObtain, ServeMinOrMax,
         ServeNext, ServeCount, NoMemory, Answer, history
    <3> QED  BY <1>1, <1>2, <3>1, <3>2, <3>3, KnownElsewhere
  <2> QED  BY <2>2, <2>3
<1>5. CASE \E d \in Clients : Client(d)
  BY <1>1, <1>5, KnownRequest, KnownReply DEF Client
<1>6. CASE UNCHANGED vars
  <2>1. UNCHANGED <<store, client, requests, answers, replies, inbox, known>>
    BY <1>6 DEF vars, data, mail, history
  <2>2. Kept(c)
    BY <2>1, ApartSame, ClientApart
  <2>3. Stored' = Stored
    BY <2>1 DEF Stored
  <2> QED  BY <1>1, <1>2, <2>1, <2>2, <2>3, KnownElsewhere
<1> QED  BY <1>3, <1>4, <1>5, <1>6 DEF Next

-----------------------------------------------------------------------------
(* With one client, and 30 * (1 + n) even as it is, the messages of a      *)
(* redistribution never cross the client's, for any number of servers and  *)
(* keys: the manager counts a change as it passes the command on and again *)
(* as it passes the answer back, and only the second reaches the threshold.*)
THEOREM OneClientNeverCrosses ==
  ASSUME NEW c, Clients = {c}, Threshold % 2 = 0
  PROVE  Spec /\ [](timeouts = 0) => []NeverCrossed
<1>1. Init => AloneAll(c)
  BY CalmInvariant, RoutingInvInit, AloneInit DEF AloneAll, CalmInv
<1>2. AloneAll(c) /\ [Next]_vars => AloneAll(c)'
  BY CalmInvariant, RoutingInvStep, AloneStep DEF AloneAll, CalmInv
<1>3. AloneAll(c) /\ timeouts = 0 => NeverCrossed
  BY DEF AloneAll, AloneInv, NeverCrossed
<1> QED  BY <1>1, <1>2, <1>3, PTL DEF Spec

(* A key the one client was told is in the collection stays on some server *)
(* until the client asks to dispose it, through every redistribution to    *)
(* the left and to the right.                                              *)
THEOREM WhatTheClientKnowsIsStored ==
  ASSUME NEW c, Clients = {c}, Threshold % 2 = 0
  PROVE  Spec /\ [](timeouts = 0) => []KnownStored
<1> DEFINE Inv == AloneAll(c) /\ KnownInv(c)
<1>1. Init => Inv
  <2>1. Init => KnownInv(c)
    BY DEF Init, KnownInv, OpOf, Stored
  <2> QED  BY <2>1, CalmInvariant, RoutingInvInit, AloneInit DEF AloneAll, CalmInv
<1>2. Inv /\ [Next]_vars => Inv'
  BY CalmInvariant, RoutingInvStep, AloneStep, KnownStep DEF AloneAll, CalmInv
<1>3. Inv /\ timeouts = 0 => KnownStored
  BY DEF KnownInv, KnownStored
<1> QED  BY <1>1, <1>2, <1>3, PTL DEF Spec

=============================================================================
