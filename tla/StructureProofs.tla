-------------------------- MODULE StructureProofs --------------------------
(***************************************************************************)
(* Pools, schemas and collections on all servers of Cluster: the servers   *)
(* stay alike, the manager's separators are for the collections they have, *)
(* and a cluster that is used in order loses no server and no manager.     *)
(*                                                                         *)
(* A structure command is broadcast to one server after the other, and     *)
(* back again when one refuses.  The invariants say where its one message  *)
(* is (BroadcastInv), what the servers it has passed have that the others  *)
(* do not have yet (AgreeInv, KnowsInv), and of the counts of a            *)
(* redistribution and the set-up of a new server the same (CountInv,       *)
(* SafeInv).  TLC checked each of them as an invariant first.              *)
(***************************************************************************)
EXTENDS ClusterProofs

-----------------------------------------------------------------------------
(* The broadcasts.  What the invariants say of an inbox is which commands  *)
(* are not in it, and which are there once.                                *)
None(s, C) == \A k \in DOMAIN s : s[k].cmd \notin C

One(s, C, m) ==
  /\ m.cmd \in C
  /\ \E k \in DOMAIN s : s[k] = m /\ \A l \in DOMAIN s : s[l].cmd \in C => l = k

(* From s to t the commands C are what they were.                          *)
Kept(s, t, C) == /\ None(s, C) => None(t, C)
                 /\ \A m : One(s, C, m) => One(t, C, m)

(* What the manager knows of who is there.                                 *)
Broadcasting == mgr.wait \in {"struct_add", "struct_dispose"}

Structural == AddStruct \cup DropStruct

PidInv ==
  /\ \A i, j \in DOMAIN servers : servers[i] = servers[j] => i = j
  /\ \A i \in DOMAIN servers : servers[i] <= spawned
  /\ mgr.wait = "setup" =>
       /\ \A i \in DOMAIN servers : servers[i] # spawned
       /\ None(inbox[spawned], Commands \ {"SET_IN_MEMORY_CACHE_MODE"})
       /\ has[spawned] = {} /\ DOMAIN store[spawned] = {}
  /\ \A p \in Pids : p > spawned =>
       proc[p] = "unborn" /\ has[p] = {} /\ DOMAIN store[p] = {}
  /\ Broadcasting \/ mgr.wait = "count" => mgr.i \in DOMAIN servers
  /\ mgr.wait = "ended" => ~run

(* No schema without the pool, no collection without the schema.           *)
NestInv ==
  \A p \in Pids : /\ "schema" \in has[p] => "pool" \in has[p]
                  /\ DOMAIN store[p] # {} => "schema" \in has[p]

(* A client's message names all that its command works on.                 *)
NamedInv == \A k \in DOMAIN requests : requests[k].named

(* Where the answer to a broadcast is awaited, and the other mailbox.      *)
Back  == IF mgr.wait = "struct_add" THEN "added" ELSE "disposed"
Other == IF mgr.wait = "struct_add" THEN "disposed" ELSE "added"

(* As long as no wait gave up early, there is one message about of what is *)
(* broadcast: with the server the broadcast has reached, or back from it.  *)
Sound == faults = 0 /\ mgr.wait # "rollback"

Awaited(p) == Broadcasting /\ box[Back] = <<>> /\ p = servers[mgr.i] /\ proc[p] = "up"

BroadcastInv ==
  Sound =>
  /\ \A p \in Pids :
       IF Awaited(p) THEN One(inbox[p], Structural, mgr.msg) ELSE None(inbox[p], Structural)
  /\ ~Broadcasting => box["added"] = <<>> /\ box["disposed"] = <<>>
  /\ Broadcasting =>
       /\ mgr.msg.cmd \in (IF mgr.wait = "struct_add" THEN AddStruct ELSE DropStruct)
       /\ mgr.msg.named \/ mgr.msg.cmd = "DISPOSE_POOL" \/ (mgr.msg.cmd = "DISPOSE_SCHEMA" /\ mgr.i > 1)
       /\ mgr.msg.cmd = "DISPOSE_SCHEMA" => Len(servers) = 1 \/ "half_disposed" \in past
       /\ box[Other] = <<>>
       /\ box[Back] # <<>> =>
            /\ Len(box[Back]) = 1
            /\ box[Back][1].cmd = mgr.msg.cmd /\ box[Back][1].coll = mgr.msg.coll
            /\ mgr.msg.cmd \notin {"DISPOSE_POOL", "DISPOSE_SCHEMA"} => box[Back][1].named

(* Two servers have the same, or one has what the other has after m.       *)
Same(p, q) == has[p] = has[q] /\ DOMAIN store[p] = DOMAIN store[q]

Works(m, q) == AboveExists(q, m) /\ (m.cmd \in AddStruct <=> ~Exists(q, m))

HasAfter(m, h) ==
  CASE m.cmd = "ADD_POOL"       -> h \cup {"pool"}
    [] m.cmd = "ADD_SCHEMA"     -> h \cup {"schema"}
    [] m.cmd = "DISPOSE_POOL"   -> {}
    [] m.cmd = "DISPOSE_SCHEMA" -> {"pool"}
    [] OTHER                    -> h

DomainAfter(m, d) ==
  CASE m.cmd = "ADD_COLLECTION"     -> d \cup {m.coll}
    [] m.cmd = "DISPOSE_COLLECTION" -> d \ {m.coll}
    [] m.cmd \in {"DISPOSE_POOL", "DISPOSE_SCHEMA"} -> {}
    [] OTHER -> d

Ahead(m, p, q) ==
  IF Works(m, q)
  THEN has[p] = HasAfter(m, has[q]) /\ DOMAIN store[p] = DomainAfter(m, DOMAIN store[q])
  ELSE Same(p, q)

AgreeInv ==
  /\ Sound /\ past \cap {"joined_late", "half_disposed"} = {} /\ Len(servers) = 2
  /\ proc[servers[1]] = "up" /\ proc[servers[2]] = "up"
  => LET p == servers[1]
         q == servers[2]
         done == Broadcasting /\ box[Back] # <<>>
     IN  IF ~Broadcasting \/ (mgr.i = 1 /\ ~done) \/ (mgr.i = 2 /\ done)
         THEN /\ Same(p, q)
              /\ mgr.wait = "struct_add" /\ mgr.i = 2 => box["added"][1].status = "OK"
         ELSE /\ Ahead(mgr.msg, p, q)
              /\ mgr.wait = "struct_add" =>
                   IF mgr.i = 2 \/ box["added"][1].status = "OK"
                   THEN Works(mgr.msg, q) ELSE Same(p, q)

(* The collections of a server the broadcast has passed.                   *)
Renewed ==
  IF mgr.msg.cmd = "ADD_COLLECTION" THEN DOMAIN seps \cup {mgr.msg.coll}
  ELSE IF mgr.msg.cmd = "DISPOSE_COLLECTION" THEN DOMAIN seps \ {mgr.msg.coll}
  ELSE DOMAIN seps

Passed(j) ==
  /\ Broadcasting
  /\ \/ j < mgr.i
     \/ /\ j = mgr.i /\ box[Back] # <<>>
        /\ mgr.wait = "struct_add" => box["added"][1].status = "OK"

(* A server has no collection the manager has no separators for, and all   *)
(* the others as long as none was left out of a broadcast.                 *)
Unmixed == past \cap {"joined_late", "half_disposed", "dropped_above"} = {}

HasOf(j, colls) ==
  /\ DOMAIN store[servers[j]] \subseteq colls
  /\ Unmixed => DOMAIN store[servers[j]] = colls

KnowsInv ==
  Sound => \A j \in DOMAIN servers :
    proc[servers[j]] = "up" => HasOf(j, IF Passed(j) THEN Renewed ELSE DOMAIN seps)

(* The counts that are asked for, and the set-up of a server.              *)
Counting(p) ==
  mgr.wait = "count" /\ box["count"] = <<>> /\ p = servers[mgr.i] /\ proc[p] = "up"

CountInv ==
  Sound =>
  /\ \A p \in Pids :
       IF Counting(p)
       THEN One(inbox[p], {"GET_RECORDS_CNT"}, OwnMsg("GET_RECORDS_CNT", Head(mgr.todo)))
       ELSE None(inbox[p], {"GET_RECORDS_CNT"})
  /\ IF mgr.wait = "count" THEN Len(box["count"]) <= 1 ELSE box["count"] = <<>>

OrderlyNow == run /\ Orderly(Events \ {"crossed", "moved_left", "short_count"})

SetUp == OwnMsg("SET_IN_MEMORY_CACHE_MODE", NoOne)

SafeInv ==
  OrderlyNow =>
  /\ \A p \in Pids : None(inbox[p], {"SHUTDOWN"})
  /\ \A j \in DOMAIN servers : None(inbox[servers[j]], {"TERMINATE"}) /\ proc[servers[j]] = "up"
  /\ mgr.wait \notin {"rollback", "dead", "ended"}
  /\ servers = <<>> => mgr.wait = "setup"
  /\ mgr.wait = "setup" =>
       /\ proc[spawned] = "up"
       /\ box["setup"] # <<>> \/ One(inbox[spawned], {"SET_IN_MEMORY_CACHE_MODE"}, SetUp)

-----------------------------------------------------------------------------
(* One message taken from a list, and one put at its end.                  *)
LEMMA TailAt ==
  ASSUME NEW M, NEW s \in Seq(M), s # <<>>
  PROVE  /\ 1 \in DOMAIN s /\ s[1] = Head(s)
         /\ \A k \in DOMAIN Tail(s) : k + 1 \in DOMAIN s /\ Tail(s)[k] = s[k + 1]
         /\ \A k \in DOMAIN s : k # 1 => k - 1 \in DOMAIN Tail(s) /\ Tail(s)[k - 1] = s[k]
         /\ DOMAIN s \subseteq Nat /\ DOMAIN Tail(s) \subseteq Nat \ {0}
<1>1. /\ Len(s) \in Nat \ {0} /\ DOMAIN s = 1 .. Len(s) /\ s[1] = Head(s)
      /\ Tail(s) \in Seq(M) /\ Len(Tail(s)) = Len(s) - 1
      /\ \A k \in 1 .. Len(s) - 1 : Tail(s)[k] = s[k + 1]
  OBVIOUS
<1>2. DOMAIN Tail(s) = 1 .. Len(s) - 1
  BY <1>1
<1> DEFINE n == Len(s)
           t == Tail(s)
<1>3. n \in Nat \ {0} /\ DOMAIN s = 1 .. n /\ DOMAIN t = 1 .. n - 1
      /\ \A k \in 1 .. n - 1 : t[k] = s[k + 1]
  BY <1>1, <1>2
<1> HIDE DEF n, t
<1>4. /\ 1 \in DOMAIN s
      /\ \A k \in DOMAIN t : k + 1 \in DOMAIN s /\ t[k] = s[k + 1]
      /\ DOMAIN s \subseteq Nat /\ DOMAIN t \subseteq Nat \ {0}
  BY <1>3
<1>5. ASSUME NEW k \in DOMAIN s, k # 1  PROVE k - 1 \in DOMAIN t /\ t[k - 1] = s[k]
  <2>1. k \in Nat /\ k - 1 \in 1 .. n - 1 /\ (k - 1) + 1 = k
    BY <1>3, <1>5
  <2> QED  BY <1>3, <2>1
<1> QED  BY <1>1, <1>4, <1>5 DEF t

(* Where the messages are after one is put at the end.                     *)
LEMMA AppendAt ==
  ASSUME NEW M, NEW s \in Seq(M), NEW m
  PROVE  /\ \A k \in DOMAIN s : k \in DOMAIN Append(s, m) /\ Append(s, m)[k] = s[k]
         /\ \A k \in DOMAIN Append(s, m) : k \in DOMAIN s \/ (Append(s, m)[k] = m /\ k = Len(s) + 1)
         /\ Len(s) + 1 \in DOMAIN Append(s, m) /\ Append(s, m)[Len(s) + 1] = m
<1>1. /\ Len(s) \in Nat /\ DOMAIN s = 1 .. Len(s)
      /\ DOMAIN Append(s, m) = 1 .. Len(s) + 1
      /\ \A k \in 1 .. Len(s) : Append(s, m)[k] = s[k]
      /\ Append(s, m)[Len(s) + 1] = m
  OBVIOUS
<1> DEFINE n == Len(s)
           t == Append(s, m)
<1>2. n \in Nat /\ DOMAIN s = 1 .. n /\ DOMAIN t = 1 .. n + 1
      /\ (\A k \in 1 .. n : t[k] = s[k]) /\ t[n + 1] = m
  BY <1>1
<1> HIDE DEF n, t
<1>3. /\ \A k \in DOMAIN s : k \in DOMAIN t /\ t[k] = s[k]
      /\ \A k \in DOMAIN t : k \in DOMAIN s \/ (t[k] = m /\ k = n + 1)
      /\ n + 1 \in DOMAIN t /\ t[n + 1] = m
  BY <1>2
<1> QED  BY <1>3 DEF n, t

(* What taking and putting messages does to the commands in a list.        *)
LEMMA NothingThere == \A C : None(<<>>, C)
BY DEF None

(* A message of another command changes nothing about the commands C.      *)
LEMMA AppendKeeps ==
  ASSUME NEW M, NEW s \in Seq(M), NEW m, NEW C, m.cmd \notin C
  PROVE  Kept(s, Append(s, m), C)
<1>1. ASSUME None(s, C)  PROVE None(Append(s, m), C)
  BY <1>1, AppendAt DEF None
<1>2. ASSUME NEW n, One(s, C, n)  PROVE One(Append(s, m), C, n)
  <2>1. PICK k \in DOMAIN s : s[k] = n /\ \A l \in DOMAIN s : s[l].cmd \in C => l = k
    BY <1>2 DEF One
  <2>2. k \in DOMAIN Append(s, m) /\ Append(s, m)[k] = n
    BY <2>1, AppendAt
  <2>3. ASSUME NEW l \in DOMAIN Append(s, m), Append(s, m)[l].cmd \in C  PROVE l = k
    <3>1. l \in DOMAIN s /\ Append(s, m)[l] = s[l]
      BY <2>3, AppendAt
    <3> QED  BY <2>1, <2>3, <3>1
  <2> QED  BY <1>2, <2>2, <2>3 DEF One
<1> QED  BY <1>1, <1>2 DEF Kept

(* A message is the only one of its commands where there was none.         *)
LEMMA AppendPuts ==
  ASSUME NEW M, NEW s \in Seq(M), NEW m, NEW C, m.cmd \in C, None(s, C)
  PROVE  One(Append(s, m), C, m)
<1>1. Len(s) + 1 \in DOMAIN Append(s, m) /\ Append(s, m)[Len(s) + 1] = m
  BY AppendAt
<1>2. ASSUME NEW l \in DOMAIN Append(s, m), Append(s, m)[l].cmd \in C  PROVE l = Len(s) + 1
  BY <1>2, AppendAt DEF None
<1> QED  BY <1>1, <1>2 DEF One

(* Neither does taking a message of another command.                       *)
LEMMA TailKeeps ==
  ASSUME NEW M, NEW s \in Seq(M), s # <<>>, NEW C, Head(s).cmd \notin C
  PROVE  Kept(s, Tail(s), C)
<1>1. ASSUME None(s, C)  PROVE None(Tail(s), C)
  BY <1>1, TailAt DEF None
<1>2. ASSUME NEW n, One(s, C, n)  PROVE One(Tail(s), C, n)
  <2>1. PICK k \in DOMAIN s : s[k] = n /\ \A l \in DOMAIN s : s[l].cmd \in C => l = k
    BY <1>2 DEF One
  <2>2. k # 1 /\ k \in Nat
    BY <1>2, <2>1, TailAt DEF One
  <2>3. k - 1 \in DOMAIN Tail(s) /\ Tail(s)[k - 1] = n
    BY <2>1, <2>2, TailAt
  <2>4. ASSUME NEW l \in DOMAIN Tail(s), Tail(s)[l].cmd \in C  PROVE l = k - 1
    <3>1. l + 1 \in DOMAIN s /\ Tail(s)[l] = s[l + 1] /\ l \in Nat
      BY TailAt
    <3>2. l + 1 = k
      BY <2>1, <2>4, <3>1
    <3> QED  BY <2>2, <3>1, <3>2
  <2> QED  BY <1>2, <2>3, <2>4 DEF One
<1> QED  BY <1>1, <1>2 DEF Kept

(* When the only message of the commands C is taken there is none left.    *)
LEMMA TailTakes ==
  ASSUME NEW M, NEW s \in Seq(M), s # <<>>, NEW C, NEW m, Head(s).cmd \in C, One(s, C, m)
  PROVE  Head(s) = m /\ None(Tail(s), C)
<1>1. PICK k \in DOMAIN s : s[k] = m /\ \A l \in DOMAIN s : s[l].cmd \in C => l = k
  BY DEF One
<1>2. k = 1 /\ Head(s) = m
  BY <1>1, TailAt
<1>3. ASSUME NEW l \in DOMAIN Tail(s)  PROVE Tail(s)[l].cmd \notin C
  <2>1. l + 1 \in DOMAIN s /\ Tail(s)[l] = s[l + 1] /\ l \in Nat \ {0}
    BY TailAt
  <2>2. l + 1 # 1
    BY <2>1
  <2> QED  BY <1>1, <1>2, <2>1, <2>2
<1> QED  BY <1>2, <1>3 DEF None

(* A list that does not change.                                            *)
LEMMA SameKeeps == \A s, C : Kept(s, s, C)
BY DEF Kept

(* There is not one message and none.                                      *)
LEMMA OneNotNone ==
  ASSUME NEW s, NEW C, NEW m, One(s, C, m)
  PROVE  ~None(s, C) /\ s # <<>>
BY DEF One, None

-----------------------------------------------------------------------------
(* Steps that leave a broadcast alone.                                     *)
Elsewise == {"struct_add", "struct_dispose", "rollback"}

Calm ==
  /\ past \subseteq past' /\ (faults' = 0 => faults = 0)
  /\ box'["added"] = box["added"] /\ box'["disposed"] = box["disposed"]
  /\ \/ mgr' = mgr /\ servers' = servers
     \/ mgr.wait \notin Elsewise /\ mgr'.wait \notin Elsewise

(* No server joins, and those that stay up have what they had.             *)
Remain ==
  \A j \in DOMAIN servers' :
    /\ j \in DOMAIN servers /\ servers'[j] = servers[j]
    /\ proc'[servers[j]] = "up" =>
         /\ proc[servers[j]] = "up" /\ has'[servers[j]] = has[servers[j]]
         /\ DOMAIN store'[servers[j]] = DOMAIN store[servers[j]]

(* Commands in C are neither put nor taken, but with a server that ends;   *)
(* held says that one of them may be awaited.                              *)
LeavesAlone(C, held) ==
  \A p \in Pids :
    \/ Kept(inbox[p], inbox'[p], C) /\ (held => proc'[p] = proc[p])
    \/ None(inbox'[p], C) /\ (held => proc'[p] # "up")

(* The broadcasts stay as they are.                                        *)
LEMMA BroadcastKept ==
  ASSUME BroadcastInv, Calm, LeavesAlone(Structural, Broadcasting)
  PROVE  BroadcastInv'
<1>1. SUFFICES ASSUME Sound'  PROVE BroadcastInv'
  BY DEF BroadcastInv
<1>2. Sound
  BY <1>1 DEF Sound, Calm, Elsewise
<1>3. CASE mgr' = mgr /\ servers' = servers
  <2>1. /\ Broadcasting' <=> Broadcasting
        /\ Back' = Back /\ Other' = Other /\ box'[Back] = box[Back] /\ box'[Other] = box[Other]
    BY <1>3 DEF Broadcasting, Back, Other, Calm
  <2>2. ASSUME NEW p \in Pids
        PROVE  IF Awaited(p)' THEN One(inbox'[p], Structural, mgr'.msg)
                              ELSE None(inbox'[p], Structural)
    <3>1. IF Awaited(p) THEN One(inbox[p], Structural, mgr.msg) ELSE None(inbox[p], Structural)
      BY <1>2 DEF BroadcastInv
    <3>2. CASE Kept(inbox[p], inbox'[p], Structural) /\ (Broadcasting => proc'[p] = proc[p])
      <4>1. Awaited(p)' <=> Awaited(p)
        BY <1>3, <2>1, <3>2 DEF Awaited
      <4> QED  BY <1>3, <3>1, <3>2, <4>1 DEF Kept
    <3>3. CASE None(inbox'[p], Structural) /\ (Broadcasting => proc'[p] # "up")
      BY <2>1, <3>3 DEF Awaited
    <3> QED  BY <3>2, <3>3 DEF LeavesAlone
  <2>3. \A p \in Pids : IF Awaited(p)' THEN One(inbox'[p], Structural, mgr'.msg)
                                       ELSE None(inbox'[p], Structural)
    BY <2>2
  <2>4. past \subseteq past' /\ box'["added"] = box["added"] /\ box'["disposed"] = box["disposed"]
    BY DEF Calm
  <2> QED  BY <1>2, <1>3, <2>1, <2>3, <2>4 DEF BroadcastInv
<1>4. CASE mgr.wait \notin Elsewise /\ mgr'.wait \notin Elsewise
  <2>1. ~Broadcasting /\ ~Broadcasting'
    BY <1>4 DEF Broadcasting, Elsewise
  <2>2. ASSUME NEW p \in Pids  PROVE None(inbox'[p], Structural) /\ ~Awaited(p)'
    <3>1. None(inbox[p], Structural)
      BY <1>2, <2>1 DEF BroadcastInv, Awaited
    <3> QED  BY <2>1, <3>1 DEF LeavesAlone, Kept, Awaited
  <2>3. box'["added"] = <<>> /\ box'["disposed"] = <<>>
    BY <1>2, <2>1 DEF BroadcastInv, Calm
  <2> QED  BY <2>1, <2>2, <2>3 DEF BroadcastInv
<1> QED  BY <1>3, <1>4 DEF Calm

(* What two servers have stays alike.                                      *)
LEMMA AgreeKept ==
  ASSUME KnownType, KnownType', AgreeInv, Calm, Remain
  PROVE  AgreeInv'
<1>1. SUFFICES ASSUME Sound', past' \cap {"joined_late", "half_disposed"} = {}, Len(servers') = 2,
                      proc'[servers'[1]] = "up", proc'[servers'[2]] = "up"
               PROVE  AgreeInv'
  BY DEF AgreeInv
<1>2. Sound /\ past \cap {"joined_late", "half_disposed"} = {}
  BY <1>1 DEF Sound, Calm, Elsewise
<1>3. 1 \in DOMAIN servers' /\ 2 \in DOMAIN servers'
  <2>1. servers' \in Seq(Pids)
    BY DEF KnownType
  <2> QED  BY <1>1, <2>1
<1>4. 2 \in DOMAIN servers /\ servers'[1] = servers[1] /\ servers'[2] = servers[2]
  BY <1>3 DEF Remain
<1>5. Len(servers) = 2
  <2> DEFINE l == Len(servers)
  <2>1. servers \in Seq(Pids) /\ l <= 2
    BY DEF KnownType, MaxServers
  <2>2. l \in Nat /\ DOMAIN servers = 1 .. l
    BY <2>1
  <2>3. 2 \in 1 .. l
    BY <1>4, <2>2
  <2> HIDE DEF l
  <2>4. l = 2
    BY <2>1, <2>2, <2>3
  <2> QED  BY <2>4 DEF l
<1>6. \A j \in {1, 2} : /\ proc[servers[j]] = "up" /\ has'[servers[j]] = has[servers[j]]
                        /\ DOMAIN store'[servers[j]] = DOMAIN store[servers[j]]
  BY <1>1, <1>3, <1>4 DEF Remain
<1> DEFINE p == servers[1]
           q == servers[2]
<1>7. /\ proc[p] = "up" /\ proc[q] = "up" /\ has'[p] = has[p] /\ has'[q] = has[q]
      /\ DOMAIN store'[p] = DOMAIN store[p] /\ DOMAIN store'[q] = DOMAIN store[q]
      /\ servers'[1] = p /\ servers'[2] = q
  BY <1>4, <1>6
<1>8. CASE mgr' = mgr /\ servers' = servers
  <2>1. /\ Broadcasting' <=> Broadcasting
        /\ Back' = Back /\ box'[Back] = box[Back] /\ box'["added"] = box["added"]
    BY <1>8 DEF Broadcasting, Back, Calm
  <2>2. Same(p, q)' <=> Same(p, q)
    BY <1>7, <1>8 DEF Same
  <2>3. Works(mgr.msg, q)' <=> Works(mgr.msg, q)
    BY <1>7, <1>8 DEF Works, AboveExists, Exists
  <2>4. Ahead(mgr.msg, p, q)' <=> Ahead(mgr.msg, p, q)
    BY <1>7, <1>8, <2>2, <2>3 DEF Ahead
  <2> HIDE DEF p, q
  <2> QED  BY <1>2, <1>5, <1>7, <1>8, <2>1, <2>2, <2>3, <2>4 DEF AgreeInv, p, q
<1>9. CASE mgr.wait \notin Elsewise /\ mgr'.wait \notin Elsewise
  <2>1. ~Broadcasting /\ ~Broadcasting' /\ mgr'.wait # "struct_add"
    BY <1>9 DEF Broadcasting, Elsewise
  <2>2. Same(p, q)
    BY <1>2, <1>5, <1>7, <2>1 DEF AgreeInv
  <2>3. Same(servers[1], servers[2])'
    BY <1>7, <2>2 DEF Same
  <2> QED  BY <2>1, <2>3 DEF AgreeInv
<1> QED  BY <1>8, <1>9 DEF Calm

(* The manager goes on to know the collections the servers have.           *)
LEMMA KnowsKept ==
  ASSUME KnowsInv, Calm, Remain, DOMAIN seps' = DOMAIN seps
  PROVE  KnowsInv'
<1>1. SUFFICES ASSUME Sound', NEW j \in DOMAIN servers', proc'[servers'[j]] = "up"
               PROVE  HasOf(j, IF Passed(j) THEN Renewed ELSE DOMAIN seps)'
  BY DEF KnowsInv
<1>2. Sound /\ (Unmixed' => Unmixed)
  BY <1>1 DEF Sound, Calm, Elsewise, Unmixed
<1>3. /\ j \in DOMAIN servers /\ servers'[j] = servers[j] /\ proc[servers[j]] = "up"
      /\ DOMAIN store'[servers'[j]] = DOMAIN store[servers[j]]
  BY <1>1 DEF Remain
<1>4. HasOf(j, IF Passed(j) THEN Renewed ELSE DOMAIN seps)
  BY <1>2, <1>3 DEF KnowsInv
<1>5. CASE mgr' = mgr /\ servers' = servers
  <2>1. /\ Broadcasting' <=> Broadcasting
        /\ Back' = Back /\ box'[Back] = box[Back] /\ box'["added"] = box["added"]
    BY <1>5 DEF Broadcasting, Back, Calm
  <2>2. (Passed(j)' <=> Passed(j)) /\ Renewed' = Renewed
    BY <1>5, <2>1 DEF Passed, Renewed
  <2> QED  BY <1>2, <1>3, <1>4, <2>2 DEF HasOf
<1>6. CASE mgr.wait \notin Elsewise /\ mgr'.wait \notin Elsewise
  <2>1. ~Passed(j) /\ ~Passed(j)'
    BY <1>6 DEF Passed, Broadcasting, Elsewise
  <2> QED  BY <1>2, <1>3, <1>4, <2>1 DEF HasOf
<1> QED  BY <1>5, <1>6 DEF Calm

(* The counts that are awaited stay so.                                    *)
LEMMA CountKept ==
  ASSUME CountInv, faults' = 0 => faults = 0, mgr.wait = "rollback" => mgr'.wait = "rollback",
         box'["count"] = box["count"],
         (mgr' = mgr /\ servers' = servers) \/ (mgr.wait # "count" /\ mgr'.wait # "count"),
         LeavesAlone({"GET_RECORDS_CNT"}, mgr.wait = "count")
  PROVE  CountInv'
<1> DEFINE C == {"GET_RECORDS_CNT"}
<1> HIDE DEF C
<1>1. SUFFICES ASSUME Sound'  PROVE CountInv'
  BY DEF CountInv
<1>2. Sound
  BY <1>1 DEF Sound
<1>3. ASSUME NEW p \in Pids
      PROVE  IF Counting(p)' THEN One(inbox'[p], C, OwnMsg("GET_RECORDS_CNT", Head(mgr'.todo)))
                             ELSE None(inbox'[p], C)
  <2> DEFINE m == OwnMsg("GET_RECORDS_CNT", Head(mgr.todo))
  <2>1. IF Counting(p) THEN One(inbox[p], C, m) ELSE None(inbox[p], C)
    BY <1>2 DEF CountInv, C
  <2>2. CASE mgr' = mgr /\ servers' = servers
    <3>1. m' = m
      BY <2>2 DEF m
    <3> HIDE DEF m
    <3>2. CASE Kept(inbox[p], inbox'[p], C) /\ (mgr.wait = "count" => proc'[p] = proc[p])
      <4>1. Counting(p)' <=> Counting(p)
        BY <2>2, <3>2 DEF Counting
      <4>2. IF Counting(p)' THEN One(inbox'[p], C, m) ELSE None(inbox'[p], C)
        BY <2>1, <3>2, <4>1 DEF Kept
      <4> QED  BY <2>2, <4>2 DEF m
    <3>3. CASE None(inbox'[p], C) /\ (mgr.wait = "count" => proc'[p] # "up")
      BY <2>2, <3>3 DEF Counting
    <3> QED  BY <3>2, <3>3 DEF LeavesAlone, C
  <2>3. CASE mgr.wait # "count" /\ mgr'.wait # "count"
    <3>1. ~Counting(p) /\ ~Counting(p)'
      BY <2>3 DEF Counting
    <3> QED  BY <2>1, <3>1 DEF LeavesAlone, Kept, C
  <2> QED  BY <2>2, <2>3
<1>4. IF mgr'.wait = "count" THEN Len(box'["count"]) <= 1 ELSE box'["count"] = <<>>
  BY <1>2 DEF CountInv
<1> QED  BY <1>3, <1>4 DEF CountInv, C

-----------------------------------------------------------------------------
(* What is kept of the broadcasts, together.                               *)
StructInv == PidInv /\ NestInv /\ NamedInv /\ BroadcastInv /\ AgreeInv /\ KnowsInv

(* A server's inbox loses its oldest message, or all of them.              *)
LEMMA TakenKeeps ==
  ASSUME MailType, NEW p \in Pids, inbox[p] # <<>>, inbox' = Taken(p),
         NEW C, Head(inbox[p]).cmd \notin C
  PROVE  \A q \in Pids : Kept(inbox[q], inbox'[q], C)
<1>1. ASSUME NEW q \in Pids  PROVE Kept(inbox[q], inbox'[q], C)
  <2>1. inbox \in [Pids -> Seq(Asking)]
    BY DEF MailType
  <2>2. inbox'[q] = IF q = p THEN Tail(inbox[p]) ELSE inbox[q]
    BY <2>1 DEF Taken
  <2>3. Kept(inbox[p], Tail(inbox[p]), C)
    BY <2>1, TailKeeps
  <2> QED  BY <2>2, <2>3, SameKeeps
<1> QED  BY <1>1

(* The manager puts messages of the commands D into inboxes.               *)
Sends(D) ==
  \A p \in Pids :
    \/ inbox'[p] = inbox[p]
    \/ \E m : m.cmd \in D /\ inbox'[p] = Append(inbox[p], m)

(* Messages of the commands D that are sent change nothing about others.   *)
LEMMA SendsKeeps ==
  ASSUME MailType, NEW D, Sends(D), NEW C, D \cap C = {}
  PROVE  \A q \in Pids : Kept(inbox[q], inbox'[q], C)
<1>1. ASSUME NEW q \in Pids  PROVE Kept(inbox[q], inbox'[q], C)
  <2>1. inbox[q] \in Seq(Asking)
    BY DEF MailType
  <2>2. CASE inbox'[q] = inbox[q]
    BY <2>2, SameKeeps
  <2>3. CASE \E m : m.cmd \in D /\ inbox'[q] = Append(inbox[q], m)
    BY <2>1, <2>3, AppendKeeps
  <2> QED  BY <2>2, <2>3 DEF Sends
<1> QED  BY <1>1

(* One message that is put is a message that is sent.                      *)
LEMMA PostSends ==
  ASSUME MailType, NEW p, NEW m, NEW D, m.cmd \in D, inbox' = Post(inbox, p, m)
  PROVE  Sends(D)
<1>1. inbox \in [Pids -> Seq(Asking)]
  BY DEF MailType
<1> QED  BY <1>1 DEF Sends, Post

(* Requests are taken from the front, and put named at the end.            *)
LEMMA NamedKept ==
  ASSUME MailType, NamedInv,
         \/ UNCHANGED requests
         \/ requests # <<>> /\ requests' = Tail(requests)
         \/ \E m : m.named /\ requests' = Append(requests, m)
  PROVE  NamedInv'
<1>1. requests \in Seq(Asking)
  BY DEF MailType
<1>2. CASE UNCHANGED requests
  BY <1>2 DEF NamedInv
<1>3. CASE requests # <<>> /\ requests' = Tail(requests)
  BY <1>1, <1>3, TailAt DEF NamedInv
<1>4. CASE \E m : m.named /\ requests' = Append(requests, m)
  BY <1>1, <1>4, AppendAt DEF NamedInv
<1> QED  BY <1>2, <1>3, <1>4

(* The steps of clients.                                                   *)
LEMMA StructClient ==
  ASSUME TypeInv, TypeInv', StructInv, NEW c \in Clients, Request(c) \/ Client(c)
  PROVE  StructInv'
<1>1. /\ UNCHANGED <<proc, spawned, inbox, box, has, store, servers, seps, mgr, run, faults, past>>
      /\ \/ UNCHANGED requests
         \/ \E m : m.named /\ requests' = Append(requests, m)
  <2>1. CASE Request(c)
    <3>1. \E m : m.named /\ requests' = Append(requests, m)
      BY <2>1, RequestShape DEF Ask
    <3> QED  BY <2>1, <3>1 DEF Request, data
  <2>2. CASE Client(c)
    BY <2>2 DEF Client, TakeReply, TakeRangeReply, ClientTimeout, data, mail
  <2> QED  BY <2>1, <2>2
<1>2. NamedInv'
  BY <1>1, NamedKept DEF StructInv, TypeInv
<1>3. Calm /\ Remain /\ LeavesAlone(Structural, Broadcasting)
  BY <1>1, SameKeeps DEF Calm, Remain, LeavesAlone
<1>4. BroadcastInv' /\ AgreeInv' /\ KnowsInv'
  BY <1>1, <1>3, BroadcastKept, AgreeKept, KnowsKept DEF StructInv, TypeInv
<1>5. PidInv' /\ NestInv'
  BY <1>1 DEF StructInv, PidInv, NestInv, Broadcasting
<1> QED  BY <1>2, <1>4, <1>5 DEF StructInv

-----------------------------------------------------------------------------
(* The steps of servers that are not about a broadcast.                    *)
ServesAside(p) ==
  /\ UNCHANGED <<spawned, requests, servers, seps, mgr, run>>
  /\ past \subseteq past' /\ (faults' = 0 => faults = 0) /\ proc[p] = "up"
  /\ box'["added"] = box["added"] /\ box'["disposed"] = box["disposed"]
  /\ \/ Dies(p)
     \/ /\ UNCHANGED <<proc, has>> /\ \A q \in Pids : DOMAIN store'[q] = DOMAIN store[q]
        /\ inbox[p] # <<>> /\ inbox' = Taken(p) /\ Head(inbox[p]).cmd \notin Structural

(* All that a server does but for adding and disposing leaves the          *)
(* broadcast alone.                                                        *)
LEMMA ServerAside ==
  ASSUME TypeInv, NEW p \in Pids,
         \/ ServeSetup(p) \/ ServeCount(p) \/ ServeData(p) \/ NoMemory(p) \/ ServeRange(p)
         \/ ServeEnd(p) \/ LoseQueue(p)
  PROVE  ServesAside(p)
<1>0. faults' = 0 => faults = 0
  <2>1. faults \in Nat
    BY ClusterAssumption DEF TypeInv, HistoryType
  <2>2. faults' = faults \/ faults' = faults + 1
    BY DEF ServeSetup, ServeCount, ServeData, NoMemory, ServeRange, ServeEnd, LoseQueue
  <2> QED  BY <2>1, <2>2
<1>1. /\ UNCHANGED <<spawned, requests, servers, seps, mgr, run>>
      /\ past \subseteq past' /\ (faults' = 0 => faults = 0) /\ proc[p] = "up"
  BY <1>0
  DEF ServeSetup, ServeCount, ServeData, NoMemory, ServeRange, ServeEnd, LoseQueue, Elsewhere, Serves
<1>2. /\ box \in [Boxes -> Seq(Asking)] /\ "added" \in Boxes /\ "disposed" \in Boxes
      /\ "setup" \in Boxes /\ "count" \in Boxes /\ "answer" \in Boxes
  BY DEF TypeInv, MailType, Boxes
<1>3. \/ Dies(p)
      \/ /\ UNCHANGED <<proc, has>>
         /\ \/ UNCHANGED store
            \/ \E S, c : store' = [store EXCEPT ![p][c] = S] /\ c \in DOMAIN store[p]
         /\ inbox[p] # <<>> /\ inbox' = Taken(p) /\ Head(inbox[p]).cmd \notin Structural
         /\ \E b \in {"setup", "count", "answer"} : \E l : box' = [box EXCEPT ![b] = l]
  <2>1. CASE ServeSetup(p)
    BY <2>1 DEF ServeSetup, Serves, Answer, data, Structural, AddStruct, DropStruct
  <2>2. CASE ServeCount(p)
    BY <2>2 DEF ServeCount, Serves, Answer, data, Structural, AddStruct, DropStruct
  <2>3. CASE ServeData(p)
    <3>1. Head(inbox[p]).cmd \notin Structural /\ inbox[p] # <<>> /\ UNCHANGED <<proc, has>>
      BY <2>3 DEF ServeData, Serves, Structural, AddStruct, DropStruct, DataChanges
    <3>2. inbox' = Taken(p) /\ \E l : box' = [box EXCEPT !["answer"] = l]
      BY <2>3 DEF ServeData, Answer
    <3>3. UNCHANGED store \/ \E S, c : store' = [store EXCEPT ![p][c] = S] /\ c \in DOMAIN store[p]
      BY <2>3 DEF ServeData
    <3> QED  BY <3>1, <3>2, <3>3
  <2>4. CASE ServeRange(p)
    BY <2>4 DEF ServeRange, Serves, Answer, data, Structural, AddStruct, DropStruct
  <2>5. CASE ServeEnd(p) \/ LoseQueue(p)
    BY <2>5 DEF ServeEnd, LoseQueue
  <2>6. CASE NoMemory(p)
    BY <2>6 DEF NoMemory, Serves, Answer, data, Structural, AddStruct, DropStruct
  <2> QED  BY <2>1, <2>2, <2>3, <2>4, <2>5, <2>6
<1>4. box'["added"] = box["added"] /\ box'["disposed"] = box["disposed"]
  BY <1>2, <1>3 DEF Dies
<1>5. CASE Dies(p)
  BY <1>1, <1>4, <1>5 DEF ServesAside
<1>6. CASE \/ UNCHANGED store
           \/ \E S, c : store' = [store EXCEPT ![p][c] = S] /\ c \in DOMAIN store[p]
  <2>1. store = [q \in Pids |-> store[q]] /\ \A q \in Pids : store[q] \in [DOMAIN store[q] -> SUBSET Keys]
    BY DEF TypeInv, ServersType, IsMap
  <2>2. \A q \in Pids : DOMAIN store'[q] = DOMAIN store[q]
    BY <1>6, <2>1
  <2> QED  BY <1>1, <1>3, <1>4, <2>2 DEF ServesAside
<1> QED  BY <1>3, <1>5, <1>6

(* Such a step of a server keeps the invariant.                            *)
LEMMA StructServes ==
  ASSUME TypeInv, TypeInv', StructInv, NEW p \in Pids, ServesAside(p)
  PROVE  StructInv'
<1>1. /\ MailType /\ inbox \in [Pids -> Seq(Asking)] /\ spawned \in Pids
      /\ proc \in [Pids -> {"unborn", "up", "gone"}]
      /\ has \in [Pids -> SUBSET {"pool", "schema"}] /\ store = [q \in Pids |-> store[q]]
      /\ servers \in Seq(Pids)
  BY DEF TypeInv, MailType, ServersType, KnownType
<1>2. /\ UNCHANGED <<spawned, requests, servers, seps, mgr, run>>
      /\ past \subseteq past' /\ (faults' = 0 => faults = 0) /\ proc[p] = "up"
      /\ box'["added"] = box["added"] /\ box'["disposed"] = box["disposed"]
  BY DEF ServesAside
<1>3. \A j \in DOMAIN servers : servers[j] \in Pids
  BY <1>1
<1>4. ASSUME NEW q \in Pids
      PROVE  /\ proc'[q] = "up" => /\ proc[q] = "up" /\ has'[q] = has[q]
                                   /\ DOMAIN store'[q] = DOMAIN store[q]
             /\ has'[q] \in {has[q], {}} /\ DOMAIN store'[q] \in {DOMAIN store[q], {}}
             /\ has'[q] = {} => DOMAIN store'[q] = {} \/ has[q] = {}
             /\ proc'[q] = proc[q] \/ proc[q] = "up"
             /\ \/ Kept(inbox[q], inbox'[q], Structural) /\ proc'[q] = proc[q]
                \/ inbox'[q] = <<>> /\ proc'[q] # "up"
             /\ \A C : Kept(inbox[q], inbox'[q], C) \/ inbox'[q] = <<>> \/ q = p
  <2>1. CASE Dies(p)
    <3>1. /\ proc'[q] = IF q = p THEN "gone" ELSE proc[q]
          /\ has'[q] = IF q = p THEN {} ELSE has[q]
          /\ store'[q] = IF q = p THEN EmptyMap ELSE store[q]
          /\ inbox'[q] = IF q = p THEN <<>> ELSE inbox[q]
      BY <1>1, <2>1 DEF Dies
    <3>2. DOMAIN EmptyMap = {}
      BY DEF EmptyMap
    <3> QED  BY <1>2, <3>1, <3>2, SameKeeps
  <2>2. CASE /\ UNCHANGED <<proc, has>> /\ \A r \in Pids : DOMAIN store'[r] = DOMAIN store[r]
             /\ inbox[p] # <<>> /\ inbox' = Taken(p) /\ Head(inbox[p]).cmd \notin Structural
    <3>1. Kept(inbox[q], inbox'[q], Structural)
      BY <1>1, <2>2, TakenKeeps
    <3>2. q # p => inbox'[q] = inbox[q]
      BY <1>1, <2>2 DEF Taken
    <3> QED  BY <2>2, <3>1, <3>2, SameKeeps
  <2> QED  BY <2>1, <2>2 DEF ServesAside
<1>5. Calm /\ Remain /\ LeavesAlone(Structural, Broadcasting)
  <2>1. Calm
    BY <1>2 DEF Calm
  <2>2. Remain
    BY <1>2, <1>3, <1>4 DEF Remain
  <2>3. LeavesAlone(Structural, Broadcasting)
    BY <1>4, NothingThere DEF LeavesAlone
  <2> QED  BY <2>1, <2>2, <2>3
<1>6. BroadcastInv' /\ AgreeInv' /\ KnowsInv'
  BY <1>2, <1>5, BroadcastKept, AgreeKept, KnowsKept DEF StructInv, TypeInv
<1>7. NamedInv'
  BY <1>1, <1>2, NamedKept DEF StructInv
<1>8. NestInv'
  <2>1. ASSUME NEW q \in Pids
        PROVE  /\ "schema" \in has'[q] => "pool" \in has'[q]
               /\ DOMAIN store'[q] # {} => "schema" \in has'[q]
    <3>1. /\ "schema" \in has[q] => "pool" \in has[q]
          /\ DOMAIN store[q] # {} => "schema" \in has[q]
      BY DEF StructInv, NestInv
    <3> QED  BY <1>4, <3>1
  <2> QED  BY <2>1 DEF NestInv
<1>9. PidInv'
  <2>1. ASSUME mgr.wait = "setup"
        PROVE  /\ None(inbox'[spawned], Commands \ {"SET_IN_MEMORY_CACHE_MODE"})
               /\ has'[spawned] = {} /\ DOMAIN store'[spawned] = {}
    <3>1. None(inbox[spawned], Commands \ {"SET_IN_MEMORY_CACHE_MODE"})
          /\ has[spawned] = {} /\ DOMAIN store[spawned] = {}
      BY <2>1 DEF StructInv, PidInv
    <3>2. None(inbox'[spawned], Commands \ {"SET_IN_MEMORY_CACHE_MODE"})
      <4>1. CASE spawned # p \/ inbox'[spawned] = <<>>
        BY <1>1, <1>4, <3>1, <4>1, NothingThere DEF Kept
      <4>2. CASE spawned = p /\ inbox[p] # <<>> /\ inbox' = Taken(p)
        <5>1. inbox'[spawned] = Tail(inbox[p]) /\ inbox[p] \in Seq(Asking)
          BY <1>1, <4>2 DEF Taken
        <5> QED  BY <3>1, <4>2, <5>1, TailAt DEF None
      <4>3. Dies(p) /\ spawned = p => inbox'[spawned] = <<>>
        BY <1>1 DEF Dies
      <4> QED  BY <4>1, <4>2, <4>3 DEF ServesAside
    <3> QED  BY <1>1, <1>4, <3>1, <3>2
  <2>2. ASSUME NEW q \in Pids, q > spawned
        PROVE  proc'[q] = "unborn" /\ has'[q] = {} /\ DOMAIN store'[q] = {}
    <3>1. proc[q] = "unborn" /\ has[q] = {} /\ DOMAIN store[q] = {}
      BY <2>2 DEF StructInv, PidInv
    <3> QED  BY <1>4, <3>1
  <2>3. PidInv
    BY DEF StructInv
  <2> QED  BY <1>2, <2>1, <2>2, <2>3 DEF PidInv, Broadcasting
<1> QED  BY <1>6, <1>7, <1>8, <1>9 DEF StructInv

-----------------------------------------------------------------------------
(* A server carries out what is broadcast, or says why not.                *)
Does(m, p) ==
  /\ has' = [has EXCEPT ![p] = HasAfter(m, has[p])]
  /\ \A q \in Pids : DOMAIN store'[q] =
       IF q = p THEN DomainAfter(m, DOMAIN store[p]) ELSE DOMAIN store[q]

DoesNot == UNCHANGED has /\ \A q \in Pids : DOMAIN store'[q] = DOMAIN store[q]

AnswersStruct(m, p, a) ==
  /\ a.cmd = m.cmd /\ a.coll = m.coll
  /\ m.cmd \notin {"DISPOSE_POOL", "DISPOSE_SCHEMA"} => a.named = m.named
  /\ \/ Works(m, p) /\ a.status = "OK" /\ Does(m, p)
     \/ ~Works(m, p) /\ a.status # "OK" /\ DoesNot
     \/ faults' # 0 /\ DoesNot

ServesStruct(p, m, b) ==
  /\ UNCHANGED <<proc, spawned, requests, servers, seps, mgr, run>>
  /\ past \subseteq past' /\ (faults' = 0 => faults = 0)
  /\ proc[p] = "up" /\ inbox[p] # <<>> /\ m = Head(inbox[p]) /\ inbox' = Taken(p)
  /\ (b = "added" /\ m.cmd \in AddStruct) \/ (b = "disposed" /\ m.cmd \in DropStruct)
  /\ \E a : box' = [box EXCEPT ![b] = Append(@, a)] /\ AnswersStruct(m, p, a)
  /\ m.cmd \in {"DISPOSE_POOL", "DISPOSE_SCHEMA"} /\ Works(m, p) /\ DOMAIN store[p] # {} =>
       "dropped_above" \in past'

(* A server adds what is asked for, or does not and says so.               *)
LEMMA AddShape ==
  ASSUME TypeInv, NEW p \in Pids, ServeAddStruct(p)
  PROVE  ServesStruct(p, Head(inbox[p]), "added")
<1> DEFINE m == Head(inbox[p])
<1>1. /\ m \in Asking /\ m.cmd \in AddStruct /\ proc[p] = "up" /\ inbox[p] # <<>>
  <2>1. Serves(p, AddStruct)
    BY DEF ServeAddStruct
  <2> QED  BY <2>1, ServesType DEF TypeInv, Serves
<1>2. /\ UNCHANGED <<proc, spawned, requests, servers, seps, mgr, run, past>>
      /\ inbox' = Taken(p) /\ (faults' = faults \/ faults' = faults + 1)
  BY DEF ServeAddStruct, Elsewhere, Answer
<1>3. faults \in Nat /\ (faults' = faults + 1 => faults' # 0)
  <2>1. faults \in Nat
    BY ClusterAssumption DEF TypeInv, HistoryType
  <2> QED  BY <2>1
<1>4. /\ has \in [Pids -> SUBSET {"pool", "schema"}]
      /\ store = [q \in Pids |-> store[q]]
  BY DEF TypeInv, ServersType
<1> HIDE DEF m
<1>5. \A status \in Statuses :
        LET a == [m EXCEPT !.status = status]
        IN  a.cmd = m.cmd /\ a.coll = m.coll /\ a.named = m.named /\ a.status = status
  BY <1>1, StatusType
<1>6. {"INVALID_PATH", "DUPLICATE", "BAD_ALLOC", "OK"} \subseteq Statuses
  BY DEF Statuses
<1>7. m.cmd \notin {"DISPOSE_POOL", "DISPOSE_SCHEMA"}
  BY <1>1 DEF AddStruct
<1>8. Works(m, p) <=> AboveExists(p, m) /\ ~Exists(p, m)
  BY <1>1 DEF Works
<1>9. PICK status \in {"INVALID_PATH", "DUPLICATE", "BAD_ALLOC", "OK"} :
        /\ Answer(p, "added", [m EXCEPT !.status = status])
        /\ \/ status \in {"INVALID_PATH", "DUPLICATE"} /\ ~Works(m, p) /\ UNCHANGED data
           \/ status = "BAD_ALLOC" /\ faults' = faults + 1 /\ UNCHANGED data
           \/ /\ status = "OK" /\ Works(m, p)
              /\ IF m.cmd = "ADD_COLLECTION"
                 THEN /\ store' = [store EXCEPT ![p] = [c \in DOMAIN @ \cup {m.coll} |->
                                     IF c = m.coll THEN {} ELSE @[c]]]
                      /\ UNCHANGED has
                 ELSE /\ has' = [has EXCEPT ![p] =
                           @ \cup {IF m.cmd = "ADD_POOL" THEN "pool" ELSE "schema"}]
                      /\ UNCHANGED store
  <2>1. \/ ~Works(m, p) /\ Answer(p, "added", [m EXCEPT !.status = "INVALID_PATH"]) /\ UNCHANGED data
        \/ ~Works(m, p) /\ Answer(p, "added", [m EXCEPT !.status = "DUPLICATE"]) /\ UNCHANGED data
        \/ faults' = faults + 1 /\ Answer(p, "added", [m EXCEPT !.status = "BAD_ALLOC"]) /\ UNCHANGED data
        \/ /\ Works(m, p) /\ Answer(p, "added", [m EXCEPT !.status = "OK"])
           /\ IF m.cmd = "ADD_COLLECTION"
              THEN /\ store' = [store EXCEPT ![p] = [c \in DOMAIN @ \cup {m.coll} |->
                                  IF c = m.coll THEN {} ELSE @[c]]]
                   /\ UNCHANGED has
              ELSE /\ has' = [has EXCEPT ![p] =
                        @ \cup {IF m.cmd = "ADD_POOL" THEN "pool" ELSE "schema"}]
                   /\ UNCHANGED store
    BY <1>8 DEF ServeAddStruct, m
  <2> HIDE DEF Works, Answer
  <2> QED  BY <2>1
<1> DEFINE a == [m EXCEPT !.status = status]
<1>10. a.cmd = m.cmd /\ a.coll = m.coll /\ a.named = m.named /\ a.status = status
  BY <1>5, <1>6
<1>11. box' = [box EXCEPT !["added"] = Append(@, a)]
  BY <1>9 DEF Answer
<1>12. UNCHANGED data => DoesNot
  BY DEF data, DoesNot
<1>13. CASE status # "OK"
  <2>1. AnswersStruct(m, p, a)
    <3> HIDE DEF a, Works
    <3> QED  BY <1>3, <1>9, <1>10, <1>12, <1>13 DEF AnswersStruct
  <2> HIDE DEF a
  <2> QED  BY <1>1, <1>2, <1>3, <1>7, <1>11, <2>1 DEF ServesStruct, m
<1>14. CASE status = "OK"
  <2>1. status = "OK" /\ Works(m, p)
    BY <1>9, <1>14
  <2>2. Does(m, p)
    <3>1. CASE m.cmd = "ADD_COLLECTION"
      <4>1. /\ store' = [store EXCEPT ![p] = [c \in DOMAIN store[p] \cup {m.coll} |->
                                               IF c = m.coll THEN {} ELSE store[p][c]]]
            /\ has' = has
        BY <1>9, <1>14, <3>1
      <4>2. HasAfter(m, has[p]) = has[p] /\ DomainAfter(m, DOMAIN store[p]) = DOMAIN store[p] \cup {m.coll}
        BY <3>1 DEF HasAfter, DomainAfter
      <4> QED  BY <1>4, <4>1, <4>2 DEF Does
    <3>2. CASE m.cmd # "ADD_COLLECTION"
      <4>1. /\ has' = [has EXCEPT ![p] = has[p] \cup {IF m.cmd = "ADD_POOL" THEN "pool" ELSE "schema"}]
            /\ store' = store
        BY <1>9, <1>14, <3>2
      <4>2. /\ m.cmd \in {"ADD_POOL", "ADD_SCHEMA"}
        BY <1>1, <3>2 DEF AddStruct
      <4>3. /\ HasAfter(m, has[p]) = has[p] \cup {IF m.cmd = "ADD_POOL" THEN "pool" ELSE "schema"}
            /\ DomainAfter(m, DOMAIN store[p]) = DOMAIN store[p]
        BY <4>2 DEF HasAfter, DomainAfter
      <4> QED  BY <1>4, <4>1, <4>3 DEF Does
    <3> QED  BY <3>1, <3>2
  <2>3. AnswersStruct(m, p, a)
    <3> HIDE DEF a
    <3> QED  BY <1>10, <2>1, <2>2 DEF AnswersStruct
  <2> HIDE DEF a
  <2> QED  BY <1>1, <1>2, <1>3, <1>7, <1>11, <2>3 DEF ServesStruct, m
<1> QED  BY <1>13, <1>14

(* A server disposes what is asked for, or does not and says so.           *)
LEMMA DropShape ==
  ASSUME TypeInv, NEW p \in Pids, ServeDisposeStruct(p)
  PROVE  ServesStruct(p, Head(inbox[p]), "disposed")
<1> DEFINE m == Head(inbox[p])
<1>1. /\ m \in Asking /\ m.cmd \in DropStruct /\ proc[p] = "up" /\ inbox[p] # <<>>
  <2>1. Serves(p, DropStruct)
    BY DEF ServeDisposeStruct
  <2> QED  BY <2>1, ServesType DEF TypeInv, Serves
<1>2. /\ UNCHANGED <<proc, spawned, requests, servers, seps, mgr, run, faults>>
      /\ inbox' = Taken(p) /\ past \subseteq past'
  BY DEF ServeDisposeStruct, Elsewhere, Answer
<1>3. /\ has \in [Pids -> SUBSET {"pool", "schema"}]
      /\ store = [q \in Pids |-> store[q]]
  BY DEF TypeInv, ServersType
<1> HIDE DEF m
<1>4. \A status \in Statuses :
        LET a == [WithoutName(m) EXCEPT !.status = status]
        IN  /\ a.cmd = m.cmd /\ a.coll = m.coll /\ a.status = status
            /\ m.cmd = "DISPOSE_COLLECTION" => a.named = m.named
  <2>1. /\ WithoutName(m) \in Asking /\ WithoutName(m).cmd = m.cmd /\ WithoutName(m).coll = m.coll
        /\ m.cmd = "DISPOSE_COLLECTION" => WithoutName(m).named = m.named
    BY <1>1 DEF WithoutName, Asking, Message
  <2> HIDE DEF WithoutName
  <2> QED  BY <2>1, StatusType
<1>5. {"INVALID_PATH", "NOT_EXIST", "OK"} \subseteq Statuses
  BY DEF Statuses
<1>6. m.cmd \notin {"DISPOSE_POOL", "DISPOSE_SCHEMA"} => m.cmd = "DISPOSE_COLLECTION"
  BY <1>1 DEF DropStruct
<1>7. Works(m, p) <=> AboveExists(p, m) /\ Exists(p, m)
  BY <1>1 DEF Works, AddStruct, DropStruct
<1>8. PICK status \in {"INVALID_PATH", "NOT_EXIST", "OK"} :
        /\ Answer(p, "disposed", [WithoutName(m) EXCEPT !.status = status])
        /\ \/ status # "OK" /\ ~Works(m, p) /\ UNCHANGED data
           \/ /\ status = "OK" /\ Works(m, p)
              /\ has' = [has EXCEPT ![p] = CASE m.cmd = "DISPOSE_POOL"   -> {}
                                           [] m.cmd = "DISPOSE_SCHEMA" -> {"pool"}
                                           [] OTHER                    -> @]
              /\ store' = [store EXCEPT ![p] =
                   IF m.cmd = "DISPOSE_COLLECTION"
                   THEN [c \in DOMAIN @ \ {m.coll} |-> @[c]]
                   ELSE EmptyMap]
              /\ past' = IF m.cmd # "DISPOSE_COLLECTION" /\ DOMAIN store[p] # {}
                         THEN past \cup {"dropped_above"} ELSE past
  <2>1. \/ ~Works(m, p) /\ Answer(p, "disposed", [WithoutName(m) EXCEPT !.status = "INVALID_PATH"])
           /\ UNCHANGED data
        \/ ~Works(m, p) /\ Answer(p, "disposed", [WithoutName(m) EXCEPT !.status = "NOT_EXIST"])
           /\ UNCHANGED data
        \/ /\ Works(m, p) /\ Answer(p, "disposed", [WithoutName(m) EXCEPT !.status = "OK"])
           /\ has' = [has EXCEPT ![p] = CASE m.cmd = "DISPOSE_POOL"   -> {}
                                           [] m.cmd = "DISPOSE_SCHEMA" -> {"pool"}
                                           [] OTHER                    -> @]
           /\ store' = [store EXCEPT ![p] =
                   IF m.cmd = "DISPOSE_COLLECTION"
                   THEN [c \in DOMAIN @ \ {m.coll} |-> @[c]]
                   ELSE EmptyMap]
           /\ past' = IF m.cmd # "DISPOSE_COLLECTION" /\ DOMAIN store[p] # {}
                         THEN past \cup {"dropped_above"} ELSE past
    BY <1>7 DEF ServeDisposeStruct, m
  <2> HIDE DEF Works, Answer, WithoutName
  <2> QED  BY <2>1
<1> DEFINE a == [WithoutName(m) EXCEPT !.status = status]
<1>9. /\ a.cmd = m.cmd /\ a.coll = m.coll /\ a.status = status
      /\ m.cmd = "DISPOSE_COLLECTION" => a.named = m.named
  BY <1>4, <1>5
<1>10. box' = [box EXCEPT !["disposed"] = Append(@, a)]
  BY <1>8 DEF Answer
<1>11. CASE status # "OK"
  <2>1. ~Works(m, p) /\ DoesNot
    BY <1>8, <1>11 DEF data, DoesNot
  <2>2. AnswersStruct(m, p, a)
    <3> HIDE DEF a, Works
    <3> QED  BY <1>6, <1>9, <1>11, <2>1 DEF AnswersStruct
  <2> HIDE DEF a
  <2> QED  BY <1>1, <1>2, <1>10, <2>1, <2>2 DEF ServesStruct, m
<1>12. CASE status = "OK"
  <2>1. Works(m, p) /\ (m.cmd # "DISPOSE_COLLECTION" /\ DOMAIN store[p] # {} => "dropped_above" \in past')
    BY <1>8, <1>12
  <2>2. Does(m, p)
    <3>1. /\ has' = [has EXCEPT ![p] = HasAfter(m, has[p])]
      BY <1>1, <1>8, <1>12 DEF HasAfter, DropStruct
    <3>2. CASE m.cmd = "DISPOSE_COLLECTION"
      <4>1. store' = [store EXCEPT ![p] = [c \in DOMAIN store[p] \ {m.coll} |-> store[p][c]]]
        BY <1>8, <1>12, <3>2
      <4>2. DomainAfter(m, DOMAIN store[p]) = DOMAIN store[p] \ {m.coll}
        BY <3>2 DEF DomainAfter
      <4> QED  BY <1>3, <3>1, <4>1, <4>2 DEF Does
    <3>3. CASE m.cmd # "DISPOSE_COLLECTION"
      <4>1. store' = [store EXCEPT ![p] = EmptyMap]
        BY <1>8, <1>12, <3>3
      <4>2. DomainAfter(m, DOMAIN store[p]) = {} /\ DOMAIN EmptyMap = {}
        BY <1>6, <3>3 DEF DomainAfter, EmptyMap
      <4> QED  BY <1>3, <3>1, <4>1, <4>2 DEF Does
    <3> QED  BY <3>2, <3>3
  <2>3. AnswersStruct(m, p, a)
    <3> HIDE DEF a
    <3> QED  BY <1>6, <1>9, <1>12, <2>1, <2>2 DEF AnswersStruct
  <2>4. m.cmd \in {"DISPOSE_POOL", "DISPOSE_SCHEMA"} => m.cmd # "DISPOSE_COLLECTION"
    OBVIOUS
  <2> HIDE DEF a
  <2> QED  BY <1>1, <1>2, <1>10, <2>1, <2>3, <2>4 DEF ServesStruct, m
<1> QED  BY <1>11, <1>12

(* A server takes from its inbox what the broadcast put there, so that it  *)
(* is the server the broadcast has reached.                                *)
LEMMA StructTaken ==
  ASSUME TypeInv, BroadcastInv, Sound, NEW p \in Pids, NEW m, NEW b \in {"added", "disposed"},
         ServesStruct(p, m, b)
  PROVE  /\ Broadcasting /\ m = mgr.msg /\ b = Back /\ box[Back] = <<>> /\ box[Other] = <<>>
         /\ p = servers[mgr.i]
         /\ \A q \in Pids : None(inbox'[q], Structural)
<1>1. inbox \in [Pids -> Seq(Asking)] /\ inbox[p] \in Seq(Asking)
  BY DEF TypeInv, MailType
<1>2. /\ m = Head(inbox[p]) /\ inbox[p] # <<>> /\ inbox' = Taken(p) /\ m.cmd \in Structural
      /\ (b = "added" /\ m.cmd \in AddStruct) \/ (b = "disposed" /\ m.cmd \in DropStruct)
  BY DEF ServesStruct, Structural
<1>3. ~None(inbox[p], Structural)
  BY <1>1, <1>2, TailAt DEF None
<1>4. Awaited(p) /\ One(inbox[p], Structural, mgr.msg)
  BY <1>3 DEF BroadcastInv
<1>5. Broadcasting /\ box[Back] = <<>> /\ p = servers[mgr.i]
  BY <1>4 DEF Awaited
<1>6. m = mgr.msg /\ None(Tail(inbox[p]), Structural)
  BY <1>1, <1>2, <1>4, TailTakes
<1>7. box[Other] = <<>> /\ m.cmd \in (IF mgr.wait = "struct_add" THEN AddStruct ELSE DropStruct)
  BY <1>5, <1>6 DEF BroadcastInv
<1>8. b = Back
  BY <1>2, <1>5, <1>7 DEF Back, AddStruct, DropStruct
<1>9. ASSUME NEW q \in Pids  PROVE None(inbox'[q], Structural)
  <2>1. inbox'[q] = IF q = p THEN Tail(inbox[p]) ELSE inbox[q]
    BY <1>1, <1>2 DEF Taken
  <2>2. CASE q # p
    <3>1. ~Awaited(q)
      BY <1>5, <2>2 DEF Awaited
    <3> QED  BY <2>1, <2>2, <3>1 DEF BroadcastInv
  <2> QED  BY <1>6, <2>1, <2>2
<1> QED  BY <1>5, <1>6, <1>7, <1>8, <1>9

(* The server the broadcast has reached has answered: its message is gone, *)
(* the answer is there.                                                    *)
LEMMA BroadcastServed ==
  ASSUME TypeInv, BroadcastInv, NEW p \in Pids, NEW m, NEW b \in {"added", "disposed"},
         ServesStruct(p, m, b)
  PROVE  BroadcastInv'
<1>1. SUFFICES ASSUME Sound'  PROVE BroadcastInv'
  BY DEF BroadcastInv
<1>2. UNCHANGED <<mgr, servers, proc>> /\ past \subseteq past' /\ Sound
  BY <1>1 DEF ServesStruct, Sound
<1>3. /\ Broadcasting /\ m = mgr.msg /\ b = Back /\ box[Back] = <<>> /\ box[Other] = <<>>
      /\ \A q \in Pids : None(inbox'[q], Structural)
  BY <1>2, StructTaken
<1>4. PICK a : box' = [box EXCEPT ![b] = Append(@, a)] /\ AnswersStruct(m, p, a)
  BY DEF ServesStruct
<1>5. /\ box'[Back] = <<a>> /\ box'[Other] = <<>>
      /\ a.cmd = m.cmd /\ a.coll = m.coll
      /\ m.cmd \notin {"DISPOSE_POOL", "DISPOSE_SCHEMA"} => a.named = m.named
  <2>1. box \in [Boxes -> Seq(Asking)] /\ Back \in Boxes /\ Other \in Boxes /\ Back # Other
    BY DEF TypeInv, MailType, Boxes, Back, Other
  <2>2. Append(<<>>, a) = <<a>>
    OBVIOUS
  <2> QED  BY <1>3, <1>4, <2>1, <2>2 DEF AnswersStruct
<1>6. Back' = Back /\ Other' = Other /\ Broadcasting' /\ mgr' = mgr
  BY <1>2, <1>3 DEF Back, Other, Broadcasting
<1>7. box'[Back'] = <<a>> /\ box'[Other'] = <<>>
  BY <1>5, <1>6
<1>8. <<a>> # <<>> /\ Len(<<a>>) = 1 /\ <<a>>[1] = a
  OBVIOUS
<1>9. \A q \in Pids : ~Awaited(q)'
  BY <1>7, <1>8 DEF Awaited
<1>10. /\ mgr.msg.cmd \in (IF mgr.wait = "struct_add" THEN AddStruct ELSE DropStruct)
       /\ mgr.msg.named \/ mgr.msg.cmd = "DISPOSE_POOL" \/ (mgr.msg.cmd = "DISPOSE_SCHEMA" /\ mgr.i > 1)
       /\ mgr.msg.cmd = "DISPOSE_SCHEMA" => Len(servers) = 1 \/ "half_disposed" \in past
  BY <1>2, <1>3 DEF BroadcastInv
<1>11. m.cmd \notin {"DISPOSE_POOL", "DISPOSE_SCHEMA"} => a.named
  BY <1>3, <1>5, <1>10
<1> QED  BY <1>2, <1>3, <1>5, <1>6, <1>7, <1>8, <1>9, <1>10, <1>11 DEF BroadcastInv

(* Two servers that had the same differ by what one of them did, or have   *)
(* the same again.                                                         *)
LEMMA AgreeServed ==
  ASSUME TypeInv, PidInv, BroadcastInv, AgreeInv, NEW p \in Pids, NEW m,
         NEW b \in {"added", "disposed"}, ServesStruct(p, m, b)
  PROVE  AgreeInv'
<1>1. SUFFICES ASSUME Sound', past' \cap {"joined_late", "half_disposed"} = {}, Len(servers') = 2,
                      proc'[servers'[1]] = "up", proc'[servers'[2]] = "up"
               PROVE  AgreeInv'
  BY DEF AgreeInv
<1>2. /\ UNCHANGED <<mgr, servers, proc>> /\ past \subseteq past' /\ Sound /\ faults' = 0
  BY <1>1 DEF ServesStruct, Sound
<1>3. /\ Broadcasting /\ m = mgr.msg /\ b = Back /\ box[Back] = <<>> /\ p = servers[mgr.i]
  BY <1>2, StructTaken
<1>4. PICK a : box' = [box EXCEPT ![b] = Append(@, a)] /\ AnswersStruct(m, p, a)
  BY DEF ServesStruct
<1>5. Back' = Back /\ Broadcasting' /\ (mgr.wait = "struct_add" => Back = "added")
  BY <1>2, <1>3 DEF Back, Broadcasting
<1>6. box'[Back] = <<a>>
  <2>1. box \in [Boxes -> Seq(Asking)] /\ Back \in Boxes
    BY DEF TypeInv, MailType, Boxes, Back
  <2>2. Append(<<>>, a) = <<a>>
    OBVIOUS
  <2> QED  BY <1>3, <1>4, <2>1, <2>2
<1>7. box'[Back'] # <<>> /\ (mgr.wait = "struct_add" => box'["added"][1] = a)
  <2>1. <<a>> # <<>> /\ <<a>>[1] = a
    OBVIOUS
  <2> QED  BY <1>5, <1>6, <2>1
<1> DEFINE s1 == servers[1]
           s2 == servers[2]
<1>8. /\ s1 \in Pids /\ s2 \in Pids /\ s1 # s2 /\ mgr.i \in {1, 2}
      /\ servers'[1] = s1 /\ servers'[2] = s2
  <2>1. servers \in Seq(Pids) /\ Len(servers) = 2
    BY <1>1, <1>2 DEF TypeInv, KnownType
  <2>2. DOMAIN servers = 1 .. 2
    BY <2>1
  <2>3. mgr.i \in 1 .. 2 /\ s1 # s2
    BY <1>3, <2>2 DEF PidInv
  <2> QED  BY <1>2, <2>1, <2>2, <2>3
<1>9. p = IF mgr.i = 1 THEN s1 ELSE s2
  BY <1>3, <1>8
<1>10. has \in [Pids -> SUBSET {"pool", "schema"}]
  BY DEF TypeInv, ServersType
<1>11. \/ Works(m, p) /\ a.status = "OK" /\ Does(m, p)
       \/ ~Works(m, p) /\ a.status # "OK" /\ DoesNot
  BY <1>2, <1>4 DEF AnswersStruct
<1>12. IF mgr.i = 1 THEN Same(s1, s2)
       ELSE Ahead(m, s1, s2) /\ (mgr.wait = "struct_add" => Works(m, s2))
  <2>1. /\ past \cap {"joined_late", "half_disposed"} = {} /\ Len(servers) = 2
        /\ proc[servers[1]] = "up" /\ proc[servers[2]] = "up"
    BY <1>1, <1>2
  <2> HIDE DEF Works, Ahead, Same
  <2> QED  BY <1>2, <1>3, <1>8, <2>1 DEF AgreeInv
<1>13. /\ ~(~Broadcasting' \/ (mgr'.i = 1 /\ ~(Broadcasting' /\ box'[Back'] # <<>>))
              \/ (mgr'.i = 2 /\ (Broadcasting' /\ box'[Back'] # <<>>))) <=> mgr.i = 1
  BY <1>2, <1>5, <1>7, <1>8
<1>14. CASE mgr.i = 1
  <2>1. Same(s1, s2) /\ p = s1
    BY <1>9, <1>12, <1>14
  <2>2. Works(m, s2)' <=> Works(m, s2)
    <3>1. has'[s2] = has[s2] /\ DOMAIN store'[s2] = DOMAIN store[s2]
      BY <1>8, <1>10, <1>11, <2>1 DEF Does, DoesNot
    <3> QED  BY <1>8, <3>1 DEF Works, AboveExists, Exists
  <2>3. Works(m, s1) <=> Works(m, s2)
    BY <2>1 DEF Works, AboveExists, Exists, Same
  <2>4. CASE Works(m, s2)
    <3>1. Does(m, s1) /\ a.status = "OK"
      BY <1>11, <2>1, <2>3, <2>4
    <3>2. /\ has'[s1] = HasAfter(m, has[s1]) /\ has'[s2] = has[s2]
          /\ DOMAIN store'[s1] = DomainAfter(m, DOMAIN store[s1])
          /\ DOMAIN store'[s2] = DOMAIN store[s2]
      BY <1>8, <1>10, <3>1 DEF Does
    <3>3. has[s1] = has[s2] /\ DOMAIN store[s1] = DOMAIN store[s2]
      BY <2>1 DEF Same
    <3>4. Ahead(m, s1, s2)'
      <4>1. has'[s1] = HasAfter(m, has'[s2]) /\ DOMAIN store'[s1] = DomainAfter(m, DOMAIN store'[s2])
        BY <3>2, <3>3
      <4>2. Works(m, s2)'
        BY <2>2, <2>4
      <4> HIDE DEF Works, HasAfter, DomainAfter
      <4> QED  BY <1>8, <4>1, <4>2 DEF Ahead
    <3> HIDE DEF Works, Ahead
    <3> QED  BY <1>2, <1>3, <1>7, <1>8, <1>13, <1>14, <2>2, <2>4, <3>1, <3>4 DEF AgreeInv
  <2>5. CASE ~Works(m, s2)
    <3>1. DoesNot /\ a.status # "OK"
      BY <1>11, <2>1, <2>3, <2>5
    <3>2. Same(s1, s2)'
      BY <1>8, <2>1, <3>1 DEF DoesNot, Same
    <3>3. Ahead(m, s1, s2)'
      <4> HIDE DEF Works
      <4> QED  BY <2>2, <2>5, <3>2 DEF Ahead
    <3> HIDE DEF Works, Ahead, Same
    <3> QED  BY <1>2, <1>3, <1>7, <1>8, <1>13, <1>14, <2>2, <2>5, <3>1, <3>2, <3>3 DEF AgreeInv
  <2> QED  BY <2>4, <2>5
<1>15. CASE mgr.i = 2
  <2>1. p = s2 /\ Ahead(m, s1, s2) /\ (mgr.wait = "struct_add" => Works(m, s2))
    BY <1>9, <1>12, <1>15
  <2>2. Same(s1, s2)'
    <3>1. CASE Works(m, s2)
      <4>1. Does(m, s2)
        BY <1>11, <2>1, <3>1
      <4>2. /\ has'[s2] = HasAfter(m, has[s2]) /\ has'[s1] = has[s1]
            /\ DOMAIN store'[s2] = DomainAfter(m, DOMAIN store[s2])
            /\ DOMAIN store'[s1] = DOMAIN store[s1]
        BY <1>8, <1>10, <4>1 DEF Does
      <4>3. has[s1] = HasAfter(m, has[s2]) /\ DOMAIN store[s1] = DomainAfter(m, DOMAIN store[s2])
        BY <2>1, <3>1 DEF Ahead
      <4> QED  BY <1>8, <4>2, <4>3 DEF Same
    <3>2. CASE ~Works(m, s2)
      <4>1. DoesNot /\ Same(s1, s2)
        BY <1>11, <2>1, <3>2 DEF Ahead
      <4> QED  BY <1>8, <4>1 DEF Same, DoesNot
    <3> QED  BY <3>1, <3>2
  <2>3. mgr.wait = "struct_add" => a.status = "OK"
    BY <1>11, <2>1
  <2> HIDE DEF Same
  <2> QED  BY <1>2, <1>3, <1>7, <1>8, <1>13, <1>15, <2>2, <2>3 DEF AgreeInv
<1> QED  BY <1>8, <1>14, <1>15

(* A server has what the manager will know when the broadcast is over.     *)
LEMMA KnowsServed ==
  ASSUME TypeInv, PidInv, NestInv, BroadcastInv, KnowsInv, NEW p \in Pids, NEW m,
         NEW b \in {"added", "disposed"}, ServesStruct(p, m, b)
  PROVE  KnowsInv'
<1>1. SUFFICES ASSUME Sound', NEW j \in DOMAIN servers', proc'[servers'[j]] = "up"
               PROVE  HasOf(j, IF Passed(j) THEN Renewed ELSE DOMAIN seps)'
  BY DEF KnowsInv
<1>2. /\ UNCHANGED <<mgr, servers, proc, seps>> /\ past \subseteq past' /\ Sound /\ faults' = 0
      /\ (Unmixed' => Unmixed)
  BY <1>1 DEF ServesStruct, Sound, Unmixed
<1>3. /\ Broadcasting /\ m = mgr.msg /\ b = Back /\ box[Back] = <<>> /\ p = servers[mgr.i]
  BY <1>2, StructTaken
<1>4. PICK a : box' = [box EXCEPT ![b] = Append(@, a)] /\ AnswersStruct(m, p, a)
  BY DEF ServesStruct
<1>5. Back' = Back /\ Broadcasting' /\ (mgr.wait = "struct_add" => Back = "added") /\ Renewed' = Renewed
  BY <1>2, <1>3 DEF Back, Broadcasting, Renewed
<1>6. box'[Back'] # <<>> /\ (mgr.wait = "struct_add" => box'["added"][1] = a)
  <2>1. box \in [Boxes -> Seq(Asking)] /\ Back \in Boxes
    BY DEF TypeInv, MailType, Boxes, Back
  <2>2. Append(<<>>, a) = <<a>> /\ <<a>> # <<>> /\ <<a>>[1] = a
    OBVIOUS
  <2>3. box'[Back] = <<a>>
    BY <1>3, <1>4, <2>1, <2>2
  <2> QED  BY <1>5, <2>2, <2>3
<1>7. /\ HasOf(j, IF Passed(j) THEN Renewed ELSE DOMAIN seps)
      /\ servers'[j] = servers[j] /\ servers[j] \in Pids /\ j \in Nat
  <2>1. servers \in Seq(Pids) /\ j \in DOMAIN servers
    BY <1>1, <1>2 DEF TypeInv, KnownType
  <2>2. servers[j] \in Pids /\ j \in Nat
    BY <2>1
  <2> QED  BY <1>1, <1>2, <2>1, <2>2 DEF KnowsInv
<1>8. \/ Works(m, p) /\ a.status = "OK" /\ Does(m, p)
      \/ ~Works(m, p) /\ a.status # "OK" /\ DoesNot
  BY <1>2, <1>4 DEF AnswersStruct
<1>9. mgr.i \in DOMAIN servers /\ mgr.i \in Nat
  BY <1>3 DEF PidInv, TypeInv, MgrType, Places, MaxServers
<1>10. CASE j # mgr.i
  <2>1. servers[j] # p
    BY <1>1, <1>2, <1>3, <1>9, <1>10 DEF PidInv
  <2>2. DOMAIN store'[servers[j]] = DOMAIN store[servers[j]]
    BY <1>7, <1>8, <2>1 DEF Does, DoesNot
  <2>3. Passed(j)' <=> Passed(j)
    BY <1>2, <1>3, <1>5, <1>10 DEF Passed
  <2> QED  BY <1>2, <1>5, <1>7, <2>2, <2>3 DEF HasOf
<1>11. CASE j = mgr.i
  <2> DEFINE d == DOMAIN store[p]
  <2>1. servers[j] = p /\ ~Passed(j) /\ d \subseteq DOMAIN seps /\ (Unmixed => d = DOMAIN seps)
    <3>1. ~(j < mgr.i)
      BY <1>9, <1>11
    <3> QED  BY <1>3, <1>7, <1>11, <3>1 DEF Passed, HasOf
  <2>2. Passed(j)' <=> (mgr.wait = "struct_add" => a.status = "OK")
    <3>1. ~(j < mgr.i)
      BY <1>9, <1>11
    <3> QED  BY <1>2, <1>5, <1>6, <1>11, <3>1 DEF Passed
  <2>3. /\ m.cmd \in (IF mgr.wait = "struct_add" THEN AddStruct ELSE DropStruct)
        /\ m.named \/ m.cmd \in {"DISPOSE_POOL", "DISPOSE_SCHEMA"}
    BY <1>2, <1>3 DEF BroadcastInv
  <2>4. DOMAIN store'[p] = IF Works(m, p) THEN DomainAfter(m, d) ELSE d
    BY <1>8 DEF Does, DoesNot
  <2>5. Renewed = CASE m.cmd = "ADD_COLLECTION" -> DOMAIN seps \cup {m.coll}
                    [] m.cmd = "DISPOSE_COLLECTION" -> DOMAIN seps \ {m.coll}
                    [] OTHER -> DOMAIN seps
    BY <1>3 DEF Renewed
  <2>6. SUFFICES /\ DOMAIN store'[p] \subseteq IF Passed(j)' THEN Renewed ELSE DOMAIN seps
                 /\ Unmixed' => DOMAIN store'[p] = IF Passed(j)' THEN Renewed ELSE DOMAIN seps
    BY <1>2, <1>5, <1>7, <2>1 DEF HasOf
  <2>7. CASE mgr.wait = "struct_add"
    <3>1. m.cmd \in AddStruct /\ (Passed(j)' <=> Works(m, p))
      BY <1>8, <2>2, <2>3, <2>7
    <3>2. CASE m.cmd = "ADD_COLLECTION"
      <4>1. DomainAfter(m, d) = d \cup {m.coll} /\ Renewed = DOMAIN seps \cup {m.coll}
        BY <2>5, <3>2 DEF DomainAfter
      <4> HIDE DEF d
      <4> QED  BY <1>2, <2>1, <2>4, <3>1, <4>1
    <3>3. CASE m.cmd # "ADD_COLLECTION"
      <4>1. DomainAfter(m, d) = d /\ Renewed = DOMAIN seps
        BY <2>5, <3>1, <3>3 DEF DomainAfter, AddStruct
      <4> HIDE DEF d
      <4> QED  BY <1>2, <2>1, <2>4, <3>1, <4>1
    <3> QED  BY <3>2, <3>3
  <2>8. CASE mgr.wait # "struct_add"
    <3>1. m.cmd \in DropStruct /\ Passed(j)'
      BY <2>2, <2>3, <2>8
    <3>2. CASE m.cmd = "DISPOSE_COLLECTION"
      <4>1. Renewed = DOMAIN seps \ {m.coll} /\ DomainAfter(m, d) = d \ {m.coll}
        BY <2>5, <3>2 DEF DomainAfter
      <4>2. ~Works(m, p) => m.coll \notin d
        BY <2>3, <3>2 DEF Works, AboveExists, Exists, NestInv, AddStruct
      <4> HIDE DEF d
      <4> QED  BY <1>2, <2>1, <2>4, <3>1, <4>1, <4>2
    <3>3. CASE m.cmd # "DISPOSE_COLLECTION"
      <4>1. m.cmd \in {"DISPOSE_POOL", "DISPOSE_SCHEMA"} /\ Renewed = DOMAIN seps
            /\ DomainAfter(m, d) = {}
        BY <2>5, <3>1, <3>3 DEF DomainAfter, DropStruct
      <4>2. Works(m, p) /\ Unmixed' => d = {}
        BY <4>1 DEF ServesStruct, Unmixed
      <4> HIDE DEF d
      <4> QED  BY <1>2, <2>1, <2>4, <3>1, <4>1, <4>2
    <3> QED  BY <3>2, <3>3
  <2> QED  BY <2>7, <2>8
<1> QED  BY <1>10, <1>11

(* The invariant is kept by a server that adds or disposes.                *)
LEMMA StructServed ==
  ASSUME TypeInv, TypeInv', StructInv, NEW p \in Pids, ServeAddStruct(p) \/ ServeDisposeStruct(p)
  PROVE  StructInv'
<1>1. PICK b \in {"added", "disposed"} : ServesStruct(p, Head(inbox[p]), b)
  BY AddShape, DropShape
<1> DEFINE m == Head(inbox[p])
<1>2. /\ UNCHANGED <<proc, spawned, requests, servers, seps, mgr, run>>
      /\ proc[p] = "up" /\ inbox[p] # <<>> /\ inbox' = Taken(p) /\ m.cmd \in Structural
  BY <1>1 DEF ServesStruct, Structural
<1>3. /\ MailType /\ inbox \in [Pids -> Seq(Asking)] /\ spawned \in Pids
      /\ has \in [Pids -> SUBSET {"pool", "schema"}]
  BY DEF TypeInv, MailType, ServersType
<1>4. BroadcastInv' /\ AgreeInv' /\ KnowsInv'
  BY <1>1, BroadcastServed, AgreeServed, KnowsServed DEF StructInv
<1>5. NamedInv'
  BY <1>2, <1>3, NamedKept DEF StructInv
<1>6. ASSUME NEW q \in Pids
      PROVE  /\ q # p => has'[q] = has[q] /\ DOMAIN store'[q] = DOMAIN store[q]
             /\ \/ has'[p] = has[p] /\ DOMAIN store'[p] = DOMAIN store[p]
                \/ /\ Works(m, p) /\ has'[p] = HasAfter(m, has[p])
                   /\ DOMAIN store'[p] = DomainAfter(m, DOMAIN store[p])
  <2>1. DoesNot \/ (Works(m, p) /\ Does(m, p))
    BY <1>1 DEF ServesStruct, AnswersStruct
  <2>2. CASE DoesNot
    BY <2>2 DEF DoesNot
  <2>3. CASE Works(m, p) /\ Does(m, p)
    <3> HIDE DEF m, Works
    <3> QED  BY <1>3, <2>3 DEF Does
  <2> QED  BY <2>1, <2>2, <2>3
<1> HIDE DEF m
<1>7. NestInv'
  <2>1. NestInv
    BY DEF StructInv
  <2>2. CASE Works(m, p) /\ has'[p] = HasAfter(m, has[p]) /\ DOMAIN store'[p] = DomainAfter(m, DOMAIN store[p])
    <3>1. /\ "schema" \in has[p] => "pool" \in has[p]
          /\ DOMAIN store[p] # {} => "schema" \in has[p]
      BY <2>1 DEF NestInv
    <3>2. m.cmd \in {"ADD_POOL", "ADD_SCHEMA", "ADD_COLLECTION", "DISPOSE_POOL", "DISPOSE_SCHEMA",
                     "DISPOSE_COLLECTION"}
      BY <1>2 DEF Structural, AddStruct, DropStruct
    <3>3. /\ "schema" \in has'[p] => "pool" \in has'[p]
          /\ DOMAIN store'[p] # {} => "schema" \in has'[p]
      BY <2>2, <3>1, <3>2 DEF Works, AboveExists, HasAfter, DomainAfter
    <3> QED  BY <1>6, <2>1, <3>3 DEF NestInv
  <2>3. CASE has'[p] = has[p] /\ DOMAIN store'[p] = DOMAIN store[p]
    BY <1>6, <2>1, <2>3 DEF NestInv
  <2> QED  BY <1>6, <2>2, <2>3
<1>8. PidInv'
  <2>1. PidInv
    BY DEF StructInv
  <2>2. mgr.wait = "setup" => p # spawned
    <3>1. SUFFICES ASSUME mgr.wait = "setup", p = spawned  PROVE FALSE
      OBVIOUS
    <3>2. None(inbox[p], Commands \ {"SET_IN_MEMORY_CACHE_MODE"})
      BY <2>1, <3>1 DEF PidInv
    <3>3. inbox[p] \in Seq(Asking) /\ m.cmd \in Commands \ {"SET_IN_MEMORY_CACHE_MODE"}
      BY <1>2, <1>3 DEF Structural, AddStruct, DropStruct, Commands
    <3> QED  BY <1>2, <3>2, <3>3, TailAt DEF None, m
  <2>3. \A q \in Pids : q # p => inbox'[q] = inbox[q]
    BY <1>2, <1>3 DEF Taken
  <2>4. \A q \in Pids : q > spawned => q # p
    BY <1>2, <2>1 DEF PidInv
  <2> QED  BY <1>2, <1>3, <1>6, <2>1, <2>2, <2>3, <2>4 DEF PidInv, Broadcasting
<1> QED  BY <1>4, <1>5, <1>7, <1>8 DEF StructInv

-----------------------------------------------------------------------------
(* The steps of the manager that are not about a broadcast.                *)
Plain == DataChanges \cup {"OBTAIN", "OBTAIN_BETWEEN", "OBTAIN_MIN", "OBTAIN_MAX", "OBTAIN_NEXT"}

Turns ==
  /\ mgr'.wait \notin Elsewise \cup {"setup"}
  /\ mgr'.wait = "ended" => ~run
  /\ mgr'.wait = "count" => mgr'.i \in DOMAIN servers

Aside ==
  /\ UNCHANGED <<proc, spawned, has, store, servers, run>> /\ DOMAIN seps' = DOMAIN seps
  /\ past \subseteq past' /\ (faults' = 0 => faults = 0)
  /\ box'["added"] = box["added"] /\ box'["disposed"] = box["disposed"]
  /\ UNCHANGED requests \/ (requests # <<>> /\ requests' = Tail(requests))
  /\ mgr.wait \notin Elsewise /\ Turns
  /\ Sends(Plain \cup {"GET_RECORDS_CNT"})

(* The invariant is kept by what the manager does besides.                 *)
LEMMA StructAside ==
  ASSUME TypeInv, TypeInv', StructInv, Aside
  PROVE  StructInv'
<1>1. (Plain \cup {"GET_RECORDS_CNT"}) \cap Structural = {} /\ MailType
  BY DEF Plain, Structural, AddStruct, DropStruct, DataChanges, TypeInv
<1>2. Calm /\ Remain /\ LeavesAlone(Structural, Broadcasting)
  <2>1. \A q \in Pids : Kept(inbox[q], inbox'[q], Structural)
    BY <1>1, SendsKeeps DEF Aside
  <2> QED  BY <2>1 DEF Aside, Turns, Calm, Remain, LeavesAlone
<1>3. BroadcastInv' /\ AgreeInv' /\ KnowsInv'
  BY <1>2, BroadcastKept, AgreeKept, KnowsKept DEF StructInv, TypeInv, Aside
<1>4. NamedInv'
  BY <1>1, NamedKept DEF StructInv, Aside
<1>5. NestInv'
  BY DEF Aside, StructInv, NestInv
<1>6. PidInv'
  BY DEF Aside, Turns, StructInv, PidInv, Broadcasting, Elsewise
<1> QED  BY <1>3, <1>4, <1>5, <1>6 DEF StructInv

(* The end of the loop body leads to the loop, to the end, or to a         *)
(* redistribution.                                                         *)
LEMMA BodyTurns ==
  ASSUME KnownType, run \in BOOLEAN, NEW changed, NEW n, EndBody(changed, n)
  PROVE  /\ mgr'.wait \in {"main", "ended", "path"} /\ (mgr'.wait = "ended" => ~run)
         /\ Turns
<1>1. "main" \in Waits /\ "ended" \in Waits /\ Paths \in Seq(Collections)
  BY PathsType DEF Waits
<1>2. /\ At("main").wait = "main" /\ At("ended").wait = "ended"
      /\ Over("redistribute", Paths).wait = "path"
  BY <1>1, AtType, OverType
<1> HIDE DEF At, Over, Paths
<1>3. mgr' \in {Over("redistribute", Paths), At("main")} \/ (mgr' = At("ended") /\ ~run)
  BY DEF EndBody
<1>4. mgr'.wait \in {"main", "ended", "path"} /\ (mgr'.wait = "ended" => ~run)
  BY <1>2, <1>3
<1> QED  BY <1>4 DEF Turns, Elsewise

(* So does a redistribution that is given up.                              *)
LEMMA GiveUpTurns ==
  ASSUME TypeInv, mgr.wait \in {"count"} \cup TransferWaits, GiveUp
  PROVE  mgr'.wait \in {"main", "ended", "path"} /\ Turns
<1>1. KnownType /\ run \in BOOLEAN
  BY DEF TypeInv, HistoryType
<1>2. CASE mgr.job = "terminate"
  BY <1>1, <1>2, BodyTurns DEF GiveUp, Return
<1>3. CASE mgr.job # "terminate"
  <2>1. mgr' = Over("redistribute", Tail(mgr.todo))
    BY <1>3 DEF GiveUp
  <2>2. Tail(mgr.todo) \in Seq(Collections)
    BY TailType DEF TypeInv, MgrType, Places
  <2> HIDE DEF Over
  <2>3. mgr'.wait = "path"
    BY <2>1, <2>2, OverType
  <2> QED  BY <2>3 DEF Turns, Elsewise
<1> QED  BY <1>2, <1>3

(* Requests and answers that are passed on.                                *)
LEMMA AsideForward ==
  ASSUME TypeInv, ForwardAnswer \/ ForwardRequest
  PROVE  Aside /\ Sends(Plain) /\ mgr.wait = "main"
<1>1. KnownType /\ run \in BOOLEAN /\ MailType /\ box \in [Boxes -> Seq(Asking)]
  BY DEF TypeInv, HistoryType, MailType
<1>2. CASE ForwardAnswer
  <2>1. /\ UNCHANGED <<proc, spawned, has, store, servers, run, seps, past, faults, requests, inbox>>
        /\ mgr.wait = "main"
    BY <1>2 DEF ForwardAnswer, Outside, data
  <2>2. box'["added"] = box["added"] /\ box'["disposed"] = box["disposed"]
    BY <1>1, <1>2 DEF ForwardAnswer
  <2>3. Turns
    BY <1>1, <1>2, BodyTurns DEF ForwardAnswer
  <2> QED  BY <2>1, <2>2, <2>3 DEF Aside, Elsewise, Sends
<1>3. CASE ForwardRequest
  <2> DEFINE m     == Head(requests)
             left  == Route(m.coll, m.key)
             right == IF m.cmd = "OBTAIN_BETWEEN" THEN Route(m.coll, m.hi) ELSE left
             ids   == left .. right
             part  == [m EXCEPT !.cnt = Cardinality(ids)]
             sent  == [p \in Pids |->
                         IF proc[p] = "up" /\ \E i \in ids \cap DOMAIN servers : servers[i] = p
                         THEN Append(inbox[p], part) ELSE inbox[p]]
  <2>1. /\ UNCHANGED <<proc, spawned, has, store, servers, run, seps, faults, box>>
        /\ mgr.wait = "main" /\ requests # <<>> /\ requests' = Tail(requests)
        /\ m \in Asking /\ m.cmd \in Plain
    <3>1. Asked(DataChanges \cup {"OBTAIN", "OBTAIN_BETWEEN"})
      BY <1>3 DEF ForwardRequest
    <3> HIDE DEF m
    <3> QED  BY <1>1, <1>3, <3>1, RequestTaken DEF ForwardRequest, Asked, Outside, data, Plain, m
  <2>2. past' = past \/ past' = past \cup {"unknown_path"}
    BY <1>3 DEF ForwardRequest
  <2>3. /\ inbox' = inbox \/ inbox' = sent
        /\ (\E n : EndBody(Counted(m), n)) \/ mgr' = At("dead")
    BY <1>3 DEF ForwardRequest, Aborts
  <2>4. part.cmd = m.cmd
    BY <2>1 DEF Asking, Message
  <2> HIDE DEF part, ids, m
  <2>5. Sends(Plain)
    <3>1. CASE inbox' = inbox
      BY <3>1 DEF Sends
    <3>2. CASE inbox' = sent
      <4>1. ASSUME NEW p \in Pids
            PROVE  inbox'[p] = inbox[p] \/ (part.cmd \in Plain /\ inbox'[p] = Append(inbox[p], part))
        BY <2>1, <2>4, <3>2
      <4> HIDE DEF sent
      <4> QED  BY <4>1 DEF Sends
    <3> QED  BY <2>3, <3>1, <3>2
  <2>6. Turns
    <3>1. At("dead").wait = "dead"
      BY AtType DEF Waits
    <3> HIDE DEF At
    <3>2. CASE mgr' = At("dead")
      BY <3>1, <3>2 DEF Turns, Elsewise
    <3> QED  BY <1>1, <2>3, <3>2, BodyTurns
  <2>7. Sends(Plain \cup {"GET_RECORDS_CNT"})
    BY <2>5 DEF Sends
  <2> QED  BY <2>1, <2>2, <2>5, <2>6, <2>7 DEF Aside, Elsewise
<1> QED  BY <1>2, <1>3

(* The next path of a redistribution, unless it lets a server go.          *)
LEMMA AsideNextPath ==
  ASSUME TypeInv, NextPath, ~(mgr.todo = <<>> /\ mgr.job = "terminate")
  PROVE  Aside /\ mgr.wait = "path"
<1>1. /\ KnownType /\ run \in BOOLEAN /\ MailType /\ MgrType
      /\ servers \in Seq(Pids) /\ Len(servers) <= MaxServers
  BY DEF TypeInv, HistoryType, KnownType
<1>2. /\ UNCHANGED <<proc, spawned, has, store, run, seps, faults, requests, box>>
      /\ mgr.wait = "path"
  BY DEF NextPath, Outside, data
<1>3. CASE mgr.todo = <<>>
  <2>1. Return /\ UNCHANGED <<inbox, servers, past>>
    BY <1>3 DEF NextPath
  <2>2. Turns
    BY <1>1, <2>1, BodyTurns DEF Return
  <2> QED  BY <1>2, <2>1, <2>2 DEF Aside, Elsewise, Sends
<1>4. CASE mgr.todo # <<>>
  <2> DEFINE i == IF mgr.job = "terminate" THEN Len(servers) ELSE 1
             l == Len(servers)
  <2>1. AskCount(i) /\ UNCHANGED <<servers, past>>
    BY <1>4 DEF NextPath
  <2>2. i \in DOMAIN servers
    <3>1. l \in Nat /\ DOMAIN servers = 1 .. l
      BY <1>1
    <3>2. servers # <<>>
      <4>1. mgr.todo \in Seq(DOMAIN seps)
        BY <1>1 DEF MgrType
      <4>2. Head(mgr.todo) \in DOMAIN seps
        BY <1>4, <4>1
      <4> QED  BY <1>1, <4>2 DEF KnownType
    <3>3. l # 0
      BY <1>1, <3>2
    <3> HIDE DEF l
    <3>4. l \in 1 .. l /\ 1 \in 1 .. l
      BY <3>1, <3>3
    <3> QED  BY <3>1, <3>4 DEF l
  <2>3. /\ inbox' = Post(inbox, servers[i], OwnMsg("GET_RECORDS_CNT", Head(mgr.todo)))
        /\ mgr' = [mgr EXCEPT !.wait = "count", !.i = i]
    BY <2>1 DEF AskCount
  <2>4. mgr'.wait = "count" /\ mgr'.i = i
    <3> HIDE DEF i
    <3> QED  BY <1>1, <2>3 DEF MgrType, Places
  <2>5. OwnMsg("GET_RECORDS_CNT", Head(mgr.todo)).cmd \in Plain \cup {"GET_RECORDS_CNT"}
    <3>1. Head(mgr.todo) \in Collections
      BY <1>1, <1>4 DEF MgrType, Places
    <3> QED  BY <3>1, OwnMsgType
  <2> HIDE DEF i
  <2>6. Sends(Plain \cup {"GET_RECORDS_CNT"})
    <3> HIDE DEF OwnMsg
    <3> QED  BY <1>1, <2>3, <2>5, PostSends
  <2> QED  BY <1>2, <2>1, <2>2, <2>4, <2>6 DEF Aside, Turns, Elsewise
<1> QED  BY <1>3, <1>4

(* What a count that is read leads to: the next one, or a transfer.        *)
LEMMA CountsOn ==
  ASSUME TypeInv, CountAnswer
  PROVE  \/ inbox' = inbox /\ mgr'.wait = "move"
         \/ /\ mgr'.wait = "count" /\ mgr'.i \in DOMAIN servers /\ mgr'.todo = mgr.todo
            /\ inbox' = Post(inbox, servers[mgr'.i], OwnMsg("GET_RECORDS_CNT", Head(mgr.todo)))
<1> DEFINE cnt == Head(box["count"]).cnt
           cnts == [mgr.cnts EXCEPT ![mgr.i - 1] = cnt]
           l == Len(servers)
<1>1. /\ CountedTo(cnt) /\ mgr \in Places /\ mgr.wait = "count" /\ mgr.i \in Nat \ {0}
      /\ servers \in Seq(Pids)
  BY DEF CountAnswer, TypeInv, MgrType, Places, MaxServers, KnownType
<1>2. l \in Nat /\ DOMAIN servers = 1 .. l
  BY <1>1
<1>3. CASE inbox' = inbox /\ \E dir, n : Transfers(dir, n)
  <2>1. mgr'.wait = "move"
    BY <1>1, <1>3 DEF Transfers, Places
  <2> QED  BY <1>3, <2>1
<1>4. CASE /\ mgr.i < l
           /\ inbox' = Post(inbox, servers[mgr.i + 1], OwnMsg("GET_RECORDS_CNT", Head(mgr.todo)))
           /\ mgr' = [mgr EXCEPT !.i = @ + 1, !.cnts = cnts]
  <2> HIDE DEF cnts
  <2>1. mgr'.wait = "count" /\ mgr'.i = mgr.i + 1 /\ mgr'.todo = mgr.todo
    BY <1>1, <1>4 DEF Places
  <2> HIDE DEF l
  <2>2. mgr.i + 1 \in DOMAIN servers
    BY <1>1, <1>2, <1>4
  <2> QED  BY <1>4, <2>1, <2>2
<1>5. \/ inbox' = inbox /\ \E dir, n : Transfers(dir, n)
      \/ /\ mgr.i < l
         /\ inbox' = Post(inbox, servers[mgr.i + 1], OwnMsg("GET_RECORDS_CNT", Head(mgr.todo)))
         /\ mgr' = [mgr EXCEPT !.i = @ + 1, !.cnts = cnts]
  <2>1. CASE mgr.job = "terminate"
    <3>1. inbox' = inbox /\ Transfers("left", cnt)
      BY <1>1, <2>1 DEF CountedTo, HandOver
    <3> HIDE DEF cnt
    <3> QED  BY <3>1
  <2>2. CASE mgr.job = "redistribute" /\ mgr.i < Len(servers)
    BY <1>1, <2>2 DEF CountedTo
  <2>3. CASE mgr.job # "terminate" /\ ~(mgr.job = "redistribute" /\ mgr.i < Len(servers))
    <3> HIDE DEF Transfers
    <3> QED  BY <1>1, <2>3 DEF CountedTo
  <2> QED  BY <2>1, <2>2, <2>3
<1> QED  BY <1>3, <1>4, <1>5

(* A count that comes, or does not.                                        *)
LEMMA AsideCount ==
  ASSUME TypeInv, CountAnswer \/ CountTimeout
  PROVE  Aside /\ mgr.wait = "count"
<1>1. /\ KnownType /\ run \in BOOLEAN /\ MailType /\ MgrType
      /\ box \in [Boxes -> Seq(Asking)] /\ faults \in Nat
      /\ servers \in Seq(Pids) /\ Len(servers) \in Nat /\ DOMAIN servers = 1 .. Len(servers)
  <2>1. servers \in Seq(Pids) /\ faults \in Nat
    BY ClusterAssumption DEF TypeInv, HistoryType, KnownType
  <2> QED  BY <2>1 DEF TypeInv, HistoryType, MailType
<1>2. /\ UNCHANGED <<proc, spawned, has, store, servers, run, seps, past, requests>>
      /\ mgr.wait = "count"
  BY DEF CountAnswer, CountTimeout, Outside, mail, data
<1>3. CASE CountTimeout
  <2>1. GiveUp /\ UNCHANGED <<inbox, box>> /\ RunsOut("count")
    BY <1>3 DEF CountTimeout, mail
  <2>2. Turns
    BY <1>2, <2>1, GiveUpTurns
  <2>3. faults' = 0 => faults = 0
    BY <1>1, <2>1 DEF RunsOut
  <2> QED  BY <1>2, <2>1, <2>2, <2>3 DEF Aside, Elsewise, Sends
<1>4. CASE CountAnswer
  <2>1. faults' = faults /\ box' = [box EXCEPT !["count"] = Tail(@)]
    BY <1>4 DEF CountAnswer
  <2>2. box'["added"] = box["added"] /\ box'["disposed"] = box["disposed"]
    BY <1>1, <2>1
  <2>3. CASE inbox' = inbox /\ mgr'.wait = "move"
    BY <1>2, <2>1, <2>2, <2>3 DEF Aside, Turns, Elsewise, Sends
  <2>4. CASE /\ mgr'.wait = "count" /\ mgr'.i \in DOMAIN servers /\ mgr'.todo = mgr.todo
             /\ inbox' = Post(inbox, servers[mgr'.i], OwnMsg("GET_RECORDS_CNT", Head(mgr.todo)))
    <3>1. OwnMsg("GET_RECORDS_CNT", Head(mgr.todo)).cmd \in Plain \cup {"GET_RECORDS_CNT"}
      <4>1. Head(mgr.todo) \in Collections
        BY <1>1, <1>2 DEF MgrType, Places
      <4> QED  BY <4>1, OwnMsgType
    <3>2. Sends(Plain \cup {"GET_RECORDS_CNT"})
      <4> HIDE DEF OwnMsg
      <4> QED  BY <1>1, <2>4, <3>1, PostSends
    <3> QED  BY <1>2, <2>1, <2>2, <2>4, <3>2 DEF Aside, Turns, Elsewise
  <2> QED  BY <1>4, <2>3, <2>4, CountsOn
<1> QED  BY <1>3, <1>4

(* A message of a transfer.                                                *)
LEMMA AsideSend ==
  ASSUME TypeInv, NEW p, NEW m, NEW cmd \in Plain, [m EXCEPT !.cmd = cmd].cmd = cmd,
         NEW wait \in TransferWaits, NEW sep, Send(p, m, cmd, wait, sep)
  PROVE  Sends(Plain) /\ Turns /\ mgr'.wait = wait
<1>1. MailType /\ mgr \in Places
  BY DEF TypeInv, MgrType
<1>2. mgr'.wait = wait
  BY <1>1 DEF Send, Places
<1> DEFINE n == [m EXCEPT !.cmd = cmd]
<1>3. inbox' = Post(inbox, p, n) /\ n.cmd \in Plain
  BY DEF Send
<1> HIDE DEF n
<1>4. Sends(Plain)
  BY <1>1, <1>3, PostSends
<1> QED  BY <1>2, <1>4 DEF Turns, Elsewise, TransferWaits

(* A transfer goes on or ends.                                             *)
LEMMA AsideBegin ==
  ASSUME TypeInv, BeginTransfer
  PROVE  Aside /\ Sends(Plain) /\ mgr.wait = "move" /\ mgr'.wait \notin {"count", "dead"}
<1>1. MailType /\ mgr \in Places /\ MgrType
  BY DEF TypeInv, MgrType
<1>2. /\ UNCHANGED <<proc, spawned, has, store, servers, run, seps, requests, box, faults>>
      /\ mgr.wait = "move"
  BY DEF BeginTransfer, Outside, data
<1>3. CASE mgr.n > 0
  <2>1. PICK p \in {From}, cmd \in {"OBTAIN_MIN", "OBTAIN_MAX"} :
          Send(p, OwnMsg("none", Head(mgr.todo)), cmd, "obtain", NoOne)
    <3> DEFINE which == IF mgr.dir = "left" THEN "OBTAIN_MIN" ELSE "OBTAIN_MAX"
    <3>1. Send(From, OwnMsg("none", Head(mgr.todo)), which, "obtain", NoOne)
      BY <1>1, <1>3 DEF BeginTransfer, Places
    <3>2. which \in {"OBTAIN_MIN", "OBTAIN_MAX"}
      OBVIOUS
    <3> HIDE DEF Send, which, From, OwnMsg
    <3> QED  BY <3>1, <3>2
  <2>2. past \subseteq past'
    BY <1>3 DEF BeginTransfer
  <2> DEFINE own == OwnMsg("none", Head(mgr.todo))
  <2>3. own \in Asking
    <3>1. Head(mgr.todo) \in Collections
      BY <1>1, <1>2 DEF MgrType, Places
    <3> QED  BY <3>1, OwnMsgType
  <2> HIDE DEF own
  <2>4. [own EXCEPT !.cmd = cmd].cmd = cmd
    BY <2>3 DEF Asking, Message
  <2>5. Sends(Plain) /\ Turns /\ mgr'.wait = "obtain"
    <3>1. cmd \in Plain /\ "obtain" \in TransferWaits
      BY DEF Plain, TransferWaits
    <3>2. Send(p, own, cmd, "obtain", NoOne)
      BY <2>1 DEF own
    <3> QED  BY <2>4, <3>1, <3>2, AsideSend
  <2>6. Sends(Plain \cup {"GET_RECORDS_CNT"})
    BY <2>5 DEF Sends
  <2> QED  BY <1>2, <2>2, <2>5, <2>6 DEF Aside, Elsewise
<1>4. CASE ~(mgr.n > 0)
  <2>1. mgr' = Over(mgr.job, Tail(mgr.todo)) /\ UNCHANGED <<inbox, past>>
    BY <1>4 DEF BeginTransfer
  <2>2. Tail(mgr.todo) \in Seq(Collections) /\ mgr.job \in {"terminate", "redistribute"}
    BY <1>1, <1>2, TailType DEF MgrType, Places
  <2> HIDE DEF Over
  <2>3. mgr'.wait = "path"
    BY <2>1, <2>2, OverType
  <2> QED  BY <1>2, <2>1, <2>3 DEF Aside, Turns, Elsewise, Sends
<1> QED  BY <1>3, <1>4

(* An answer in a transfer comes, or does not.                             *)
LEMMA AsideTransfer ==
  ASSUME TypeInv, TransferAnswer \/ TransferTimeout
  PROVE  Aside /\ Sends(Plain) /\ mgr.wait \in TransferWaits /\ mgr'.wait \notin {"count", "dead"}
<1>1. /\ MailType /\ mgr \in Places /\ MgrType /\ KnownType
      /\ box \in [Boxes -> Seq(Asking)] /\ faults \in Nat
  BY ClusterAssumption DEF TypeInv, MgrType, MailType, HistoryType
<1>2. /\ UNCHANGED <<proc, spawned, has, store, servers, run, requests, past>>
      /\ mgr.wait \in TransferWaits
  BY DEF TransferAnswer, TransferTimeout, Outside, data, TransferWaits
<1>3. /\ box'["added"] = box["added"] /\ box'["disposed"] = box["disposed"]
      /\ (faults' = 0 => faults = 0)
  <2>1. CASE TransferAnswer
    <3>1. box' = [box EXCEPT !["answer"] = Tail(@)] /\ faults' = faults
      BY <2>1 DEF TransferAnswer
    <3> QED  BY <1>1, <3>1
  <2>2. CASE TransferTimeout
    <3>1. box' = box /\ RunsOut("answer")
      BY <2>2 DEF TransferTimeout
    <3> QED  BY <1>1, <3>1 DEF RunsOut
  <2> QED  BY <2>1, <2>2
<1>4. CASE EndTransfer
  <2>1. DOMAIN seps' = DOMAIN seps /\ inbox' = inbox
    BY <1>4 DEF EndTransfer
  <2>2. mgr'.wait = "move"
    BY <1>1, <1>4 DEF EndTransfer, Places
  <2> QED  BY <1>2, <1>3, <2>1, <2>2 DEF Aside, Turns, Elsewise, Sends, TransferWaits
<1>5. CASE GiveUp /\ UNCHANGED <<inbox, seps>>
  <2>1. Turns /\ mgr'.wait \notin {"count", "dead"}
    BY <1>2, <1>5, GiveUpTurns
  <2> QED  BY <1>2, <1>3, <1>5, <2>1 DEF Aside, Elsewise, Sends, TransferWaits
<1>6. CASE /\ TransferAnswer /\ mgr.wait # "dispose" /\ Head(box["answer"]).status = "OK"
           /\ UNCHANGED <<seps, changes>>
  <2> DEFINE m == Head(box["answer"])
  <2>1. m \in Asking
    BY <1>1, <1>6, BoxTaken DEF TransferAnswer, Boxes
  <2> HIDE DEF m
  <2>2. PICK p \in {From, To}, cmd \in {"OBTAIN_NEXT", "ADD", "DISPOSE"},
               wait \in {"next", "add", "dispose"}, sep \in {NoOne, m.key, mgr.newsep} :
          Send(p, m, cmd, wait, sep)
    <3>1. \/ Send(From, m, "OBTAIN_NEXT", "next", NoOne)
          \/ Send(To, m, "ADD", "add", m.key)
          \/ mgr.wait = "add" /\ Send(From, m, "DISPOSE", "dispose", mgr.newsep)
      BY <1>6 DEF TransferAnswer, m
    <3> HIDE DEF Send, From, To
    <3>2. CASE Send(From, m, "OBTAIN_NEXT", "next", NoOne)
      BY <3>2
    <3>3. CASE Send(To, m, "ADD", "add", m.key)
      BY <3>3
    <3>4. CASE Send(From, m, "DISPOSE", "dispose", mgr.newsep)
      BY <3>4
    <3> QED  BY <3>1, <3>2, <3>3, <3>4
  <2>3. [m EXCEPT !.cmd = cmd].cmd = cmd
    BY <2>1 DEF Asking, Message
  <2>4. Sends(Plain) /\ Turns /\ mgr'.wait \notin {"count", "dead"}
    <3>1. cmd \in Plain /\ wait \in TransferWaits /\ wait \notin {"count", "dead"}
      BY DEF Plain, TransferWaits, DataChanges
    <3> QED  BY <2>2, <2>3, <3>1, AsideSend
  <2>5. Sends(Plain \cup {"GET_RECORDS_CNT"})
    BY <2>4 DEF Sends
  <2> QED  BY <1>2, <1>3, <1>6, <2>4, <2>5 DEF Aside, Elsewise, TransferWaits
<1>7. CASE TransferAnswer
  <2>1. \/ EndTransfer
        \/ GiveUp /\ UNCHANGED <<inbox, seps>>
        \/ /\ mgr.wait # "dispose" /\ Head(box["answer"]).status = "OK"
           /\ UNCHANGED <<seps, changes>>
    <3>1. CASE mgr.wait = "dispose"
      BY <1>7, <3>1 DEF TransferAnswer
    <3>2. CASE mgr.wait # "dispose"
      BY <1>7, <3>2 DEF TransferAnswer
    <3> QED  BY <3>1, <3>2
  <2> QED  BY <1>4, <1>5, <1>6, <1>7, <2>1
<1>8. CASE TransferTimeout
  BY <1>4, <1>5, <1>8 DEF TransferTimeout
<1> QED  BY <1>7, <1>8

(* terminate and shutdown as the manager reads them.                       *)
LEMMA AsideTyped ==
  ASSUME TypeInv, HandleTerminate \/ HandleShutdown
  PROVE  Aside /\ UNCHANGED inbox /\ mgr.wait = "main" /\ mgr'.wait \in {"dead", "ended", "path"}
<1>1. KnownType
  BY DEF TypeInv
<1>2. /\ UNCHANGED <<proc, spawned, has, store, servers, run, requests, past, inbox, box, seps, faults>>
      /\ mgr.wait = "main"
  BY DEF HandleTerminate, HandleShutdown, Outside, data, mail
<1>3. /\ At("dead").wait = "dead" /\ At("ended").wait = "ended"
      /\ Over("terminate", Paths).wait = "path"
  <2>1. Paths \in Seq(Collections)
    BY <1>1, PathsType
  <2> QED  BY <2>1, AtType, OverType DEF Waits
<1> HIDE DEF At, Over, Paths
<1>4. mgr'.wait \in {"dead", "path"} \/ (mgr'.wait = "ended" /\ ~run)
  BY <1>3 DEF HandleTerminate, HandleShutdown
<1> QED  BY <1>2, <1>4 DEF Aside, Turns, Elsewise, Sends

(* A structure command when there is no server.                            *)
LEMMA AsideStruct ==
  ASSUME TypeInv, HandleStruct, servers = <<>>
  PROVE  Aside /\ UNCHANGED inbox /\ mgr.wait = "main" /\ mgr'.wait \notin {"count", "dead"}
<1>1. KnownType /\ run \in BOOLEAN
  BY DEF TypeInv, HistoryType
<1>2. /\ UNCHANGED <<proc, spawned, has, store, servers, run, past, inbox, box, seps, faults>>
      /\ mgr.wait = "main" /\ requests # <<>> /\ requests' = Tail(requests)
  BY DEF HandleStruct, Asked, Outside, data
<1>3. Turns /\ mgr'.wait \notin {"count", "dead"}
  BY <1>1, BodyTurns DEF HandleStruct, Return
<1> QED  BY <1>2, <1>3 DEF Aside, Elsewise, Sends

-----------------------------------------------------------------------------
(* Servers that are started and ended.                                     *)
LEMMA StructLetGo ==
  ASSUME TypeInv, TypeInv', StructInv, NextPath, mgr.todo = <<>>, mgr.job = "terminate"
  PROVE  StructInv'
<1>1. /\ UNCHANGED <<proc, spawned, has, store, run, seps, faults, requests, box>>
      /\ mgr.wait = "path" /\ LetGo /\ past \subseteq past'
  BY DEF NextPath, Outside, data
<1>2. /\ servers' = Front(servers) /\ mgr' = Over("redistribute", Paths)
      /\ inbox' = Post(inbox, servers[Len(servers)], OwnMsg("TERMINATE", NoOne))
  BY <1>1 DEF LetGo
<1>3. MailType /\ KnownType /\ Paths \in Seq(Collections) /\ servers \in Seq(Pids) /\ Len(servers) = 2
  BY PathsType DEF TypeInv, KnownType, MgrType, MaxServers
<1>4. mgr'.wait = "path"
  <2> HIDE DEF Over, Paths
  <2> QED  BY <1>2, <1>3, OverType
<1>5. Sends({"TERMINATE"})
  <2>1. OwnMsg("TERMINATE", NoOne).cmd \in {"TERMINATE"}
    BY OwnMsgType
  <2> HIDE DEF OwnMsg
  <2> QED  BY <1>2, <1>3, <2>1, PostSends
<1>6. \A q \in Pids : Kept(inbox[q], inbox'[q], Structural)
  <2>1. {"TERMINATE"} \cap Structural = {}
    BY DEF Structural, AddStruct, DropStruct
  <2> QED  BY <1>3, <1>5, <2>1, SendsKeeps
<1>7. \A j \in DOMAIN servers' : j \in DOMAIN servers /\ servers'[j] = servers[j]
  <2>1. servers' = [j \in 1 .. 1 |-> servers[j]] /\ DOMAIN servers = 1 .. 2
    BY <1>2, <1>3 DEF Front
  <2> QED  BY <2>1
<1>8. Calm /\ Remain /\ LeavesAlone(Structural, Broadcasting)
  BY <1>1, <1>4, <1>6, <1>7 DEF Calm, Remain, LeavesAlone, Elsewise
<1>9. BroadcastInv' /\ AgreeInv' /\ KnowsInv'
  BY <1>1, <1>8, BroadcastKept, AgreeKept, KnowsKept DEF StructInv, TypeInv
<1>10. NamedInv' /\ NestInv'
  BY <1>1 DEF StructInv, NamedInv, NestInv
<1>11. PidInv'
  BY <1>1, <1>4, <1>7 DEF StructInv, PidInv, Broadcasting
<1> QED  BY <1>9, <1>10, <1>11 DEF StructInv

(* The server that did not set up is gone, and was in no list.             *)
LEMMA StructSetupTimeout ==
  ASSUME TypeInv, TypeInv', StructInv, SetupTimeout
  PROVE  StructInv'
<1>1. /\ UNCHANGED <<spawned, has, store, servers, run, seps, past, requests, box>>
      /\ mgr.wait = "setup" /\ Return /\ RunsOut("setup")
      /\ proc' = [proc EXCEPT ![spawned] = "gone"] /\ inbox' = [inbox EXCEPT ![spawned] = <<>>]
  BY DEF SetupTimeout, data
<1>2. /\ KnownType /\ run \in BOOLEAN /\ servers \in Seq(Pids) /\ spawned \in Pids /\ faults \in Nat
      /\ proc \in [Pids -> {"unborn", "up", "gone"}] /\ inbox \in [Pids -> Seq(Asking)]
  <2>1. faults \in Nat
    BY ClusterAssumption DEF TypeInv, HistoryType
  <2>2. servers \in Seq(Pids)
    BY DEF TypeInv, KnownType
  <2> QED  BY <2>1, <2>2 DEF TypeInv, HistoryType, ServersType, MailType
<1>3. Turns /\ mgr'.wait \in {"main", "ended", "path"}
  BY <1>1, <1>2, BodyTurns DEF Return
<1>4. PidInv
  BY DEF StructInv
<1>5. \A j \in DOMAIN servers : servers[j] \in Pids /\ servers[j] # spawned
  BY <1>1, <1>2, <1>4 DEF PidInv
<1>6. /\ \A q \in Pids : q # spawned => proc'[q] = proc[q] /\ inbox'[q] = inbox[q]
      /\ inbox'[spawned] = <<>>
  BY <1>1, <1>2
<1>7. faults' = 0 => faults = 0
  BY <1>1, <1>2 DEF RunsOut
<1>8. Calm /\ Remain
  BY <1>1, <1>3, <1>5, <1>6, <1>7 DEF Calm, Remain, Turns, Elsewise
<1>9. LeavesAlone(Structural, Broadcasting)
  BY <1>1, <1>6, SameKeeps, NothingThere DEF LeavesAlone, Broadcasting
<1>10. BroadcastInv' /\ AgreeInv' /\ KnowsInv'
  BY <1>1, <1>8, <1>9, BroadcastKept, AgreeKept, KnowsKept DEF StructInv, TypeInv
<1>11. NamedInv' /\ NestInv'
  BY <1>1 DEF StructInv, NamedInv, NestInv
<1>12. PidInv'
  <2>1. \A q \in Pids : q > spawned => q # spawned
    BY <1>2, ClusterAssumption DEF Pids
  <2> QED  BY <1>1, <1>3, <1>4, <1>6, <2>1 DEF PidInv, Broadcasting, Turns
<1> QED  BY <1>10, <1>11, <1>12 DEF StructInv

(* A new server has nothing, and nothing to do but to set up.              *)
LEMMA StructRun ==
  ASSUME TypeInv, TypeInv', StructInv, HandleRun
  PROVE  StructInv'
<1> DEFINE p == spawned + 1
           own == OwnMsg("SET_IN_MEMORY_CACHE_MODE", NoOne)
<1>1. /\ UNCHANGED <<has, store, servers, run, seps, past, requests, box, faults>>
      /\ mgr.wait = "main" /\ mgr' = At("setup") /\ spawned' = p
      /\ proc' = [proc EXCEPT ![p] = "up"] /\ inbox' = [inbox EXCEPT ![p] = <<own>>]
      /\ spawned < MaxSpawned
  BY DEF HandleRun, data
<1>2. /\ servers \in Seq(Pids) /\ spawned \in Pids /\ MaxSpawned \in Nat /\ Pids \subseteq Nat
      /\ proc \in [Pids -> {"unborn", "up", "gone"}] /\ inbox \in [Pids -> Seq(Asking)]
  <2>1. MaxSpawned \in Nat /\ Pids \subseteq Nat
    BY ClusterAssumption DEF Pids
  <2>2. servers \in Seq(Pids)
    BY DEF TypeInv, KnownType
  <2> QED  BY <2>1, <2>2 DEF TypeInv, ServersType, MailType
<1>3. p \in Pids /\ p > spawned
  BY <1>1, <1>2, ClusterAssumption DEF Pids
<1>4. mgr'.wait = "setup"
  <2>1. "setup" \in Waits
    BY DEF Waits
  <2> HIDE DEF At
  <2> QED  BY <1>1, <2>1, AtType
<1>5. PidInv
  BY DEF StructInv
<1> HIDE DEF p, own
<1>6. \A j \in DOMAIN servers : servers[j] \in Pids /\ servers[j] # p
  <2>1. ASSUME NEW j \in DOMAIN servers  PROVE servers[j] \in Pids /\ servers[j] # p
    <3>1. servers[j] \in Pids /\ servers[j] <= spawned
      BY <1>2, <1>5 DEF PidInv
    <3> QED  BY <1>2, <1>3, <3>1
  <2> QED  BY <2>1
<1>7. /\ \A q \in Pids : q # p => proc'[q] = proc[q] /\ inbox'[q] = inbox[q]
      /\ inbox'[p] = <<own>>
  BY <1>1, <1>2, <1>3
<1>8. own.cmd = "SET_IN_MEMORY_CACHE_MODE"
  BY OwnMsgType DEF own
<1>9. \A C : "SET_IN_MEMORY_CACHE_MODE" \notin C => None(<<own>>, C)
  <2>1. DOMAIN <<own>> = {1} /\ <<own>>[1] = own
    OBVIOUS
  <2> QED  BY <1>8, <2>1 DEF None
<1>10. Calm /\ Remain
  BY <1>1, <1>4, <1>6, <1>7 DEF Calm, Remain, Elsewise
<1>11. LeavesAlone(Structural, Broadcasting)
  <2>1. "SET_IN_MEMORY_CACHE_MODE" \notin Structural /\ ~Broadcasting
    BY <1>1 DEF Structural, AddStruct, DropStruct, Broadcasting
  <2> QED  BY <1>7, <1>9, <2>1, SameKeeps DEF LeavesAlone
<1>12. BroadcastInv' /\ AgreeInv' /\ KnowsInv'
  BY <1>1, <1>10, <1>11, BroadcastKept, AgreeKept, KnowsKept DEF StructInv, TypeInv
<1>13. NamedInv' /\ NestInv'
  BY <1>1 DEF StructInv, NamedInv, NestInv
<1>14. PidInv'
  <2>1. ASSUME NEW q \in Pids, q > p  PROVE proc'[q] = "unborn" /\ has[q] = {} /\ DOMAIN store[q] = {}
    <3>1. q > spawned /\ q # p
      BY <1>2, <1>3, <2>1
    <3> QED  BY <1>5, <1>7, <3>1 DEF PidInv
  <2>2. has[p] = {} /\ DOMAIN store[p] = {}
    BY <1>3, <1>5 DEF PidInv
  <2>3. None(inbox'[p], Commands \ {"SET_IN_MEMORY_CACHE_MODE"})
    BY <1>7, <1>9
  <2>4. \A j \in DOMAIN servers : servers[j] <= p
    <3>1. ASSUME NEW j \in DOMAIN servers  PROVE servers[j] <= p
      <4>1. servers[j] \in Nat /\ servers[j] <= spawned
        BY <1>2, <1>5, <1>6 DEF PidInv
      <4> QED  BY <1>2, <1>3, <4>1
    <3> QED  BY <3>1
  <2> QED  BY <1>1, <1>4, <1>5, <1>6, <2>1, <2>2, <2>3, <2>4 DEF PidInv, Broadcasting
<1> QED  BY <1>12, <1>13, <1>14 DEF StructInv

(* All servers are told to shut down; no broadcast is touched.             *)
LEMMA StructShutdown ==
  ASSUME TypeInv, TypeInv', StructInv, TypeShutdown
  PROVE  StructInv'
<1>1. /\ UNCHANGED <<proc, spawned, has, store, servers, seps, past, requests, box, faults, mgr>>
      /\ run' = FALSE
      /\ inbox' = [p \in Pids |->
           IF proc[p] = "up" /\ p \in ToSet(servers)
           THEN Append(inbox[p], OwnMsg("SHUTDOWN", NoOne)) ELSE inbox[p]]
  BY DEF TypeShutdown, data
<1>2. MailType /\ spawned \in Pids
  BY DEF TypeInv, ServersType
<1>3. OwnMsg("SHUTDOWN", NoOne).cmd \in {"SHUTDOWN"}
  BY OwnMsgType
<1> HIDE DEF OwnMsg
<1>4. Sends({"SHUTDOWN"})
  BY <1>1, <1>3 DEF Sends
<1>5. \A q \in Pids : Kept(inbox[q], inbox'[q], Structural)
  <2>1. {"SHUTDOWN"} \cap Structural = {}
    BY DEF Structural, AddStruct, DropStruct
  <2> QED  BY <1>2, <1>4, <2>1, SendsKeeps
<1>6. Calm /\ Remain /\ LeavesAlone(Structural, Broadcasting)
  BY <1>1, <1>5 DEF Calm, Remain, LeavesAlone
<1>7. BroadcastInv' /\ AgreeInv' /\ KnowsInv'
  BY <1>1, <1>6, BroadcastKept, AgreeKept, KnowsKept DEF StructInv, TypeInv
<1>8. NamedInv' /\ NestInv'
  BY <1>1 DEF StructInv, NamedInv, NestInv
<1>9. PidInv'
  <2>1. mgr.wait = "setup" => inbox'[spawned] = inbox[spawned]
    <3>1. mgr.wait = "setup" => spawned \notin ToSet(servers)
      BY DEF StructInv, PidInv, ToSet
    <3> QED  BY <1>1, <1>2, <3>1
  <2> QED  BY <1>1, <2>1 DEF StructInv, PidInv, Broadcasting
<1> QED  BY <1>7, <1>8, <1>9 DEF StructInv

(* A server joins with nothing: it is the only one, there is nothing to    *)
(* have, or it joined late.                                                *)
LEMMA StructSetupAnswer ==
  ASSUME TypeInv, TypeInv', StructInv, SetupAnswer
  PROVE  StructInv'
<1>1. /\ UNCHANGED <<proc, spawned, has, store, run, inbox, requests, faults>>
      /\ mgr.wait = "setup" /\ box' = [box EXCEPT !["setup"] = Tail(@)]
      /\ servers' = Append(servers, spawned) /\ seps' = SepsGrown
      /\ past' = IF servers # <<>> /\ (DOMAIN seps # {} \/ has[servers[1]] # {})
                 THEN past \cup {"joined_late"} ELSE past
  BY DEF SetupAnswer, Outside, data
<1> DEFINE l == Len(servers)
<1>2. /\ KnownType /\ run \in BOOLEAN /\ servers \in Seq(Pids) /\ spawned \in Pids
      /\ box \in [Boxes -> Seq(Asking)] /\ l \in Nat /\ DOMAIN servers = 1 .. l
  <2>1. servers \in Seq(Pids)
    BY DEF TypeInv, KnownType
  <2> QED  BY <2>1 DEF TypeInv, HistoryType, ServersType, MailType
<1>3. /\ DOMAIN servers' = 1 .. l + 1 /\ Len(servers') = l + 1 /\ servers'[l + 1] = spawned
      /\ \A j \in 1 .. l : servers'[j] = servers[j]
  BY <1>1, <1>2
<1>4. /\ \A j \in DOMAIN servers' : (j \in DOMAIN servers /\ servers'[j] = servers[j])
                                    \/ (j = l + 1 /\ servers'[j] = spawned)
      /\ l + 1 \notin DOMAIN servers
      /\ servers = <<>> => l = 0
  <2>1. servers = <<>> => l = 0
    OBVIOUS
  <2> HIDE DEF l
  <2> QED  BY <1>2, <1>3, <2>1
<1>5. Turns /\ mgr'.wait \in {"main", "ended", "path"}
  <2>1. CASE servers = <<>>
    BY <1>2, <2>1, BodyTurns DEF SetupAnswer
  <2>2. CASE servers # <<>>
    <3>1. mgr' = Over("redistribute", Paths)
      BY <2>2 DEF SetupAnswer
    <3>2. Paths \in Seq(Collections)
      BY <1>2, PathsType
    <3> HIDE DEF Over, Paths
    <3>3. mgr'.wait = "path"
      BY <3>1, <3>2, OverType
    <3> QED  BY <3>3 DEF Turns, Elsewise
  <2> QED  BY <2>1, <2>2
<1>6. PidInv /\ DOMAIN seps' = DOMAIN seps
  BY <1>1 DEF StructInv, SepsGrown
<1>7. box'["added"] = box["added"] /\ box'["disposed"] = box["disposed"]
  BY <1>1, <1>2
<1>8. /\ past \subseteq past'
      /\ "joined_late" \notin past' /\ servers # <<>> => DOMAIN seps = {} /\ has[servers[1]] = {}
  BY <1>1
<1>9. /\ has[spawned] = {} /\ DOMAIN store[spawned] = {}
      /\ \A j \in DOMAIN servers : servers[j] # spawned
  BY <1>1, <1>6 DEF PidInv
<1>10. ~Broadcasting /\ ~Broadcasting' /\ mgr'.wait # "struct_add"
  BY <1>1, <1>5 DEF Broadcasting
<1> HIDE DEF l
<1>11. BroadcastInv'
  <2>1. Calm
    BY <1>1, <1>5, <1>7, <1>8 DEF Calm, Elsewise
  <2>2. LeavesAlone(Structural, Broadcasting)
    BY <1>1, SameKeeps DEF LeavesAlone
  <2> QED  BY <2>1, <2>2, BroadcastKept DEF StructInv
<1>12. AgreeInv'
  <2>1. SUFFICES ASSUME past' \cap {"joined_late", "half_disposed"} = {}, Len(servers') = 2
                 PROVE  Same(servers[1], servers[2])'
    BY <1>10 DEF AgreeInv
  <2>2. l = 1 /\ servers'[1] = servers[1] /\ servers'[2] = spawned /\ servers[1] \in Pids
    <3>1. l \in Nat /\ l + 1 = 2
      BY <1>2, <1>3, <2>1
    <3>2. l = 1
      BY <3>1
    <3>3. 1 \in DOMAIN servers /\ 1 \in 1 .. l
      BY <1>2, <3>2
    <3>4. servers'[1] = servers[1] /\ servers'[l + 1] = spawned
      BY <1>3, <3>3
    <3>5. servers'[2] = spawned
      BY <3>1, <3>4
    <3>6. servers[1] \in Pids
      BY <1>2, <3>3
    <3> QED  BY <3>2, <3>4, <3>5, <3>6
  <2>3. has[servers[1]] = {}
    <3>1. servers # <<>>
      BY <1>4, <2>2
    <3> QED  BY <1>8, <2>1, <3>1
  <2>4. DOMAIN store[servers[1]] = {}
    BY <2>2, <2>3 DEF StructInv, NestInv
  <2> QED  BY <1>1, <1>9, <2>2, <2>3, <2>4 DEF Same
<1>13. KnowsInv'
  <2>1. SUFFICES ASSUME Sound', NEW j \in DOMAIN servers', proc'[servers'[j]] = "up"
                 PROVE  HasOf(j, DOMAIN seps)'
    BY <1>10 DEF KnowsInv, Passed
  <2>2. CASE j = l + 1 /\ servers'[j] = spawned
    <3>1. Unmixed' /\ servers # <<>> => DOMAIN seps = {}
      BY <1>8 DEF Unmixed
    <3>2. servers = <<>> => DOMAIN seps = {}
      BY <1>2 DEF KnownType
    <3> QED  BY <1>1, <1>6, <1>9, <2>2, <3>1, <3>2 DEF HasOf
  <2>3. CASE j \in DOMAIN servers /\ servers'[j] = servers[j]
    <3>1. Sound
      BY <1>1, <2>1 DEF Sound
    <3>2. HasOf(j, DOMAIN seps)
      BY <1>1, <1>10, <2>1, <2>3, <3>1 DEF StructInv, KnowsInv, Passed
    <3>3. Unmixed' => Unmixed
      BY <1>8 DEF Unmixed
    <3> QED  BY <1>1, <1>6, <2>3, <3>2, <3>3 DEF HasOf
  <2> QED  BY <1>4, <2>2, <2>3
<1>14. NamedInv' /\ NestInv'
  BY <1>1 DEF StructInv, NamedInv, NestInv
<1>15. PidInv'
  <2>1. \A j \in DOMAIN servers' : servers'[j] <= spawned
    <3>1. spawned <= spawned
      BY <1>2, ClusterAssumption DEF Pids
    <3> QED  BY <1>4, <1>6, <3>1 DEF PidInv
  <2>2. \A i, j \in DOMAIN servers' : servers'[i] = servers'[j] => i = j
    BY <1>4, <1>6, <1>9 DEF PidInv
  <2> QED  BY <1>1, <1>5, <1>6, <1>10, <2>1, <2>2 DEF PidInv, Turns
<1> QED  BY <1>11, <1>12, <1>13, <1>14, <1>15 DEF StructInv

-----------------------------------------------------------------------------
(* The broadcasts themselves.                                              *)
LEMMA PidKept ==
  ASSUME PidInv, UNCHANGED <<proc, spawned, has, store, servers, run>>,
         mgr'.wait # "setup", mgr'.wait = "ended" => ~run,
         Broadcasting' \/ mgr'.wait = "count" => mgr'.i \in DOMAIN servers
  PROVE  PidInv'
BY DEF PidInv

(* What is sent on, and where the manager waits.                           *)
LEMMA StructSent ==
  ASSUME NEW i, NEW m, NEW wait, SendStruct(i, m, wait)
  PROVE  /\ inbox' = Post(inbox, servers[i], m)
         /\ mgr'.wait = wait /\ mgr'.i = i /\ mgr'.msg = m
BY DEF SendStruct, At

(* What is put for the server a broadcast has reached is there alone.      *)
LEMMA PostPuts ==
  ASSUME MailType, NEW C, \A p \in Pids : None(inbox[p], C),
         NEW m, m.cmd \in C, NEW q \in Pids, inbox' = Post(inbox, q, m)
  PROVE  \A p \in Pids : IF p = q /\ proc[p] = "up" THEN One(inbox'[p], C, m)
                                                    ELSE None(inbox'[p], C)
<1>1. inbox \in [Pids -> Seq(Asking)]
  BY DEF MailType
<1>2. ASSUME NEW p \in Pids
      PROVE  IF p = q /\ proc[p] = "up" THEN One(inbox'[p], C, m) ELSE None(inbox'[p], C)
  <2>1. CASE p = q /\ proc[p] = "up"
    <3>1. inbox'[p] = Append(inbox[p], m) /\ inbox[p] \in Seq(Asking)
      BY <1>1, <2>1 DEF Post
    <3> QED  BY <2>1, <3>1, AppendPuts
  <2>2. CASE ~(p = q /\ proc[p] = "up")
    <3>1. inbox'[p] = inbox[p]
      BY <1>1, <2>2 DEF Post
    <3> QED  BY <2>2, <3>1
  <2> QED  BY <2>1, <2>2
<1> QED  BY <1>2

(* A broadcast begins.                                                     *)
LEMMA StructBegins ==
  ASSUME TypeInv, TypeInv', StructInv, HandleStruct, servers # <<>>
  PROVE  StructInv'
<1> DEFINE m    == Head(requests)
           wait == IF m.cmd \in AddStruct THEN "struct_add" ELSE "struct_dispose"
           l    == Len(servers)
<1>1. /\ UNCHANGED <<proc, spawned, has, store, servers, run, box, seps, faults>>
      /\ mgr.wait = "main" /\ requests # <<>> /\ requests' = Tail(requests)
      /\ m.cmd \in Structural /\ SendStruct(1, m, wait)
      /\ past' = IF m.cmd = "DISPOSE_SCHEMA" /\ l > 1 THEN past \cup {"half_disposed"} ELSE past
  BY DEF HandleStruct, Asked, Outside, data, Structural
<1>2. /\ MailType /\ requests \in Seq(Asking) /\ servers \in Seq(Pids)
      /\ l \in Nat \ {0} /\ DOMAIN servers = 1 .. l
  <2>1. servers \in Seq(Pids)
    BY DEF TypeInv, KnownType
  <2> QED  BY <2>1 DEF TypeInv, MailType
<1>3. m.named
  <2>1. 1 \in DOMAIN requests /\ m = requests[1]
    BY <1>1, <1>2, TailAt
  <2> QED  BY <2>1 DEF StructInv, NamedInv
<1> HIDE DEF m, l
<1>4. /\ inbox' = Post(inbox, servers[1], m)
      /\ mgr'.wait = wait /\ mgr'.i = 1 /\ mgr'.msg = m
  BY <1>1, StructSent
<1>5. 1 \in DOMAIN servers /\ servers[1] \in Pids
  BY <1>2
<1>6. /\ ~Broadcasting /\ Broadcasting' /\ mgr'.wait \notin {"setup", "ended", "count", "rollback"}
      /\ Back' \in {"added", "disposed"} /\ Other' \in {"added", "disposed"}
      /\ m.cmd \in (IF wait = "struct_add" THEN AddStruct ELSE DropStruct)
  BY <1>1, <1>4 DEF Broadcasting, Back, Other, Structural
<1> HIDE DEF wait
<1>7. past \subseteq past' /\ (m.cmd = "DISPOSE_SCHEMA" => l = 1 \/ "half_disposed" \in past')
  BY <1>1, <1>2
<1>8. Sound' => /\ Sound /\ box'["added"] = <<>> /\ box'["disposed"] = <<>>
                /\ \A p \in Pids : None(inbox[p], Structural)
  BY <1>1, <1>6 DEF Sound, StructInv, BroadcastInv, Awaited
<1>9. BroadcastInv'
  <2>1. SUFFICES ASSUME Sound'  PROVE BroadcastInv'
    BY DEF BroadcastInv
  <2>2. box'[Back'] = <<>> /\ box'[Other'] = <<>>
    BY <1>6, <1>8, <2>1
  <2>3. \A p \in Pids : Awaited(p)' <=> p = servers[1] /\ proc[p] = "up"
    BY <1>1, <1>4, <1>6, <2>2 DEF Awaited
  <2>4. \A p \in Pids : IF Awaited(p)' THEN One(inbox'[p], Structural, mgr'.msg)
                                       ELSE None(inbox'[p], Structural)
    BY <1>1, <1>2, <1>4, <1>5, <1>8, <2>1, <2>3, PostPuts
  <2> QED  BY <1>1, <1>3, <1>4, <1>6, <1>7, <2>2, <2>4 DEF BroadcastInv, l
<1>10. AgreeInv'
  <2>1. SUFFICES ASSUME Sound', past' \cap {"joined_late", "half_disposed"} = {}, Len(servers') = 2,
                        proc'[servers'[1]] = "up", proc'[servers'[2]] = "up"
                 PROVE  AgreeInv'
    BY DEF AgreeInv
  <2>2. Same(servers[1], servers[2])
    BY <1>1, <1>6, <1>7, <1>8, <2>1 DEF StructInv, AgreeInv
  <2>3. Same(servers[1], servers[2])' /\ box'[Back'] = <<>>
    BY <1>1, <1>6, <1>8, <2>1, <2>2 DEF Same
  <2> QED  BY <1>4, <2>3 DEF AgreeInv
<1>11. KnowsInv'
  <2>1. SUFFICES ASSUME Sound', NEW j \in DOMAIN servers', proc'[servers'[j]] = "up"
                 PROVE  HasOf(j, IF Passed(j) THEN Renewed ELSE DOMAIN seps)'
    BY DEF KnowsInv
  <2>2. ~Passed(j) /\ ~Passed(j)'
    <3>1. ~(j < 1)
      BY <1>1, <1>2, <2>1
    <3>2. box'[Back'] = <<>>
      BY <1>6, <1>8, <2>1
    <3> QED  BY <1>4, <1>6, <3>1, <3>2 DEF Passed
  <2>3. HasOf(j, DOMAIN seps) /\ (Unmixed' => Unmixed)
    BY <1>1, <1>7, <1>8, <2>1, <2>2 DEF StructInv, KnowsInv, Unmixed
  <2> QED  BY <1>1, <2>2, <2>3 DEF HasOf
<1>12. NamedInv' /\ NestInv'
  <2>1. NamedInv'
    BY <1>1, <1>2, NamedKept DEF StructInv
  <2> QED  BY <1>1, <2>1 DEF StructInv, NestInv
<1>13. PidInv'
  BY <1>1, <1>4, <1>5, <1>6, PidKept DEF StructInv
<1> QED  BY <1>9, <1>10, <1>11, <1>12, <1>13 DEF StructInv

(* What the wait for an answer to a broadcast ends with: the answer, or    *)
(* nothing from a server that is gone.                                     *)
Heard(m) ==
  /\ m.cmd = mgr.msg.cmd /\ m.coll = mgr.msg.coll
  /\ m.named \/ m.cmd \in {"DISPOSE_POOL", "DISPOSE_SCHEMA"}
  /\ \/ box[Back] # <<>> /\ m = box[Back][1]
     \/ box[Back] = <<>> /\ proc[servers[mgr.i]] # "up"
  /\ box'["added"] = <<>> /\ box'["disposed"] = <<>>
  /\ \A p \in Pids : None(inbox[p], Structural)

(* Without an early end to a wait what the manager hears is the answer it  *)
(* waits for, and nothing else is about.                                   *)
LEMMA StructHeard ==
  ASSUME TypeInv, PidInv, BroadcastInv, Broadcasting, faults' = 0, NEW m, Received(Back, m)
  PROVE  Sound /\ Heard(m)
<1>1. /\ faults \in Nat /\ box \in [Boxes -> Seq(Asking)]
      /\ Back \in Boxes /\ Other \in Boxes /\ {Back, Other} = {"added", "disposed"} /\ Back # Other
      /\ servers \in Seq(Pids)
  <2>1. faults \in Nat
    BY ClusterAssumption DEF TypeInv, HistoryType
  <2>2. servers \in Seq(Pids)
    BY DEF TypeInv, KnownType
  <2> QED  BY <2>1, <2>2 DEF TypeInv, MailType, Boxes, Back, Other
<1>2. faults = 0 /\ faults' = faults
  BY <1>1 DEF Received, RunsOut
<1>3. Sound
  BY <1>2 DEF Sound, Broadcasting
<1>4. /\ mgr.msg.named \/ mgr.msg.cmd \in {"DISPOSE_POOL", "DISPOSE_SCHEMA"}
      /\ box[Other] = <<>>
      /\ box[Back] # <<>> =>
           /\ Len(box[Back]) = 1
           /\ box[Back][1].cmd = mgr.msg.cmd /\ box[Back][1].coll = mgr.msg.coll
           /\ mgr.msg.cmd \notin {"DISPOSE_POOL", "DISPOSE_SCHEMA"} => box[Back][1].named
  BY <1>3 DEF BroadcastInv
<1>5. CASE box[Back] # <<>>
  <2>1. m = Head(box[Back]) /\ box' = [box EXCEPT ![Back] = Tail(@)]
    BY <1>5 DEF Received, RunsOut
  <2> DEFINE s == box[Back]
  <2>2. s \in Seq(Asking) /\ Len(s) = 1 /\ s # <<>>
    BY <1>1, <1>4, <1>5
  <2>3. Head(s) = s[1] /\ Tail(s) = <<>>
    <3> HIDE DEF s
    <3>1. Tail(s) \in Seq(Asking) /\ Len(Tail(s)) = 0 /\ Head(s) = s[1]
      BY <2>2
    <3>2. \A t \in Seq(Asking) : Len(t) = 0 => t = <<>>
      OBVIOUS
    <3> QED  BY <3>1, <3>2
  <2>4. box'[Back] = <<>> /\ box'[Other] = <<>>
    BY <1>1, <1>4, <2>1, <2>3
  <2>5. \A p \in Pids : None(inbox[p], Structural)
    BY <1>3, <1>5 DEF BroadcastInv, Awaited
  <2>6. box'["added"] = <<>> /\ box'["disposed"] = <<>>
    BY <1>1, <2>4
  <2>7. m = box[Back][1]
    BY <2>1, <2>3
  <2> QED  BY <1>3, <1>4, <1>5, <2>5, <2>6, <2>7 DEF Heard
<1>6. CASE box[Back] = <<>>
  <2>1. m = mgr.msg /\ RunsOut(Back) /\ UNCHANGED box
    BY <1>6 DEF Received
  <2>2. \A p \in Pids : inbox[p] = <<>>
    BY <1>1, <1>2, <2>1 DEF RunsOut
  <2>3. \A p \in Pids : None(inbox[p], Structural)
    BY <2>2, NothingThere
  <2>4. servers[mgr.i] \in Pids
    BY <1>1 DEF PidInv
  <2>5. proc[servers[mgr.i]] # "up"
    <3>1. SUFFICES ASSUME proc[servers[mgr.i]] = "up"  PROVE FALSE
      OBVIOUS
    <3>2. One(inbox[servers[mgr.i]], Structural, mgr.msg)
      BY <1>3, <1>6, <2>4, <3>1 DEF BroadcastInv, Awaited
    <3> QED  BY <2>2, <2>4, <3>2, OneNotNone
  <2>6. box'["added"] = <<>> /\ box'["disposed"] = <<>>
    BY <1>1, <1>4, <1>6, <2>1
  <2> QED  BY <1>3, <1>4, <1>6, <2>1, <2>3, <2>5, <2>6 DEF Heard
<1> QED  BY <1>5, <1>6

(* Commands that name the same do the same.                                *)
LEMMA AlikeWorks ==
  ASSUME NEW m, NEW n, m.cmd = n.cmd, m.coll = n.coll,
         m.cmd \in {"DISPOSE_POOL", "ADD_POOL"} \/ (m.named /\ n.named)
  PROVE  /\ \A q : Works(m, q) <=> Works(n, q)
         /\ \A h : HasAfter(m, h) = HasAfter(n, h)
         /\ \A d : DomainAfter(m, d) = DomainAfter(n, d)
<1>1. ASSUME NEW q  PROVE Works(m, q) <=> Works(n, q)
  <2>1. CASE m.cmd \in {"DISPOSE_POOL", "ADD_POOL"}
    BY <2>1 DEF Works, AboveExists, Exists
  <2>2. CASE m.named /\ n.named
    BY <2>2 DEF Works, AboveExists, Exists
  <2> QED  BY <2>1, <2>2
<1>2. \A h : HasAfter(m, h) = HasAfter(n, h)
  BY DEF HasAfter
<1>3. \A d : DomainAfter(m, d) = DomainAfter(n, d)
  BY DEF DomainAfter
<1> QED  BY <1>1, <1>2, <1>3

(* The broadcast goes on to the next server.                               *)
LEMMA StructAdvances ==
  ASSUME TypeInv, TypeInv', StructInv, Broadcasting, NEW m, Received(Back, m),
         UNCHANGED <<proc, spawned, has, store, servers, run, seps, requests, past>>,
         mgr.i < Len(servers), SendStruct(mgr.i + 1, m, mgr.wait),
         mgr.wait = "struct_add" => box["added"] # <<>> /\ m.status = "OK"
  PROVE  StructInv'
<1> DEFINE l == Len(servers)
           s1 == servers[1]
           s2 == servers[2]
<1>1. /\ MailType /\ servers \in Seq(Pids) /\ l \in Nat /\ l <= 2 /\ DOMAIN servers = 1 .. l
      /\ mgr.i \in DOMAIN servers
  <2>1. servers \in Seq(Pids) /\ l <= 2 /\ MailType
    BY DEF TypeInv, KnownType, MaxServers
  <2>2. mgr.i \in DOMAIN servers
    BY DEF StructInv, PidInv
  <2> QED  BY <2>1, <2>2
<1>2. l = 2 /\ mgr.i = 1 /\ mgr.i + 1 = 2 /\ 1 \in DOMAIN servers /\ 2 \in DOMAIN servers
  <2> HIDE DEF l
  <2>1. mgr.i \in 1 .. l /\ mgr.i < l /\ l \in Nat /\ l <= 2
    BY <1>1 DEF l
  <2>2. l = 2 /\ mgr.i = 1
    BY <2>1
  <2> QED  BY <1>1, <2>2
<1>3. s1 \in Pids /\ s2 \in Pids
  BY <1>1, <1>2
<1>4. /\ inbox' = Post(inbox, s2, m) /\ mgr'.wait = mgr.wait /\ mgr'.i = 2 /\ mgr'.msg = m
  BY <1>2, StructSent
<1>5. /\ Broadcasting' /\ Back' = Back /\ Other' = Other
      /\ Back \in {"added", "disposed"} /\ Other \in {"added", "disposed"}
      /\ mgr'.wait \notin {"setup", "ended", "count", "rollback"}
      /\ mgr.wait = "struct_add" => Back = "added"
  BY <1>4 DEF Broadcasting, Back, Other
<1>6. ASSUME Sound'
      PROVE  Sound /\ Heard(m) /\ box'[Back'] = <<>> /\ box'[Other'] = <<>>
  <2>1. Sound /\ Heard(m)
    BY <1>6, StructHeard DEF Sound, StructInv
  <2> QED  BY <1>5, <2>1 DEF Heard
<1>7. ASSUME Sound
      PROVE  /\ mgr.msg.cmd \in (IF mgr.wait = "struct_add" THEN AddStruct ELSE DropStruct)
             /\ mgr.msg.named \/ mgr.msg.cmd = "DISPOSE_POOL"
             /\ mgr.msg.cmd = "DISPOSE_SCHEMA" => "half_disposed" \in past
  <2>1. l # 1 /\ ~(mgr.i > 1)
    BY <1>2
  <2> QED  BY <1>7, <2>1 DEF StructInv, BroadcastInv
<1>8. BroadcastInv'
  <2>1. SUFFICES ASSUME Sound'  PROVE BroadcastInv'
    BY DEF BroadcastInv
  <2>2. \A p \in Pids : Awaited(p)' <=> p = s2 /\ proc[p] = "up"
    BY <1>4, <1>5, <1>6, <2>1 DEF Awaited
  <2>3. m.cmd = mgr.msg.cmd /\ m.cmd \in Structural
        /\ m.cmd \in (IF mgr.wait = "struct_add" THEN AddStruct ELSE DropStruct)
        /\ (m.named \/ m.cmd \in {"DISPOSE_POOL", "DISPOSE_SCHEMA"})
    BY <1>6, <1>7, <2>1 DEF Heard, Structural
  <2>4. \A p \in Pids : IF Awaited(p)' THEN One(inbox'[p], Structural, mgr'.msg)
                                       ELSE None(inbox'[p], Structural)
    <3>1. \A p \in Pids : IF p = s2 /\ proc[p] = "up" THEN One(inbox'[p], Structural, m)
                                                     ELSE None(inbox'[p], Structural)
      <4>1. \A p \in Pids : None(inbox[p], Structural)
        BY <1>6, <2>1 DEF Heard
      <4> HIDE DEF s2
      <4> QED  BY <1>1, <1>3, <1>4, <2>3, <4>1, PostPuts
    <3> QED  BY <1>4, <2>2, <3>1
  <2>5. mgr'.i > 1
    BY <1>4
  <2>6. m.cmd = "DISPOSE_SCHEMA" => "half_disposed" \in past
    BY <1>6, <1>7, <2>1, <2>3
  <2>7. box'[Back'] = <<>> /\ box'[Other'] = <<>>
    BY <1>6, <2>1
  <2> QED  BY <1>4, <1>5, <2>3, <2>4, <2>5, <2>6, <2>7 DEF BroadcastInv
<1>9. AgreeInv'
  <2>1. SUFFICES ASSUME Sound', past' \cap {"joined_late", "half_disposed"} = {}, Len(servers') = 2,
                        proc'[servers'[1]] = "up", proc'[servers'[2]] = "up"
                 PROVE  AgreeInv'
    BY DEF AgreeInv
  <2>2. Sound /\ proc[s1] = "up" /\ proc[s2] = "up" /\ box[Back] # <<>> /\ m = box[Back][1]
    BY <1>2, <1>6, <2>1 DEF Heard
  <2>3. Ahead(mgr.msg, s1, s2) /\ (mgr.wait = "struct_add" => Works(mgr.msg, s2))
    <3>1. mgr.wait = "struct_add" => box["added"][1].status = "OK"
      BY <1>5, <2>2
    <3>2. /\ past \cap {"joined_late", "half_disposed"} = {} /\ Len(servers) = 2 /\ mgr.i = 1 /\ 1 # 2
      BY <1>2, <2>1
    <3> HIDE DEF Ahead, Works
    <3> QED  BY <2>2, <3>1, <3>2 DEF StructInv, AgreeInv
  <2>4. /\ \A q : Works(m, q) <=> Works(mgr.msg, q)
        /\ \A h : HasAfter(m, h) = HasAfter(mgr.msg, h)
        /\ \A d : DomainAfter(m, d) = DomainAfter(mgr.msg, d)
    <3>1. m.cmd = mgr.msg.cmd /\ m.coll = mgr.msg.coll
      BY <1>6, <2>1 DEF Heard
    <3>2. m.cmd \in {"DISPOSE_POOL", "ADD_POOL"} \/ (m.named /\ mgr.msg.named)
      <4>1. m.cmd # "DISPOSE_SCHEMA"
        BY <1>7, <2>1, <2>2, <3>1
      <4> QED  BY <1>6, <1>7, <2>1, <2>2, <3>1, <4>1 DEF Heard
    <3> QED  BY <3>1, <3>2, AlikeWorks
  <2>5. Ahead(m, s1, s2) /\ (mgr.wait = "struct_add" => Works(m, s2))
    <3> HIDE DEF Works, HasAfter, DomainAfter, Same
    <3> QED  BY <2>3, <2>4 DEF Ahead
  <2>6. Ahead(m, s1, s2)' <=> Ahead(m, s1, s2)
    BY <1>4 DEF Ahead, Works, AboveExists, Exists, Same
  <2>7. Works(m, s2)' <=> Works(m, s2)
    BY DEF Works, AboveExists, Exists
  <2>8. box'[Back'] = <<>> /\ mgr'.i = 2
    BY <1>4, <1>6, <2>1
  <2> HIDE DEF Ahead, Works
  <2> QED  BY <1>4, <1>5, <2>5, <2>6, <2>7, <2>8 DEF AgreeInv
<1>10. KnowsInv'
  <2>1. SUFFICES ASSUME Sound', NEW j \in DOMAIN servers', proc'[servers'[j]] = "up"
                 PROVE  HasOf(j, IF Passed(j) THEN Renewed ELSE DOMAIN seps)'
    BY DEF KnowsInv
  <2>2. /\ Sound /\ Heard(m) /\ (Unmixed' <=> Unmixed)
        /\ HasOf(j, IF Passed(j) THEN Renewed ELSE DOMAIN seps)
    BY <1>6, <2>1 DEF StructInv, KnowsInv, Unmixed
  <2>3. Renewed' = Renewed
    BY <1>4, <2>2 DEF Renewed, Heard
  <2>4. j = 1 \/ j = 2
    BY <1>1, <1>2, <2>1
  <2>5. CASE j = 1
    <3>1. Passed(1)'
      BY <1>4, <1>5 DEF Passed
    <3>2. box[Back] # <<>> /\ m = box[Back][1]
      BY <1>2, <2>1, <2>2, <2>5 DEF Heard
    <3>3. Passed(1)
      BY <1>2, <1>5, <3>2 DEF Passed
    <3> QED  BY <2>2, <2>3, <2>5, <3>1, <3>3 DEF HasOf
  <2>6. CASE j = 2
    <3>1. ~Passed(2)'
      BY <1>4, <1>6, <2>1 DEF Passed
    <3>2. ~Passed(2)
      BY <1>2 DEF Passed
    <3> QED  BY <2>2, <2>6, <3>1, <3>2 DEF HasOf
  <2> QED  BY <2>4, <2>5, <2>6
<1>11. NamedInv' /\ NestInv'
  BY DEF StructInv, NamedInv, NestInv
<1>12. PidInv'
  BY <1>2, <1>4, <1>5, PidKept DEF StructInv
<1> QED  BY <1>8, <1>9, <1>10, <1>11, <1>12 DEF StructInv

(* The broadcast is over: every server has carried it out, or the first    *)
(* one could not.                                                          *)
LEMMA StructOver ==
  ASSUME TypeInv, TypeInv', StructInv, Broadcasting, NEW m, Received(Back, m),
         UNCHANGED <<proc, spawned, has, store, servers, run, inbox, requests, past>>, Return,
         \/ /\ mgr.i = Len(servers)
            /\ mgr.wait = "struct_add" => box["added"] # <<>> /\ m.status = "OK"
            /\ m.cmd = mgr.msg.cmd /\ m.coll = mgr.msg.coll /\ Sound => DOMAIN seps' = Renewed
         \/ /\ mgr.i = 1 /\ mgr.wait = "struct_add"
            /\ ~(box["added"] # <<>> /\ m.status = "OK")
            /\ DOMAIN seps' = DOMAIN seps
  PROVE  StructInv'
<1> DEFINE l == Len(servers)
           s1 == servers[1]
           s2 == servers[2]
           all == /\ mgr.i = Len(servers)
                  /\ mgr.wait = "struct_add" => box["added"] # <<>> /\ m.status = "OK"
                  /\ m.cmd = mgr.msg.cmd /\ m.coll = mgr.msg.coll /\ Sound => DOMAIN seps' = Renewed
           nothing == /\ mgr.i = 1 /\ mgr.wait = "struct_add"
                      /\ ~(box["added"] # <<>> /\ m.status = "OK")
                      /\ DOMAIN seps' = DOMAIN seps
<1>1. /\ MailType /\ KnownType /\ run \in BOOLEAN /\ servers \in Seq(Pids) /\ l \in Nat
      /\ DOMAIN servers = 1 .. l /\ mgr.i \in DOMAIN servers
  <2>1. servers \in Seq(Pids) /\ MailType /\ KnownType /\ run \in BOOLEAN
    BY DEF TypeInv, KnownType, HistoryType
  <2>2. mgr.i \in DOMAIN servers
    BY DEF StructInv, PidInv
  <2> QED  BY <2>1, <2>2
<1>2. /\ mgr'.wait \in {"main", "ended", "path"} /\ (mgr'.wait = "ended" => ~run)
  BY <1>1, BodyTurns DEF Return
<1>3. ~Broadcasting' /\ (mgr.wait = "struct_add" => Back = "added")
  BY <1>2 DEF Broadcasting, Back
<1>4. ASSUME Sound'  PROVE Sound /\ Heard(m)
  BY <1>4, StructHeard DEF Sound, StructInv
<1>5. all \/ nothing
  OBVIOUS
<1> HIDE DEF all, nothing
<1>6. BroadcastInv'
  <2>1. SUFFICES ASSUME Sound'  PROVE BroadcastInv'
    BY DEF BroadcastInv
  <2> QED  BY <1>3, <1>4, <2>1 DEF BroadcastInv, Awaited, Heard
<1>7. AgreeInv'
  <2>1. SUFFICES ASSUME Sound', past' \cap {"joined_late", "half_disposed"} = {}, Len(servers') = 2,
                        proc'[servers'[1]] = "up", proc'[servers'[2]] = "up"
                 PROVE  AgreeInv'
    BY DEF AgreeInv
  <2>2. /\ Sound /\ Heard(m) /\ proc[s1] = "up" /\ proc[s2] = "up" /\ Len(servers) = 2
        /\ past \cap {"joined_late", "half_disposed"} = {}
    BY <1>4, <2>1
  <2>3. mgr.i = 1 \/ mgr.i = 2
    <3>1. l = 2
      BY <2>2
    <3> HIDE DEF l
    <3> QED  BY <1>1, <3>1
  <2>4. box[Back] # <<>> /\ m = box[Back][1]
    BY <2>2, <2>3 DEF Heard
  <2>5. Same(s1, s2)
    <3>1. CASE all
      <4>1. mgr.i = 2
        BY <2>2, <3>1 DEF all
      <4> HIDE DEF Same
      <4> QED  BY <2>2, <2>4, <4>1 DEF StructInv, AgreeInv
    <3>2. CASE nothing
      <4>1. mgr.i = 1 /\ 1 # 2 /\ mgr.wait = "struct_add" /\ box["added"][1].status # "OK"
        BY <1>3, <2>4, <3>2 DEF nothing
      <4> HIDE DEF Same
      <4> QED  BY <2>2, <2>4, <4>1 DEF StructInv, AgreeInv
    <3> QED  BY <1>5, <3>1, <3>2
  <2>6. Same(s1, s2)'
    BY <2>5 DEF Same
  <2>7. mgr'.wait # "struct_add"
    BY <1>2
  <2> HIDE DEF Same
  <2> QED  BY <1>3, <2>6, <2>7 DEF AgreeInv
<1>8. KnowsInv'
  <2>1. SUFFICES ASSUME Sound', NEW j \in DOMAIN servers', proc'[servers'[j]] = "up"
                 PROVE  HasOf(j, DOMAIN seps)'
    BY <1>3 DEF KnowsInv, Passed
  <2>2. /\ Sound /\ Heard(m) /\ proc[servers[j]] = "up" /\ (Unmixed' <=> Unmixed)
        /\ HasOf(j, IF Passed(j) THEN Renewed ELSE DOMAIN seps)
    BY <1>4, <2>1 DEF StructInv, KnowsInv, Unmixed
  <2>3. mgr.i = j => box[Back] # <<>> /\ m = box[Back][1]
    BY <2>2 DEF Heard
  <2>4. j \in 1 .. l
    BY <1>1, <2>1
  <2>5. CASE all
    <3>1. DOMAIN seps' = Renewed
      BY <2>2, <2>5 DEF all, Heard
    <3>2. j < mgr.i \/ j = mgr.i
      <4>1. mgr.i = l
        BY <2>5 DEF all
      <4> HIDE DEF l
      <4> QED  BY <1>1, <2>4, <4>1
    <3>3. Passed(j)
      BY <1>3, <2>3, <2>5, <3>2 DEF Passed, all
    <3> QED  BY <2>2, <3>1, <3>3 DEF HasOf
  <2>6. CASE nothing
    <3>1. mgr.i = 1 /\ mgr.wait = "struct_add" /\ DOMAIN seps' = DOMAIN seps
      BY <2>6 DEF nothing
    <3>2. ~(j < mgr.i)
      BY <2>4, <3>1
    <3>3. ~Passed(j)
      BY <1>3, <2>3, <2>6, <3>1, <3>2 DEF Passed, nothing
    <3> QED  BY <2>2, <3>1, <3>3 DEF HasOf
  <2> QED  BY <1>5, <2>5, <2>6
<1>9. NamedInv' /\ NestInv'
  BY DEF StructInv, NamedInv, NestInv
<1>10. PidInv'
  BY <1>2, <1>3, PidKept DEF StructInv
<1> QED  BY <1>6, <1>7, <1>8, <1>9, <1>10 DEF StructInv

(* The loop that takes servers back is sound no more.                      *)
LEMMA StructTurnsBack ==
  ASSUME StructInv, UNCHANGED <<proc, spawned, has, store, servers, run, requests>>,
         NEW i, NEW m, SendStruct(i, m, "rollback")
  PROVE  StructInv'
<1>1. mgr'.wait = "rollback"
  BY StructSent
<1>2. ~Sound' /\ ~Broadcasting'
  BY <1>1 DEF Sound, Broadcasting
<1>3. BroadcastInv' /\ AgreeInv' /\ KnowsInv'
  BY <1>2 DEF BroadcastInv, AgreeInv, KnowsInv
<1>4. PidInv'
  BY <1>1, <1>2, PidKept DEF StructInv
<1> QED  BY <1>3, <1>4 DEF StructInv, NamedInv, NestInv

(* What the steps of a broadcast come to.                                  *)
LEMMA AddGoesOn ==
  ASSUME AddStructGoesOn
  PROVE  /\ mgr.wait = "struct_add" /\ Broadcasting /\ Back = "added"
         /\ UNCHANGED <<proc, spawned, has, store, servers, run, requests, past>>
         /\ \E m, back :
              /\ Received("added", m)
              /\ \/ /\ ~(box["added"] # <<>> /\ m.status = "OK") /\ mgr.i = 1
                    /\ Return /\ UNCHANGED <<inbox, seps>>
                 \/ /\ ~(box["added"] # <<>> /\ m.status = "OK") /\ mgr.i > 1
                    /\ SendStruct(mgr.i - 1, back, "rollback")
                 \/ /\ box["added"] # <<>> /\ m.status = "OK" /\ mgr.i < Len(servers)
                    /\ SendStruct(mgr.i + 1, m, "struct_add") /\ UNCHANGED seps
                 \/ /\ box["added"] # <<>> /\ m.status = "OK" /\ mgr.i = Len(servers)
                    /\ Return /\ UNCHANGED inbox
                    /\ seps' = IF m.cmd = "ADD_COLLECTION" THEN SepsWith(m.coll) ELSE seps
<1>1. /\ mgr.wait = "struct_add"
      /\ UNCHANGED <<proc, spawned, has, store, servers, run, requests, past>>
  BY DEF AddStructGoesOn, Outside, data
<1> DEFINE ok(m)   == box["added"] # <<>> /\ m.status = "OK"
           back(m) == [m EXCEPT !.status = "OK", !.cmd = DisposeOf(m.cmd)]
<1>2. PICK m : /\ Received("added", m)
               /\ \/ /\ ~ok(m) /\ mgr.i = 1 /\ Return /\ UNCHANGED <<inbox, seps>>
                  \/ /\ ~ok(m) /\ mgr.i > 1 /\ SendStruct(mgr.i - 1, back(m), "rollback")
                  \/ /\ ok(m) /\ mgr.i < Len(servers) /\ SendStruct(mgr.i + 1, m, "struct_add")
                     /\ UNCHANGED seps
                  \/ /\ ok(m) /\ mgr.i = Len(servers) /\ Return /\ UNCHANGED inbox
                     /\ seps' = IF m.cmd = "ADD_COLLECTION" THEN SepsWith(m.coll) ELSE seps
  BY DEF AddStructGoesOn
<1> HIDE DEF back
<1> QED  BY <1>1, <1>2 DEF Broadcasting, Back

(* A broadcast goes on to the next server, turns back, or ends: then all   *)
(* servers have the same, and separators the collections of all.           *)
LEMMA StructBroadcasts ==
  ASSUME TypeInv, TypeInv', StructInv,
         AddStructGoesOn \/ RollbackGoesOn \/ DisposeStructGoesOn
  PROVE  StructInv'
<1>1. UNCHANGED <<proc, spawned, has, store, servers, run, requests, past>>
  BY DEF AddStructGoesOn, RollbackGoesOn, DisposeStructGoesOn, Outside, data
<1>2. CASE RollbackGoesOn
  <2>1. PICK m : SendStruct(mgr.i, [m EXCEPT !.status = "OK"], "rollback")
    BY <1>2 DEF RollbackGoesOn
  <2> QED  BY <1>1, <2>1, StructTurnsBack
<1>3. CASE AddStructGoesOn
  <2> DEFINE ok(m) == box["added"] # <<>> /\ m.status = "OK"
  <2>1. PICK m, back :
          /\ Received("added", m)
          /\ \/ /\ ~ok(m) /\ mgr.i = 1 /\ Return /\ UNCHANGED <<inbox, seps>>
             \/ /\ ~ok(m) /\ mgr.i > 1 /\ SendStruct(mgr.i - 1, back, "rollback")
             \/ /\ ok(m) /\ mgr.i < Len(servers) /\ SendStruct(mgr.i + 1, m, "struct_add")
                /\ UNCHANGED seps
             \/ /\ ok(m) /\ mgr.i = Len(servers) /\ Return /\ UNCHANGED inbox
                /\ seps' = IF m.cmd = "ADD_COLLECTION" THEN SepsWith(m.coll) ELSE seps
    BY <1>3, AddGoesOn
  <2>2. mgr.wait = "struct_add" /\ Broadcasting /\ Back = "added"
    BY <1>3, AddGoesOn
  <2>3. CASE ~ok(m) /\ mgr.i = 1 /\ Return /\ UNCHANGED <<inbox, seps>>
    BY <1>1, <2>1, <2>2, <2>3, StructOver
  <2>4. CASE ~ok(m) /\ mgr.i > 1 /\ SendStruct(mgr.i - 1, back, "rollback")
    BY <1>1, <2>4, StructTurnsBack
  <2>5. CASE /\ ok(m) /\ mgr.i < Len(servers) /\ SendStruct(mgr.i + 1, m, "struct_add")
             /\ UNCHANGED seps
    BY <1>1, <2>1, <2>2, <2>5, StructAdvances
  <2>6. CASE /\ ok(m) /\ mgr.i = Len(servers) /\ Return /\ UNCHANGED inbox
             /\ seps' = IF m.cmd = "ADD_COLLECTION" THEN SepsWith(m.coll) ELSE seps
    <3>1. m.cmd = mgr.msg.cmd /\ m.coll = mgr.msg.coll /\ Sound => DOMAIN seps' = Renewed
      <4>1. SUFFICES ASSUME m.cmd = mgr.msg.cmd, m.coll = mgr.msg.coll, Sound
                     PROVE  DOMAIN seps' = Renewed
        OBVIOUS
      <4>2. m.cmd \in AddStruct
        BY <2>2, <4>1 DEF StructInv, BroadcastInv
      <4>3. m.cmd # "DISPOSE_COLLECTION"
        BY <4>2 DEF AddStruct
      <4> QED  BY <2>6, <4>1, <4>3 DEF SepsWith, Renewed
    <3> QED  BY <1>1, <2>1, <2>2, <2>6, <3>1, StructOver
  <2> QED  BY <2>1, <2>3, <2>4, <2>5, <2>6
<1>4. CASE DisposeStructGoesOn
  <2>1. PICK m : /\ Received("disposed", m)
                 /\ \/ /\ mgr.i < Len(servers) /\ SendStruct(mgr.i + 1, m, "struct_dispose")
                       /\ UNCHANGED seps
                    \/ /\ ~(mgr.i < Len(servers)) /\ Return /\ UNCHANGED inbox
                       /\ seps' = IF m.cmd = "DISPOSE_COLLECTION"
                                  THEN [c \in DOMAIN seps \ {m.coll} |-> seps[c]] ELSE seps
    BY <1>4 DEF DisposeStructGoesOn
  <2>2. mgr.wait = "struct_dispose" /\ Broadcasting /\ Back = "disposed"
    BY <1>4 DEF DisposeStructGoesOn, Broadcasting, Back
  <2>3. CASE /\ mgr.i < Len(servers) /\ SendStruct(mgr.i + 1, m, "struct_dispose")
             /\ UNCHANGED seps
    BY <1>1, <2>1, <2>2, <2>3, StructAdvances
  <2>4. CASE /\ ~(mgr.i < Len(servers)) /\ Return /\ UNCHANGED inbox
             /\ seps' = IF m.cmd = "DISPOSE_COLLECTION"
                        THEN [c \in DOMAIN seps \ {m.coll} |-> seps[c]] ELSE seps
    <3>1. m.cmd = mgr.msg.cmd /\ m.coll = mgr.msg.coll /\ Sound => DOMAIN seps' = Renewed
      <4>1. SUFFICES ASSUME m.cmd = mgr.msg.cmd, m.coll = mgr.msg.coll, Sound
                     PROVE  DOMAIN seps' = Renewed
        OBVIOUS
      <4>2. m.cmd \in DropStruct
        BY <2>2, <4>1 DEF StructInv, BroadcastInv
      <4>3. m.cmd # "ADD_COLLECTION"
        BY <4>2 DEF DropStruct
      <4> QED  BY <2>4, <4>1, <4>3 DEF Renewed
    <3>2. mgr.i = Len(servers)
      <4> DEFINE l == Len(servers)
      <4>1. servers \in Seq(Pids) /\ mgr.i \in DOMAIN servers
        BY <2>2 DEF TypeInv, KnownType, StructInv, PidInv
      <4>2. l \in Nat /\ mgr.i \in 1 .. l /\ ~(mgr.i < l)
        BY <2>4, <4>1
      <4> HIDE DEF l
      <4>3. mgr.i = l
        BY <4>2
      <4> QED  BY <4>3 DEF l
    <3> QED  BY <1>1, <2>1, <2>2, <2>4, <3>1, <3>2, StructOver
  <2> QED  BY <2>1, <2>3, <2>4
<1> QED  BY <1>2, <1>3, <1>4

-----------------------------------------------------------------------------
(* The invariant holds at the start, and every step keeps it.              *)
LEMMA StructInvInit ==
  ASSUME Init
  PROVE  StructInv
<1>1. /\ servers = <<>> /\ requests = <<>> /\ spawned = 1 /\ mgr.wait = "setup"
      /\ proc = [p \in Pids |-> IF p = 1 THEN "up" ELSE "unborn"]
      /\ inbox = [p \in Pids |->
           IF p = 1 THEN <<OwnMsg("SET_IN_MEMORY_CACHE_MODE", NoOne)>> ELSE <<>>]
      /\ has = [p \in Pids |-> {}] /\ store = [p \in Pids |-> EmptyMap]
      /\ box = [b \in Boxes |-> <<>>] /\ DOMAIN <<>> = {}
  BY DEF Init, At
<1>2. ~Broadcasting /\ 1 \in Pids /\ \A p \in Pids : p \in Nat
  BY <1>1, ClusterAssumption DEF Broadcasting, Pids
<1>3. \A C : "SET_IN_MEMORY_CACHE_MODE" \notin C => \A p \in Pids : None(inbox[p], C)
  <2> DEFINE own == OwnMsg("SET_IN_MEMORY_CACHE_MODE", NoOne)
  <2>1. own.cmd = "SET_IN_MEMORY_CACHE_MODE"
    BY OwnMsgType
  <2>2. \A p \in Pids : inbox[p] = <<own>> \/ inbox[p] = <<>>
    BY <1>1
  <2> HIDE DEF own
  <2>3. DOMAIN <<own>> = {1} /\ <<own>>[1] = own
    OBVIOUS
  <2>4. \A C : "SET_IN_MEMORY_CACHE_MODE" \notin C => None(<<own>>, C)
    BY <2>1, <2>3 DEF None
  <2> QED  BY <2>2, <2>4, NothingThere
<1>4. \A p \in Pids : has[p] = {} /\ DOMAIN store[p] = {}
  BY <1>1 DEF EmptyMap
<1>5. PidInv
  <2>1. None(inbox[spawned], Commands \ {"SET_IN_MEMORY_CACHE_MODE"})
    BY <1>1, <1>2, <1>3
  <2>2. \A p \in Pids : p > spawned => proc[p] = "unborn"
    BY <1>1, <1>2
  <2> QED  BY <1>1, <1>2, <1>4, <2>1, <2>2 DEF PidInv
<1>6. NestInv
  BY <1>4 DEF NestInv
<1>7. NamedInv
  BY <1>1 DEF NamedInv
<1>8. BroadcastInv
  <2>1. "SET_IN_MEMORY_CACHE_MODE" \notin Structural
    BY DEF Structural, AddStruct, DropStruct
  <2>2. box["added"] = <<>> /\ box["disposed"] = <<>>
    BY <1>1 DEF Boxes
  <2> QED  BY <1>2, <1>3, <2>1, <2>2 DEF BroadcastInv, Awaited
<1>9. AgreeInv /\ KnowsInv
  <2>1. Len(servers) # 2
    BY <1>1
  <2>2. \A j : j \notin DOMAIN servers
    BY <1>1
  <2> QED  BY <2>1, <2>2 DEF AgreeInv, KnowsInv
<1> QED  BY <1>5, <1>6, <1>7, <1>8, <1>9 DEF StructInv

(* One step, by who takes it.                                              *)
LEMMA StructInvStep ==
  ASSUME TypeInv, TypeInv', StructInv, [Next]_vars
  PROVE  StructInv'
<1>1. CASE UNCHANGED vars
  <2>1. UNCHANGED <<proc, spawned, inbox, box, requests, has, store, servers, seps, mgr, run,
                    faults, past>>
    BY <1>1 DEF vars, mail, data
  <2>2. Calm /\ Remain /\ LeavesAlone(Structural, Broadcasting)
    BY <2>1, SameKeeps DEF Calm, Remain, LeavesAlone
  <2>3. BroadcastInv' /\ AgreeInv' /\ KnowsInv'
    BY <2>1, <2>2, BroadcastKept, AgreeKept, KnowsKept DEF StructInv, TypeInv
  <2>4. PidInv' /\ NestInv' /\ NamedInv'
    BY <2>1 DEF StructInv, PidInv, NestInv, NamedInv, Broadcasting
  <2> QED  BY <2>3, <2>4 DEF StructInv
<1>2. CASE \E p \in Pids : Server(p)
  BY <1>2, ServerAside, StructServes, StructServed DEF Server
<1>3. CASE \E c \in Clients : Request(c) \/ Client(c)
  BY <1>3, StructClient
<1>4. CASE Manager
  <2>1. CASE ForwardAnswer \/ ForwardRequest \/ CountAnswer \/ CountTimeout
               \/ BeginTransfer \/ TransferAnswer \/ TransferTimeout \/ HandleShutdown
    BY <2>1, AsideForward, AsideCount, AsideBegin, AsideTransfer, AsideTyped, StructAside
  <2>2. CASE HandleStruct
    BY <2>2, AsideStruct, StructAside, StructBegins
  <2>3. CASE AddStructGoesOn \/ RollbackGoesOn \/ DisposeStructGoesOn
    BY <2>3, StructBroadcasts
  <2>4. CASE NextPath
    BY <2>4, AsideNextPath, StructAside, StructLetGo
  <2>5. CASE SetupAnswer \/ SetupTimeout
    BY <2>5, StructSetupAnswer, StructSetupTimeout
  <2> QED  BY <1>4, <2>1, <2>2, <2>3, <2>4, <2>5 DEF Manager
<1>5. CASE Terminal
  BY <1>5, StructRun, StructShutdown, AsideTyped, StructAside DEF Terminal
<1> QED  BY <1>1, <1>2, <1>3, <1>4, <1>5 DEF Next

(* The invariant holds throughout.                                         *)
LEMMA StructInvHolds == Spec => [](TypeInv /\ StructInv)
<1>1. Init => StructInv
  BY StructInvInit
<1>2. TypeInv /\ TypeInv' /\ StructInv /\ [Next]_vars => StructInv'
  BY StructInvStep
<1>3. Spec => []TypeInv
  BY TypeInvHolds, PTL
<1> QED  BY <1>1, <1>2, <1>3, PTL DEF Spec

(* Live servers have places in strg_servers, at most two of them.          *)
LEMMA LivePlaces ==
  ASSUME TypeInv, NEW p \in Live
  PROVE  \E i \in DOMAIN servers : p = servers[i] /\ proc[p] = "up" /\ i \in {1, 2}
                                   /\ i <= Len(servers)
<1>1. PICK i \in DOMAIN servers : p = servers[i] /\ proc[p] = "up"
  BY DEF Live, ToSet
<1> DEFINE l == Len(servers)
<1>2. servers \in Seq(Pids) /\ l <= 2
  BY DEF TypeInv, KnownType, MaxServers
<1>3. l \in Nat /\ DOMAIN servers = 1 .. l
  BY <1>2
<1> HIDE DEF l
<1>4. i \in {1, 2} /\ i <= l
  BY <1>2, <1>3
<1> QED  BY <1>1, <1>4 DEF l

(* Whatever pools, schemas and collections were added and disposed, in     *)
(* whatever order and on whichever servers it failed: between two calls of *)
(* the manager all servers have the same, as long as none joined late and  *)
(* no schema had to be disposed on two of them.                            *)
THEOREM StructuresStayAlike == Spec => []StructuresAgree
<1>1. TypeInv /\ StructInv => StructuresAgree
  <2>1. SUFFICES ASSUME TypeInv, StructInv, mgr.wait = "main",
                        Orderly({"joined_late", "half_disposed"}), NEW p \in Live, NEW q \in Live
                 PROVE  Same(p, q)
    BY DEF StructuresAgree, Same
  <2>2. PICK i \in DOMAIN servers : p = servers[i] /\ proc[p] = "up" /\ i \in {1, 2} /\ i <= Len(servers)
    BY <2>1, LivePlaces
  <2>3. PICK j \in DOMAIN servers : q = servers[j] /\ proc[q] = "up" /\ j \in {1, 2} /\ j <= Len(servers)
    BY <2>1, LivePlaces
  <2>4. CASE i = j
    BY <2>2, <2>3, <2>4 DEF Same
  <2>5. CASE i # j
    <3>1. Len(servers) = 2
      <4> DEFINE l == Len(servers)
      <4>1. servers \in Seq(Pids) /\ l <= 2
        BY <2>1 DEF TypeInv, KnownType, MaxServers
      <4>2. l \in Nat /\ i <= l /\ j <= l
        BY <2>2, <2>3, <4>1
      <4> HIDE DEF l
      <4>3. l = 2
        BY <2>2, <2>3, <2>5, <4>1, <4>2
      <4> QED  BY <4>3 DEF l
    <3>2. Sound /\ ~Broadcasting /\ past \cap {"joined_late", "half_disposed"} = {}
      BY <2>1 DEF Sound, Broadcasting, Orderly
    <3>3. {p, q} = {servers[1], servers[2]} /\ proc[servers[1]] = "up" /\ proc[servers[2]] = "up"
      BY <2>2, <2>3, <2>5
    <3>4. Same(servers[1], servers[2])
      BY <2>1, <3>1, <3>2, <3>3 DEF StructInv, AgreeInv
    <3> QED  BY <2>2, <2>3, <3>4 DEF Same
  <2> QED  BY <2>4, <2>5
<1> QED  BY <1>1, StructInvHolds, PTL

(* The separators the manager keeps are for exactly the collections that   *)
(* every server has, through any sequence of the commands that add and     *)
(* dispose them, as long as no pool or schema was disposed around one.     *)
THEOREM RoutesStayKnown == Spec => []RoutesKnown
<1>1. TypeInv /\ StructInv => RoutesKnown
  <2>1. SUFFICES ASSUME TypeInv, StructInv, mgr.wait = "main",
                        Orderly({"joined_late", "half_disposed", "dropped_above"}), NEW p \in Live
                 PROVE  DOMAIN seps = DOMAIN store[p]
    BY DEF RoutesKnown
  <2>2. PICK i \in DOMAIN servers : p = servers[i] /\ proc[p] = "up"
    BY <2>1, LivePlaces
  <2>3. Sound /\ ~Passed(i) /\ Unmixed
    BY <2>1 DEF Sound, Passed, Broadcasting, Orderly, Unmixed
  <2> QED  BY <2>1, <2>2, <2>3 DEF StructInv, KnowsInv, HasOf
<1> QED  BY <1>1, StructInvHolds, PTL

-----------------------------------------------------------------------------
(* Counts, and servers that stay up.                                       *)
Apart == {"GET_RECORDS_CNT", "TERMINATE", "SHUTDOWN", "SET_IN_MEMORY_CACHE_MODE"}

(* Steps about other commands than these.                                  *)
Quiet ==
  /\ UNCHANGED <<proc, spawned, servers, run>>
  /\ past \subseteq past' /\ (faults' = 0 => faults = 0)
  /\ box'["count"] = box["count"] /\ box'["setup"] = box["setup"]
  /\ \/ mgr' = mgr
     \/ /\ mgr.wait \notin {"count", "setup", "rollback"}
        /\ mgr'.wait \notin {"count", "setup"} /\ (mgr'.wait = "ended" => ~run)
  /\ Sound' => \A C \in SUBSET Apart : \A p \in Pids : Kept(inbox[p], inbox'[p], C)

(* Steps about other commands keep the invariants.                         *)
LEMMA QuietKeeps ==
  ASSUME TypeInv, CountInv, SafeInv, Quiet,
         OrderlyNow' => mgr'.wait \notin {"rollback", "dead"}
  PROVE  CountInv' /\ SafeInv'
<1>1. CountInv'
  <2>1. SUFFICES ASSUME Sound'  PROVE CountInv'
    BY DEF CountInv
  <2>2. {"GET_RECORDS_CNT"} \in SUBSET Apart
    BY DEF Apart
  <2>3. LeavesAlone({"GET_RECORDS_CNT"}, mgr.wait = "count")
    BY <2>1, <2>2 DEF Quiet, LeavesAlone
  <2>4. /\ (faults' = 0 => faults = 0) /\ (mgr.wait = "rollback" => mgr'.wait = "rollback")
        /\ box'["count"] = box["count"]
        /\ (mgr' = mgr /\ servers' = servers) \/ (mgr.wait # "count" /\ mgr'.wait # "count")
    BY DEF Quiet
  <2> QED  BY <2>3, <2>4, CountKept
<1>2. SafeInv'
  <2>1. SUFFICES ASSUME OrderlyNow'  PROVE SafeInv'
    BY DEF SafeInv
  <2>2. /\ OrderlyNow /\ Sound' /\ UNCHANGED <<proc, spawned, servers, run>>
        /\ box'["setup"] = box["setup"]
    BY <2>1 DEF Quiet, OrderlyNow, Orderly, Sound
  <2>3. \A p \in Pids : \A cmd \in Apart : Kept(inbox[p], inbox'[p], {cmd})
    BY <2>2 DEF Quiet
  <2>4. {"TERMINATE", "SHUTDOWN", "SET_IN_MEMORY_CACHE_MODE"} \subseteq Apart
    BY DEF Apart
  <2>5. /\ spawned \in Pids /\ \A j \in DOMAIN servers : servers[j] \in Pids
    <3>1. servers \in Seq(Pids) /\ spawned \in Pids
      BY DEF TypeInv, KnownType, ServersType
    <3> QED  BY <3>1
  <2>6. /\ \A p \in Pids : None(inbox'[p], {"SHUTDOWN"})
        /\ \A j \in DOMAIN servers : None(inbox'[servers[j]], {"TERMINATE"}) /\ proc[servers[j]] = "up"
    BY <2>2, <2>3, <2>4, <2>5 DEF SafeInv, Kept
  <2>7. mgr'.wait \notin {"rollback", "dead", "ended"} /\ (servers = <<>> => mgr'.wait = "setup")
    BY <2>1, <2>2 DEF SafeInv, Quiet, OrderlyNow
  <2>8. mgr'.wait = "setup" =>
          /\ proc[spawned] = "up"
          /\ box["setup"] # <<>> \/ One(inbox'[spawned], {"SET_IN_MEMORY_CACHE_MODE"}, SetUp)
    BY <2>2, <2>3, <2>4, <2>5 DEF SafeInv, Quiet, Kept
  <2> QED  BY <2>2, <2>6, <2>7, <2>8 DEF SafeInv, SetUp, OwnMsg, Msg
<1> QED  BY <1>1, <1>2

(* What is sent of other commands is not one of these.                     *)
LEMMA SendsApart ==
  ASSUME MailType, NEW D, D \cap Apart = {}, Sends(D)
  PROVE  \A C \in SUBSET Apart : \A p \in Pids : Kept(inbox[p], inbox'[p], C)
<1>1. ASSUME NEW C \in SUBSET Apart  PROVE \A p \in Pids : Kept(inbox[p], inbox'[p], C)
  <2>1. D \cap C = {}
    OBVIOUS
  <2> QED  BY <2>1, SendsKeeps
<1> QED  BY <1>1

(* Data commands and broadcasts are not.                                   *)
LEMMA PlainApart == Plain \cap Apart = {} /\ Structural \cap Apart = {}
BY DEF Plain, Structural, AddStruct, DropStruct, DataChanges, Apart

(* A server that ends, when it is none that is counted on.                 *)
LEMMA SafeDies ==
  ASSUME TypeInv, CountInv, SafeInv, NEW p \in Pids, Dies(p), UNCHANGED <<Elsewhere, faults>>,
         past \subseteq past',
         OrderlyNow' => /\ \A j \in DOMAIN servers : servers[j] # p
                        /\ mgr.wait = "setup" => p # spawned
  PROVE  CountInv' /\ SafeInv'
<1>1. /\ UNCHANGED <<spawned, servers, mgr, run, faults, box>>
      /\ proc \in [Pids -> {"unborn", "up", "gone"}] /\ inbox \in [Pids -> Seq(Asking)]
      /\ spawned \in Pids
  BY DEF Dies, Elsewhere, TypeInv, ServersType, MailType
<1>2. \A q \in Pids : /\ inbox'[q] = IF q = p THEN <<>> ELSE inbox[q]
                      /\ proc'[q] = IF q = p THEN "gone" ELSE proc[q]
  BY <1>1 DEF Dies
<1>3. CountInv'
  <2>1. LeavesAlone({"GET_RECORDS_CNT"}, mgr.wait = "count")
    BY <1>2, SameKeeps, NothingThere DEF LeavesAlone
  <2> QED  BY <1>1, <2>1, CountKept
<1>4. SafeInv'
  <2>1. SUFFICES ASSUME OrderlyNow'  PROVE SafeInv'
    BY DEF SafeInv
  <2>2. OrderlyNow
    BY <1>1, <2>1 DEF OrderlyNow, Orderly
  <2>3. /\ \A j \in DOMAIN servers : servers[j] # p /\ servers[j] \in Pids
        /\ mgr.wait = "setup" => p # spawned
    <3>1. servers \in Seq(Pids)
      BY DEF TypeInv, KnownType
    <3> QED  BY <2>1, <3>1
  <2>4. \A q \in Pids : None(inbox'[q], {"SHUTDOWN"})
    BY <1>2, <2>2, NothingThere DEF SafeInv
  <2>5. \A j \in DOMAIN servers : None(inbox'[servers[j]], {"TERMINATE"}) /\ proc'[servers[j]] = "up"
    BY <1>2, <2>2, <2>3 DEF SafeInv
  <2>6. mgr.wait = "setup" => inbox'[spawned] = inbox[spawned] /\ proc'[spawned] = proc[spawned]
    BY <1>1, <1>2, <2>3
  <2> QED  BY <1>1, <2>2, <2>4, <2>5, <2>6 DEF SafeInv, SetUp, OwnMsg, Msg
<1> QED  BY <1>3, <1>4

(* The steps of servers.                                                   *)
LEMMA SafeServesStruct ==
  ASSUME TypeInv, CountInv, SafeInv, NEW p \in Pids, ServeAddStruct(p) \/ ServeDisposeStruct(p)
  PROVE  CountInv' /\ SafeInv'
<1>1. PICK b \in {"added", "disposed"} : ServesStruct(p, Head(inbox[p]), b)
  BY AddShape, DropShape
<1>2. /\ UNCHANGED <<proc, spawned, servers, mgr, run>>
      /\ past \subseteq past' /\ (faults' = 0 => faults = 0)
      /\ inbox[p] # <<>> /\ inbox' = Taken(p) /\ Head(inbox[p]).cmd \in Structural
      /\ \E a : box' = [box EXCEPT ![b] = Append(@, a)]
  BY <1>1 DEF ServesStruct, Structural
<1>3. box'["count"] = box["count"] /\ box'["setup"] = box["setup"]
  <2>1. box \in [Boxes -> Seq(Asking)] /\ "count" \in Boxes /\ "setup" \in Boxes
    BY DEF TypeInv, MailType, Boxes
  <2> QED  BY <1>2, <2>1
<1>4. \A C \in SUBSET Apart : \A q \in Pids : Kept(inbox[q], inbox'[q], C)
  <2>1. ASSUME NEW C \in SUBSET Apart  PROVE \A q \in Pids : Kept(inbox[q], inbox'[q], C)
    <3>1. Head(inbox[p]).cmd \notin C
      BY <1>2, PlainApart
    <3> QED  BY <1>2, <3>1, TakenKeeps DEF TypeInv
  <2> QED  BY <2>1
<1>5. Quiet
  BY <1>2, <1>3, <1>4 DEF Quiet
<1>6. OrderlyNow' => mgr'.wait \notin {"rollback", "dead"}
  BY <1>2 DEF SafeInv, OrderlyNow, Orderly
<1> QED  BY <1>5, <1>6, QuietKeeps

(* A server ends itself over data only when a range starts at no key or a  *)
(* collection is not known to it.                                          *)
LEMMA SafeServesData ==
  ASSUME TypeInv, CountInv, SafeInv, NEW p \in Pids, ServeData(p) \/ ServeRange(p)
  PROVE  CountInv' /\ SafeInv'
<1>1. UNCHANGED <<Elsewhere, faults>> /\ past \subseteq past'
  BY DEF ServeData, ServeRange
<1>2. CASE ServeRange(p) /\ Dies(p)
  <2>1. past' = past \cup {"stray_range"}
    <3>1. box' = box /\ inbox[p] # <<>> /\ inbox \in [Pids -> Seq(Asking)]
          /\ box \in [Boxes -> Seq(Asking)] /\ "answer" \in Boxes
      BY <1>2 DEF Dies, ServeRange, Serves, TypeInv, MailType, Boxes
    <3>2. proc'[p] = "gone" /\ proc[p] = "up"
      BY <1>2 DEF Dies, ServeRange, Serves, TypeInv, ServersType
    <3> QED  BY <1>2, <3>2 DEF ServeRange
  <2>2. ~OrderlyNow'
    BY <2>1 DEF OrderlyNow, Orderly, Events
  <2> QED  BY <1>1, <1>2, <2>2, SafeDies
<1>3. CASE ServeData(p) \/ (ServeRange(p) /\ ~Dies(p))
  <2>1. /\ UNCHANGED <<proc, spawned, servers, mgr, run, faults>>
        /\ inbox[p] # <<>> /\ inbox' = Taken(p) /\ Head(inbox[p]).cmd \in Plain
        /\ \E l : box' = [box EXCEPT !["answer"] = l]
    <3>1. CASE ServeData(p)
      <4>1. Head(inbox[p]).cmd \in Plain /\ inbox[p] # <<>> /\ UNCHANGED proc
        BY <3>1 DEF ServeData, Serves, Plain, DataChanges
      <4>2. inbox' = Taken(p) /\ \E l : box' = [box EXCEPT !["answer"] = l]
        BY <3>1 DEF ServeData, Answer
      <4> QED  BY <1>1, <4>1, <4>2 DEF Elsewhere
    <3>2. CASE ServeRange(p) /\ ~Dies(p)
      <4>1. Head(inbox[p]).cmd \in Plain /\ inbox[p] # <<>>
        BY <3>2 DEF ServeRange, Serves, Plain
      <4>2. inbox' = Taken(p) /\ UNCHANGED proc /\ \E l : box' = [box EXCEPT !["answer"] = l]
        BY <3>2 DEF ServeRange, Answer
      <4> QED  BY <1>1, <4>1, <4>2 DEF Elsewhere
    <3> QED  BY <1>3, <3>1, <3>2
  <2>2. box'["count"] = box["count"] /\ box'["setup"] = box["setup"]
    <3>1. box \in [Boxes -> Seq(Asking)] /\ "count" \in Boxes /\ "setup" \in Boxes
      BY DEF TypeInv, MailType, Boxes
    <3> QED  BY <2>1, <3>1
  <2>3. \A C \in SUBSET Apart : \A q \in Pids : Kept(inbox[q], inbox'[q], C)
    <3>1. ASSUME NEW C \in SUBSET Apart  PROVE \A q \in Pids : Kept(inbox[q], inbox'[q], C)
      <4>1. Head(inbox[p]).cmd \notin C
        BY <2>1, PlainApart
      <4> QED  BY <2>1, <4>1, TakenKeeps DEF TypeInv
    <3> QED  BY <3>1
  <2>4. Quiet
    BY <1>1, <2>1, <2>2, <2>3 DEF Quiet
  <2>5. OrderlyNow' => mgr'.wait \notin {"rollback", "dead"}
    BY <1>1, <2>1 DEF SafeInv, OrderlyNow, Orderly
  <2> QED  BY <2>4, <2>5, QuietKeeps
<1> QED  BY <1>2, <1>3

(* TERMINATE and SHUTDOWN reach no server that is still needed.            *)
LEMMA SafeServesEnd ==
  ASSUME TypeInv, PidInv, CountInv, SafeInv, NEW p \in Pids, ServeEnd(p) \/ LoseQueue(p)
  PROVE  CountInv' /\ SafeInv'
<1>1. Dies(p) /\ UNCHANGED <<Elsewhere, faults>> /\ past' = past
  BY DEF ServeEnd, LoseQueue
<1>2. ASSUME OrderlyNow'
      PROVE  (\A j \in DOMAIN servers : servers[j] # p) /\ (mgr.wait = "setup" => p # spawned)
  <2>1. OrderlyNow
    BY <1>1, <1>2 DEF OrderlyNow, Orderly, Elsewhere
  <2>2. ServeEnd(p)
    BY <2>1 DEF SafeInv, LoseQueue
  <2>3. inbox[p] # <<>> /\ Head(inbox[p]).cmd \in {"TERMINATE", "SHUTDOWN"} /\ inbox[p] \in Seq(Asking)
    BY <2>2 DEF ServeEnd, Serves, TypeInv, MailType
  <2>4. 1 \in DOMAIN inbox[p] /\ inbox[p][1] = Head(inbox[p])
    BY <2>3, TailAt
  <2>5. Head(inbox[p]).cmd = "TERMINATE"
    BY <2>1, <2>3, <2>4 DEF SafeInv, None
  <2>6. \A j \in DOMAIN servers : servers[j] # p
    BY <2>1, <2>4, <2>5 DEF SafeInv, None
  <2>7. mgr.wait = "setup" => p # spawned
    BY <2>4, <2>5 DEF PidInv, None, Commands
  <2> QED  BY <2>6, <2>7
<1> QED  BY <1>1, <1>2, SafeDies

(* The new server answers that it has set up.                              *)
LEMMA SafeServesSetup ==
  ASSUME TypeInv, CountInv, SafeInv, NEW p \in Pids, ServeSetup(p)
  PROVE  CountInv' /\ SafeInv'
<1>1. /\ UNCHANGED <<spawned, servers, mgr, run, faults, past, proc>>
      /\ inbox[p] # <<>> /\ inbox' = Taken(p) /\ Head(inbox[p]).cmd = "SET_IN_MEMORY_CACHE_MODE"
      /\ \E a : box' = [box EXCEPT !["setup"] = Append(@, a)]
  BY DEF ServeSetup, Serves, Answer, Elsewhere
<1>2. box'["count"] = box["count"] /\ box'["setup"] # <<>>
  <2>1. box \in [Boxes -> Seq(Asking)] /\ "count" \in Boxes /\ "setup" \in Boxes
    BY DEF TypeInv, MailType, Boxes
  <2>2. box'["count"] = box["count"] /\ \E a : box'["setup"] = Append(box["setup"], a)
    BY <1>1, <2>1
  <2>3. PICK a : box'["setup"] = Append(box["setup"], a)
    BY <2>2
  <2>4. Len(box["setup"]) + 1 \in DOMAIN box'["setup"]
    BY <2>1, <2>3, AppendAt
  <2> QED  BY <2>2, <2>4
<1>3. \A C : "SET_IN_MEMORY_CACHE_MODE" \notin C => \A q \in Pids : Kept(inbox[q], inbox'[q], C)
  BY <1>1, TakenKeeps DEF TypeInv
<1>4. CountInv'
  <2>1. LeavesAlone({"GET_RECORDS_CNT"}, mgr.wait = "count")
    BY <1>1, <1>3 DEF LeavesAlone
  <2> QED  BY <1>1, <1>2, <2>1, CountKept
<1>5. SafeInv'
  <2>1. SUFFICES ASSUME OrderlyNow'  PROVE SafeInv'
    BY DEF SafeInv
  <2>2. OrderlyNow
    BY <1>1, <2>1 DEF OrderlyNow, Orderly
  <2>3. \A j \in DOMAIN servers : servers[j] \in Pids
    <3>1. servers \in Seq(Pids)
      BY DEF TypeInv, KnownType
    <3> QED  BY <3>1
  <2>4. \A q \in Pids : Kept(inbox[q], inbox'[q], {"SHUTDOWN"}) /\ Kept(inbox[q], inbox'[q], {"TERMINATE"})
    BY <1>3
  <2>5. /\ \A q \in Pids : None(inbox'[q], {"SHUTDOWN"})
        /\ \A j \in DOMAIN servers : None(inbox'[servers[j]], {"TERMINATE"}) /\ proc[servers[j]] = "up"
    BY <2>2, <2>3, <2>4 DEF SafeInv, Kept
  <2> QED  BY <1>1, <1>2, <2>2, <2>5 DEF SafeInv
<1> QED  BY <1>4, <1>5

(* A count that is read is the one that was asked for.                     *)
LEMMA CountAwaited ==
  ASSUME TypeInv, CountInv, Sound, NEW p \in Pids, Serves(p, {"GET_RECORDS_CNT"})
  PROVE  /\ Counting(p) /\ Head(inbox[p]) = OwnMsg("GET_RECORDS_CNT", Head(mgr.todo))
         /\ None(Tail(inbox[p]), {"GET_RECORDS_CNT"})
<1> DEFINE C == {"GET_RECORDS_CNT"}
           m == OwnMsg("GET_RECORDS_CNT", Head(mgr.todo))
<1>1. inbox[p] # <<>> /\ Head(inbox[p]).cmd \in C /\ inbox[p] \in Seq(Asking)
  BY DEF Serves, TypeInv, MailType
<1>2. 1 \in DOMAIN inbox[p] /\ inbox[p][1] = Head(inbox[p])
  BY <1>1, TailAt
<1>3. ~None(inbox[p], C)
  BY <1>1, <1>2 DEF None
<1>4. Counting(p) /\ One(inbox[p], C, m)
  BY <1>3 DEF CountInv
<1> HIDE DEF C, m
<1>5. Head(inbox[p]) = m /\ None(Tail(inbox[p]), C)
  BY <1>1, <1>4, TailTakes
<1> QED  BY <1>4, <1>5 DEF C, m

(* A server that is counted has the collection, so it answers.             *)
LEMMA SafeServesCount ==
  ASSUME TypeInv, PidInv, KnowsInv, CountInv, SafeInv, NEW p \in Pids, ServeCount(p)
  PROVE  CountInv' /\ SafeInv'
<1>1. /\ UNCHANGED <<Elsewhere, faults>> /\ past \subseteq past' /\ Serves(p, {"GET_RECORDS_CNT"})
  BY DEF ServeCount
<1>2. /\ UNCHANGED <<spawned, servers, mgr, run, faults>> /\ past \subseteq past'
      /\ inbox[p] # <<>> /\ Head(inbox[p]).cmd = "GET_RECORDS_CNT" /\ proc[p] = "up"
      /\ inbox \in [Pids -> Seq(Asking)]
  BY <1>1 DEF Elsewhere, Serves, TypeInv, MailType
<1>3. CASE Head(inbox[p]).coll \notin DOMAIN store[p]
  <2>1. Dies(p)
    BY <1>3 DEF ServeCount
  <2>2. ~OrderlyNow'
    <3>1. SUFFICES ASSUME OrderlyNow'  PROVE FALSE
      OBVIOUS
    <3>2. OrderlyNow /\ Sound
      <4>1. OrderlyNow
        BY <1>2, <3>1 DEF OrderlyNow, Orderly
      <4> QED  BY <4>1 DEF SafeInv, Sound, OrderlyNow, Orderly
    <3>3. Counting(p) /\ Head(inbox[p]) = OwnMsg("GET_RECORDS_CNT", Head(mgr.todo))
      BY <1>1, <3>2, CountAwaited
    <3>4. Head(mgr.todo) \in DOMAIN seps /\ DOMAIN seps \subseteq Collections
      <4>1. mgr.todo \in Seq(DOMAIN seps) /\ mgr.todo # <<>> /\ DOMAIN seps \subseteq Collections
        BY <3>3 DEF Counting, TypeInv, MgrType, KnownType, IsMap
      <4> QED  BY <4>1
    <3>5. Head(inbox[p]).coll \in DOMAIN seps
      BY <3>3, <3>4, OwnMsgType
    <3>6. mgr.i \in DOMAIN servers /\ p = servers[mgr.i] /\ ~Passed(mgr.i)
      BY <3>3 DEF Counting, PidInv, Passed, Broadcasting
    <3>7. Unmixed
      BY <3>2 DEF OrderlyNow, Orderly, Events, Unmixed
    <3>8. DOMAIN store[p] = DOMAIN seps
      BY <1>2, <3>2, <3>6, <3>7 DEF KnowsInv, HasOf
    <3> QED  BY <1>3, <3>5, <3>8
  <2> QED  BY <1>1, <1>2, <2>1, <2>2, SafeDies
<1>4. CASE Head(inbox[p]).coll \in DOMAIN store[p]
  <2>1. /\ inbox' = Taken(p) /\ UNCHANGED proc
        /\ \E a : box' = [box EXCEPT !["count"] = Append(@, a)]
    BY <1>4 DEF ServeCount, Answer
  <2>2. box \in [Boxes -> Seq(Asking)] /\ "count" \in Boxes /\ "setup" \in Boxes
    BY DEF TypeInv, MailType, Boxes
  <2>3. box'["setup"] = box["setup"] /\ \E a : box'["count"] = Append(box["count"], a)
    BY <2>1, <2>2
  <2>4. \A C : "GET_RECORDS_CNT" \notin C => \A q \in Pids : Kept(inbox[q], inbox'[q], C)
    BY <1>2, <2>1, TakenKeeps DEF TypeInv
  <2>5. CountInv'
    <3>1. SUFFICES ASSUME Sound'  PROVE CountInv'
      BY DEF CountInv
    <3>2. Sound
      BY <1>2, <3>1 DEF Sound
    <3>3. Counting(p) /\ None(Tail(inbox[p]), {"GET_RECORDS_CNT"})
      BY <1>1, <3>2, CountAwaited
    <3>4. mgr'.wait = "count" /\ Len(box'["count"]) <= 1 /\ box'["count"] # <<>>
      <4>1. \A a : Len(Append(<<>>, a)) = 1 /\ Append(<<>>, a) # <<>>
        OBVIOUS
      <4>2. box["count"] = <<>>
        BY <3>3 DEF Counting
      <4> QED  BY <1>2, <2>3, <3>3, <4>1, <4>2 DEF Counting
    <3>5. ASSUME NEW q \in Pids  PROVE None(inbox'[q], {"GET_RECORDS_CNT"}) /\ ~Counting(q)'
      <4>1. CASE q = p
        <5>1. inbox'[q] = Tail(inbox[p])
          BY <1>2, <2>1, <4>1 DEF Taken
        <5> QED  BY <3>3, <3>4, <5>1 DEF Counting
      <4>2. CASE q # p
        <5>1. inbox'[q] = inbox[q]
          BY <1>2, <2>1, <4>2 DEF Taken
        <5>2. ~Counting(q)
          BY <3>3, <4>2 DEF Counting
        <5>3. None(inbox[q], {"GET_RECORDS_CNT"})
          BY <3>2, <5>2 DEF CountInv
        <5> QED  BY <3>4, <5>1, <5>3 DEF Counting
      <4> QED  BY <4>1, <4>2
    <3> QED  BY <3>4, <3>5 DEF CountInv
  <2>6. SafeInv'
    <3>1. SUFFICES ASSUME OrderlyNow'  PROVE SafeInv'
      BY DEF SafeInv
    <3>2. OrderlyNow
      BY <1>2, <3>1 DEF OrderlyNow, Orderly
    <3>3. /\ \A j \in DOMAIN servers : servers[j] \in Pids
          /\ spawned \in Pids
      <4>1. servers \in Seq(Pids) /\ spawned \in Pids
        BY DEF TypeInv, KnownType, ServersType
      <4> QED  BY <4>1
    <3>4. \A q \in Pids : /\ Kept(inbox[q], inbox'[q], {"SHUTDOWN"})
                          /\ Kept(inbox[q], inbox'[q], {"TERMINATE"})
                          /\ Kept(inbox[q], inbox'[q], {"SET_IN_MEMORY_CACHE_MODE"})
      BY <2>4
    <3>5. /\ \A q \in Pids : None(inbox'[q], {"SHUTDOWN"})
          /\ \A j \in DOMAIN servers : None(inbox'[servers[j]], {"TERMINATE"}) /\ proc[servers[j]] = "up"
      BY <3>2, <3>3, <3>4 DEF SafeInv, Kept
    <3>6. mgr.wait = "setup" =>
            /\ proc[spawned] = "up"
            /\ box["setup"] # <<>> \/ One(inbox'[spawned], {"SET_IN_MEMORY_CACHE_MODE"}, SetUp)
      BY <3>2, <3>3, <3>4 DEF SafeInv, Kept
    <3> QED  BY <1>2, <2>1, <2>3, <3>2, <3>5, <3>6 DEF SafeInv, SetUp, OwnMsg, Msg
  <2> QED  BY <2>5, <2>6
<1> QED  BY <1>3, <1>4

(* A command that a server has no memory for is a fault, and after one     *)
(* nothing is claimed.                                                     *)
LEMMA NoMemoryUnsound ==
  ASSUME TypeInv, NEW p \in Pids, NoMemory(p)
  PROVE  faults' # 0
<1>1. faults \in Nat /\ faults' = faults + 1
  BY ClusterAssumption DEF TypeInv, HistoryType, NoMemory
<1> QED  BY <1>1

LEMMA SafeNoMemory ==
  ASSUME TypeInv, NEW p \in Pids, NoMemory(p)
  PROVE  CountInv' /\ SafeInv'
BY NoMemoryUnsound DEF CountInv, SafeInv, Sound, OrderlyNow, Orderly

(* Steps about keys alone.                                                 *)
LEMMA AsideQuiet ==
  ASSUME MailType, Aside, Sends(Plain), box'["count"] = box["count"], box'["setup"] = box["setup"],
         mgr.wait \notin {"count", "setup"}, mgr'.wait # "count"
  PROVE  Quiet /\ mgr'.wait # "rollback"
<1>1. \A C \in SUBSET Apart : \A p \in Pids : Kept(inbox[p], inbox'[p], C)
  BY PlainApart, SendsApart
<1> QED  BY <1>1 DEF Aside, Turns, Elsewise, Quiet

(* Passing on does not abort the manager: every key has a server.          *)
LEMMA SafeForward ==
  ASSUME TypeInv, RouteInv, CountInv, SafeInv, ForwardAnswer \/ ForwardRequest
  PROVE  CountInv' /\ SafeInv'
<1>1. Aside /\ Sends(Plain) /\ mgr.wait = "main"
  BY AsideForward
<1>2. KnownType /\ run \in BOOLEAN /\ MailType /\ box \in [Boxes -> Seq(Asking)] /\ servers \in Seq(Pids)
  BY DEF TypeInv, HistoryType, MailType, KnownType
<1>3. box'["count"] = box["count"] /\ box'["setup"] = box["setup"]
  <2>1. box' = box \/ box' = [box EXCEPT !["answer"] = Tail(@)]
    BY DEF ForwardAnswer, ForwardRequest
  <2>2. "count" \in Boxes /\ "setup" \in Boxes
    BY DEF Boxes
  <2> QED  BY <1>2, <2>1, <2>2
<1>4. mgr'.wait # "count" /\ (OrderlyNow' => mgr'.wait # "dead")
  <2>1. CASE \E changed, n : EndBody(changed, n)
    BY <1>2, <2>1, BodyTurns
  <2>2. CASE mgr' = At("dead") /\ "unknown_path" \in past'
    <3>1. ~OrderlyNow'
      BY <2>2 DEF OrderlyNow, Orderly, Events
    <3> QED  BY <2>2, <3>1, AtType DEF Waits
  <2> DEFINE m     == Head(requests)
             known == DOMAIN seps = {} \/ m.coll \in DOMAIN seps
             right == IF m.cmd = "OBTAIN_BETWEEN" THEN Route(m.coll, m.hi) ELSE Route(m.coll, m.key)
  <2>3. CASE /\ ForwardRequest /\ servers # <<>> /\ known /\ right > Len(servers)
             /\ mgr' = At("dead") /\ past' = past
    <3>1. mgr'.wait = "dead"
      BY <2>3, AtType DEF Waits
    <3>2. ASSUME OrderlyNow'  PROVE FALSE
      <4>1. "ended_keeper" \notin past
        BY <2>3, <3>2 DEF OrderlyNow, Orderly, Events
      <4>2. PICK k \in Keys : right = Route(m.coll, k)
        <5>1. /\ requests \in Seq(Asking) /\ requests # <<>>
              /\ m.cmd \in DataChanges \cup {"OBTAIN", "OBTAIN_BETWEEN"}
          BY <1>2, <2>3 DEF ForwardRequest, Asked, MailType
        <5>2. m \in Asking
          BY <5>1
        <5>3. m.key \in Keys /\ (m.cmd = "OBTAIN_BETWEEN" => m.hi \in Keys)
          BY <5>1, <5>2 DEF Asking
        <5> HIDE DEF m
        <5> QED  BY <5>3
      <4> HIDE DEF right
      <4>3. Route(m.coll, k) <= Len(servers)
        <5>1. CASE DOMAIN seps = {}
          <6>1. Route(m.coll, k) = 1
            BY <5>1 DEF Route
          <6>2. \A s \in Seq(Pids) : s # <<>> => Len(s) >= 1
            OBVIOUS
          <6> QED  BY <1>2, <2>3, <6>1, <6>2
        <5>2. CASE m.coll \in DOMAIN seps
          BY <2>3, <4>1, <5>2, RouteInside
        <5> QED  BY <2>3, <5>1, <5>2
      <4>4. Route(m.coll, k) \in Nat /\ Len(servers) \in Nat
        BY <1>2, <2>3, RouteIsNat
      <4> HIDE DEF m
      <4> QED  BY <2>3, <4>2, <4>3, <4>4
    <3> QED  BY <3>1, <3>2
  <2>4. \/ \E changed, n : EndBody(changed, n)
        \/ mgr' = At("dead") /\ "unknown_path" \in past'
        \/ /\ ForwardRequest /\ servers # <<>> /\ known /\ right > Len(servers)
           /\ mgr' = At("dead") /\ past' = past
    <3>1. CASE ForwardAnswer
      <4>1. EndBody(Counted(Head(box["answer"])), Len(servers))
        BY <3>1 DEF ForwardAnswer
      <4> QED  BY <4>1
    <3>2. CASE ForwardRequest
      <4>1. \/ EndBody(Counted(m), 0)
            \/ mgr' = At("dead") /\ past' = past \cup {"unknown_path"}
            \/ servers # <<>> /\ known /\ right > Len(servers) /\ mgr' = At("dead") /\ past' = past
            \/ EndBody(Counted(m), Len(servers))
        BY <3>2 DEF ForwardRequest, Aborts
      <4> QED  BY <3>2, <4>1
    <3> QED  BY <3>1, <3>2
  <2> HIDE DEF m, known, right
  <2> QED  BY <2>1, <2>2, <2>3, <2>4
<1>5. Quiet /\ mgr'.wait # "rollback"
  BY <1>1, <1>2, <1>3, <1>4, AsideQuiet
<1> QED  BY <1>4, <1>5, QuietKeeps

(* The steps of clients, and those of no process.                          *)
LEMMA SafeClient ==
  ASSUME TypeInv, CountInv, SafeInv,
         UNCHANGED vars \/ \E c \in Clients : Request(c) \/ Client(c)
  PROVE  CountInv' /\ SafeInv'
<1>1. UNCHANGED <<proc, spawned, inbox, box, servers, mgr, run, faults, past>>
  <2>1. CASE UNCHANGED vars
    BY <2>1 DEF vars, mail
  <2>2. ASSUME NEW c \in Clients, Request(c)
        PROVE  UNCHANGED <<proc, spawned, inbox, box, servers, mgr, run, faults, past>>
    BY <2>2 DEF Request
  <2>3. ASSUME NEW c \in Clients, Client(c)
        PROVE  UNCHANGED <<proc, spawned, inbox, box, servers, mgr, run, faults, past>>
    BY <2>3 DEF Client, TakeReply, TakeRangeReply, ClientTimeout, mail
  <2> QED  BY <2>1, <2>2, <2>3
<1>2. Quiet
  BY <1>1, SameKeeps DEF Quiet
<1>3. OrderlyNow' => mgr'.wait \notin {"rollback", "dead"}
  BY <1>1 DEF SafeInv, OrderlyNow, Orderly
<1> QED  BY <1>2, <1>3, QuietKeeps

(* The steps of a broadcast.                                               *)
LEMMA SafeBegins ==
  ASSUME TypeInv, CountInv, SafeInv, HandleStruct
  PROVE  CountInv' /\ SafeInv'
<1>1. UNCHANGED <<proc, spawned, servers, run, box, faults>> /\ mgr.wait = "main" /\ MailType
  BY DEF HandleStruct, Outside, Asked, TypeInv
<1>2. CASE servers = <<>>
  <2>1. Aside /\ UNCHANGED inbox /\ mgr'.wait \notin {"count", "dead"}
    BY <1>2, AsideStruct
  <2>2. Sends(Plain)
    BY <2>1 DEF Sends
  <2> QED  BY <1>1, <2>1, <2>2, AsideQuiet, QuietKeeps
<1>3. CASE servers # <<>>
  <2> DEFINE m    == Head(requests)
             wait == IF m.cmd \in AddStruct THEN "struct_add" ELSE "struct_dispose"
  <2>1. m.cmd \in Structural /\ SendStruct(1, m, wait) /\ past \subseteq past'
    BY <1>3 DEF HandleStruct, Asked, Structural
  <2>2. inbox' = Post(inbox, servers[1], m) /\ mgr'.wait \in {"struct_add", "struct_dispose"}
    <3> HIDE DEF m
    <3> QED  BY <2>1, StructSent
  <2> HIDE DEF m
  <2>3. \A C \in SUBSET Apart : \A p \in Pids : Kept(inbox[p], inbox'[p], C)
    BY <1>1, <2>1, <2>2, PostSends, PlainApart, SendsApart
  <2>4. Quiet
    BY <1>1, <2>1, <2>2, <2>3 DEF Quiet
  <2> QED  BY <2>2, <2>4, QuietKeeps
<1> QED  BY <1>2, <1>3

(* A broadcast that goes on or ends is about other commands.               *)
LEMMA GoesQuiet ==
  ASSUME TypeInv, StructInv, Broadcasting, NEW m, Received(Back, m),
         UNCHANGED <<proc, spawned, servers, run, past>>,
         (Return /\ UNCHANGED inbox) \/ SendStruct(mgr.i + 1, m, mgr.wait)
  PROVE  Quiet /\ mgr'.wait \notin {"rollback", "dead"}
<1>1. /\ MailType /\ KnownType /\ run \in BOOLEAN /\ faults \in Nat
      /\ box \in [Boxes -> Seq(Asking)] /\ {"count", "setup"} \subseteq Boxes
      /\ Back \in {"added", "disposed"} /\ mgr.wait \notin {"count", "setup", "rollback", "dead"}
  <2>1. faults \in Nat
    BY ClusterAssumption DEF TypeInv, HistoryType
  <2> QED  BY <2>1 DEF TypeInv, MailType, HistoryType, Boxes, Back, Broadcasting
<1>2. /\ box'["count"] = box["count"] /\ box'["setup"] = box["setup"]
      /\ faults' = 0 => faults = 0
  <2>1. box' = box \/ box' = [box EXCEPT ![Back] = Tail(@)]
    BY DEF Received
  <2>2. faults' = faults \/ faults' = faults + 1
    BY DEF Received, RunsOut
  <2> QED  BY <1>1, <2>1, <2>2
<1>3. CASE Return /\ UNCHANGED inbox
  <2>1. mgr'.wait \in {"main", "ended", "path"} /\ (mgr'.wait = "ended" => ~run)
    BY <1>1, <1>3, BodyTurns DEF Return
  <2> QED  BY <1>1, <1>2, <1>3, <2>1, SameKeeps DEF Quiet
<1>4. CASE SendStruct(mgr.i + 1, m, mgr.wait)
  <2>1. inbox' = Post(inbox, servers[mgr.i + 1], m) /\ mgr'.wait = mgr.wait
    BY <1>4, StructSent
  <2>2. ASSUME Sound'  PROVE \A C \in SUBSET Apart : \A p \in Pids : Kept(inbox[p], inbox'[p], C)
    <3>1. Sound /\ Heard(m)
      BY <2>2, StructHeard DEF Sound, StructInv
    <3>2. m.cmd \in Structural
      BY <3>1 DEF StructInv, BroadcastInv, Heard, Structural
    <3> QED  BY <1>1, <2>1, <3>2, PostSends, PlainApart, SendsApart
  <2> QED  BY <1>1, <1>2, <2>1, <2>2 DEF Quiet, Broadcasting
<1> QED  BY <1>3, <1>4

(* A second server that is up does what the first one did.                 *)
LEMMA NeverTurnsBack ==
  ASSUME TypeInv, StructInv, SafeInv, mgr.wait = "struct_add", NEW m, Received("added", m),
         mgr.i > 1, ~(box["added"] # <<>> /\ m.status = "OK"),
         UNCHANGED <<run, past>>
  PROVE  ~OrderlyNow'
<1>1. SUFFICES ASSUME OrderlyNow'  PROVE FALSE
  OBVIOUS
<1>2. Broadcasting /\ Back = "added"
  BY DEF Broadcasting, Back
<1>3. Sound /\ Heard(m)
  BY <1>1, <1>2, StructHeard DEF OrderlyNow, Orderly, StructInv
<1>4. OrderlyNow
  BY <1>1, <1>3 DEF OrderlyNow, Orderly, Sound
<1>5. /\ Len(servers) = 2 /\ mgr.i = 2 /\ mgr.i \in DOMAIN servers
      /\ 1 \in DOMAIN servers /\ 2 \in DOMAIN servers
  <2> DEFINE l == Len(servers)
  <2>1. servers \in Seq(Pids) /\ l <= 2 /\ mgr.i \in DOMAIN servers
    BY <1>2 DEF TypeInv, KnownType, MaxServers, StructInv, PidInv
  <2>2. l \in Nat /\ DOMAIN servers = 1 .. l
    BY <2>1
  <2> HIDE DEF l
  <2>3. l = 2 /\ mgr.i = 2
    BY <2>1, <2>2
  <2> QED  BY <2>1, <2>2, <2>3 DEF l
<1>6. proc[servers[1]] = "up" /\ proc[servers[2]] = "up"
  BY <1>4, <1>5 DEF SafeInv
<1>7. box["added"] # <<>> /\ m = box["added"][1]
  BY <1>2, <1>3, <1>5, <1>6 DEF Heard
<1>8. past \cap {"joined_late", "half_disposed"} = {}
  BY <1>4 DEF OrderlyNow, Orderly, Events
<1>9. box["added"][1].status = "OK"
  <2> HIDE DEF Same, Ahead
  <2> QED  BY <1>2, <1>3, <1>5, <1>6, <1>7, <1>8 DEF StructInv, AgreeInv
<1> QED  BY <1>7, <1>9

(* The loop of the rollback is not entered: when all servers have the same *)
(* the first of them refuses or none does.                                 *)
LEMMA SafeBroadcasts ==
  ASSUME TypeInv, StructInv, CountInv, SafeInv,
         AddStructGoesOn \/ RollbackGoesOn \/ DisposeStructGoesOn
  PROVE  CountInv' /\ SafeInv'
<1>1. UNCHANGED <<proc, spawned, servers, run, past>>
  BY DEF AddStructGoesOn, RollbackGoesOn, DisposeStructGoesOn, Outside, data
<1>2. ASSUME mgr'.wait = "rollback", ~OrderlyNow'  PROVE CountInv' /\ SafeInv'
  BY <1>2 DEF CountInv, SafeInv, Sound
<1>3. CASE RollbackGoesOn
  <2>1. PICK m : SendStruct(mgr.i, [m EXCEPT !.status = "OK"], "rollback") /\ Received("disposed", m)
    BY <1>3 DEF RollbackGoesOn
  <2>2. mgr'.wait = "rollback"
    BY <2>1, StructSent
  <2>3. faults' = 0 => faults = 0
    <3>1. faults \in Nat
      BY ClusterAssumption DEF TypeInv, HistoryType
    <3> QED  BY <2>1, <3>1 DEF Received, RunsOut
  <2>4. ~OrderlyNow'
    BY <1>1, <1>3, <2>3 DEF RollbackGoesOn, SafeInv, OrderlyNow, Orderly
  <2> QED  BY <1>2, <2>2, <2>4
<1>4. CASE AddStructGoesOn
  <2>1. PICK m, back :
          /\ Received("added", m)
          /\ \/ Return /\ UNCHANGED inbox
             \/ /\ ~(box["added"] # <<>> /\ m.status = "OK") /\ mgr.i > 1
                /\ SendStruct(mgr.i - 1, back, "rollback")
             \/ SendStruct(mgr.i + 1, m, "struct_add")
    BY <1>4, AddGoesOn
  <2>2. mgr.wait = "struct_add" /\ Broadcasting /\ Back = "added"
    BY <1>4, AddGoesOn
  <2>3. CASE (Return /\ UNCHANGED inbox) \/ SendStruct(mgr.i + 1, m, "struct_add")
    BY <1>1, <2>1, <2>2, <2>3, GoesQuiet, QuietKeeps
  <2>4. CASE /\ ~(box["added"] # <<>> /\ m.status = "OK") /\ mgr.i > 1
             /\ SendStruct(mgr.i - 1, back, "rollback")
    <3>1. ~OrderlyNow'
      BY <1>1, <2>1, <2>2, <2>4, NeverTurnsBack
    <3>2. mgr'.wait = "rollback"
      BY <2>4, StructSent
    <3> QED  BY <1>2, <3>1, <3>2
  <2> QED  BY <2>1, <2>3, <2>4
<1>5. CASE DisposeStructGoesOn
  <2>1. PICK m : /\ Received("disposed", m)
                 /\ (Return /\ UNCHANGED inbox) \/ SendStruct(mgr.i + 1, m, "struct_dispose")
    BY <1>5 DEF DisposeStructGoesOn
  <2>2. mgr.wait = "struct_dispose" /\ Broadcasting /\ Back = "disposed"
    BY <1>5 DEF DisposeStructGoesOn, Broadcasting, Back
  <2> QED  BY <1>1, <2>1, <2>2, GoesQuiet, QuietKeeps
<1> QED  BY <1>3, <1>4, <1>5

(* The steps of a transfer, and of the terminal's commands.                *)
LEMMA SafeMoves ==
  ASSUME TypeInv, CountInv, SafeInv, BeginTransfer \/ TransferAnswer \/ TransferTimeout
  PROVE  CountInv' /\ SafeInv'
<1>1. /\ MailType /\ box \in [Boxes -> Seq(Asking)] /\ {"count", "setup"} \subseteq Boxes
  BY DEF TypeInv, MailType, Boxes
<1>2. /\ Aside /\ Sends(Plain) /\ mgr.wait \in {"move"} \cup TransferWaits
      /\ mgr'.wait \notin {"count", "dead"}
  BY AsideBegin, AsideTransfer
<1>3. box'["count"] = box["count"] /\ box'["setup"] = box["setup"]
  <2>1. box' = box \/ box' = [box EXCEPT !["answer"] = Tail(@)]
    BY DEF BeginTransfer, TransferAnswer, TransferTimeout
  <2> QED  BY <1>1, <2>1
<1>4. Quiet /\ mgr'.wait # "rollback"
  BY <1>1, <1>2, <1>3, AsideQuiet DEF TransferWaits
<1> QED  BY <1>2, <1>4, QuietKeeps

(* A manager that has servers and was not told to shut down is neither     *)
(* aborted nor ended.                                                      *)
LEMMA SafeTyped ==
  ASSUME TypeInv, CountInv, SafeInv, HandleTerminate \/ HandleShutdown
  PROVE  CountInv' /\ SafeInv'
<1>1. Aside /\ UNCHANGED inbox /\ mgr.wait = "main" /\ mgr'.wait \in {"dead", "ended", "path"}
  BY AsideTyped
<1>2. UNCHANGED <<box, run, faults, past, servers>> /\ MailType
  BY DEF HandleTerminate, HandleShutdown, Outside, mail, TypeInv
<1>3. Quiet
  <2>1. Sends(Plain)
    BY <1>1 DEF Sends
  <2> QED  BY <1>1, <1>2, <2>1, AsideQuiet
<1>4. OrderlyNow' => mgr'.wait # "dead"
  <2>1. SUFFICES ASSUME OrderlyNow'  PROVE mgr'.wait # "dead"
    OBVIOUS
  <2>2. OrderlyNow
    BY <1>2, <2>1 DEF OrderlyNow, Orderly
  <2>3. servers # <<>> /\ run
    BY <1>1, <2>2 DEF SafeInv, OrderlyNow
  <2>4. mgr' = Over("terminate", Paths)
    BY <2>3 DEF HandleTerminate, HandleShutdown
  <2>5. Paths \in Seq(Collections)
    BY PathsType DEF TypeInv
  <2> HIDE DEF Over, Paths
  <2> QED  BY <2>4, <2>5, OverType
<1> QED  BY <1>1, <1>3, <1>4, QuietKeeps

(* The manager asks for a count, or has it.                                *)
LEMMA SafeAsks ==
  ASSUME TypeInv, SafeInv, UNCHANGED <<proc, spawned, servers, run>>, past \subseteq past',
         faults' = 0 => faults = 0, mgr.wait # "setup", NEW D, Sends(D),
         D \cap {"SHUTDOWN", "TERMINATE"} = {},
         OrderlyNow' => mgr'.wait \notin {"setup", "rollback", "dead", "ended"}
  PROVE  SafeInv'
<1>1. SUFFICES ASSUME OrderlyNow'  PROVE SafeInv'
  BY DEF SafeInv
<1>2. OrderlyNow
  BY <1>1 DEF OrderlyNow, Orderly
<1>3. MailType /\ \A j \in DOMAIN servers : servers[j] \in Pids
  <2>1. servers \in Seq(Pids) /\ MailType
    BY DEF TypeInv, KnownType
  <2> QED  BY <2>1
<1>4. \A q \in Pids : Kept(inbox[q], inbox'[q], {"SHUTDOWN"}) /\ Kept(inbox[q], inbox'[q], {"TERMINATE"})
  <2>1. D \cap {"SHUTDOWN"} = {} /\ D \cap {"TERMINATE"} = {}
    OBVIOUS
  <2> QED  BY <1>3, <2>1, SendsKeeps
<1>5. /\ \A q \in Pids : None(inbox'[q], {"SHUTDOWN"})
      /\ \A j \in DOMAIN servers : None(inbox'[servers[j]], {"TERMINATE"}) /\ proc[servers[j]] = "up"
  BY <1>2, <1>3, <1>4 DEF SafeInv, Kept
<1>6. servers # <<>>
  BY <1>2 DEF SafeInv
<1> QED  BY <1>1, <1>2, <1>5, <1>6 DEF SafeInv

(* A count is asked for where none is under way.                           *)
LEMMA CountAsked ==
  ASSUME TypeInv, Sound' => \A p \in Pids : None(inbox[p], {"GET_RECORDS_CNT"}),
         UNCHANGED <<proc, servers>>, NEW i \in DOMAIN servers, mgr.todo # <<>>,
         mgr'.wait = "count", mgr'.i = i, mgr'.todo = mgr.todo,
         inbox' = Post(inbox, servers[i], OwnMsg("GET_RECORDS_CNT", Head(mgr.todo))),
         Sound' => box'["count"] = <<>>
  PROVE  CountInv' /\ Sends({"GET_RECORDS_CNT"})
<1> DEFINE C == {"GET_RECORDS_CNT"}
           m == OwnMsg("GET_RECORDS_CNT", Head(mgr.todo))
<1>1. MailType /\ servers[i] \in Pids
  <2>1. servers \in Seq(Pids) /\ MailType
    BY DEF TypeInv, KnownType
  <2> QED  BY <2>1
<1>2. m.cmd \in C
  <2>1. Head(mgr.todo) \in Collections
    BY DEF TypeInv, MgrType, Places
  <2> QED  BY <2>1, OwnMsgType
<1> HIDE DEF C
<1>3. m' = m
  OBVIOUS
<1> HIDE DEF m
<1>4. Sends(C)
  BY <1>1, <1>2, PostSends DEF m
<1>5. CountInv'
  <2>1. SUFFICES ASSUME Sound'  PROVE CountInv'
    BY DEF CountInv
  <2>2. \A p \in Pids : IF p = servers[i] /\ proc[p] = "up" THEN One(inbox'[p], C, m) ELSE None(inbox'[p], C)
    <3>1. (\A p \in Pids : None(inbox[p], C)) /\ inbox' = Post(inbox, servers[i], m)
      BY <2>1 DEF m, C
    <3> QED  BY <1>1, <1>2, <3>1, PostPuts
  <2>3. \A p \in Pids : Counting(p)' <=> p = servers[i] /\ proc[p] = "up"
    BY <2>1 DEF Counting
  <2>4. \A p \in Pids : IF Counting(p)' THEN One(inbox'[p], C, m') ELSE None(inbox'[p], C)
    BY <1>3, <2>2, <2>3
  <2>5. Len(box'["count"]) <= 1
    BY <2>1
  <2> QED  BY <2>4, <2>5 DEF CountInv, C, m
<1> QED  BY <1>4, <1>5 DEF C

(* The next path; or the server that handed its keys over is let go, and   *)
(* is in strg_servers no more.                                             *)
LEMMA SafeNextPath ==
  ASSUME TypeInv, PidInv, CountInv, SafeInv, NextPath
  PROVE  CountInv' /\ SafeInv'
<1>1. /\ UNCHANGED <<proc, spawned, run, box, faults, seps>> /\ mgr.wait = "path" /\ past \subseteq past'
      /\ MailType /\ KnownType /\ run \in BOOLEAN /\ MgrType /\ servers \in Seq(Pids)
  BY DEF NextPath, Outside, TypeInv, HistoryType, KnownType
<1>2. Sound' => Sound /\ box["count"] = <<>> /\ \A p \in Pids : None(inbox[p], {"GET_RECORDS_CNT"})
  BY <1>1 DEF Sound, CountInv, Counting
<1>3. CASE mgr.todo = <<>> /\ mgr.job # "terminate"
  <2>1. Return /\ UNCHANGED <<inbox, servers>> /\ Aside
    BY <1>3, AsideNextPath DEF NextPath
  <2>2. mgr'.wait \in {"main", "ended", "path"}
    BY <1>1, <2>1, BodyTurns DEF Return
  <2>3. Sends(Plain)
    BY <2>1 DEF Sends
  <2> QED  BY <1>1, <2>1, <2>2, <2>3, AsideQuiet, QuietKeeps
<1>4. CASE mgr.todo # <<>>
  <2> DEFINE i == IF mgr.job = "terminate" THEN Len(servers) ELSE 1
  <2>1. AskCount(i) /\ UNCHANGED <<servers, past>> /\ Aside
    BY <1>4, AsideNextPath DEF NextPath
  <2> HIDE DEF i
  <2>2. /\ inbox' = Post(inbox, servers[i], OwnMsg("GET_RECORDS_CNT", Head(mgr.todo)))
        /\ mgr'.wait = "count" /\ mgr'.i = i /\ mgr'.todo = mgr.todo
    BY <1>1, <2>1 DEF AskCount, MgrType, Places
  <2>3. i \in DOMAIN servers
    BY <2>1, <2>2 DEF Aside, Turns
  <2>4. CountInv' /\ Sends({"GET_RECORDS_CNT"})
    BY <1>1, <1>2, <1>4, <2>1, <2>2, <2>3, CountAsked
  <2> QED  BY <1>1, <2>1, <2>2, <2>4, SafeAsks
<1>5. CASE mgr.todo = <<>> /\ mgr.job = "terminate"
  <2>1. /\ servers' = Front(servers) /\ mgr' = Over("redistribute", Paths)
        /\ inbox' = Post(inbox, servers[Len(servers)], OwnMsg("TERMINATE", NoOne))
    BY <1>5 DEF NextPath, LetGo
  <2>2. Paths \in Seq(Collections) /\ Len(servers) = 2
    BY <1>1, <1>5, PathsType DEF MgrType, MaxServers
  <2>3. mgr'.wait = "path"
    <3> HIDE DEF Over, Paths
    <3> QED  BY <2>1, <2>2, OverType
  <2>4. OwnMsg("TERMINATE", NoOne).cmd \in {"TERMINATE"}
    BY OwnMsgType
  <2> HIDE DEF OwnMsg
  <2>5. Sends({"TERMINATE"})
    BY <1>1, <2>1, <2>4, PostSends
  <2>6. \A q \in Pids : /\ Kept(inbox[q], inbox'[q], {"GET_RECORDS_CNT"})
                        /\ Kept(inbox[q], inbox'[q], {"SHUTDOWN"})
    <3>1. {"TERMINATE"} \cap {"GET_RECORDS_CNT"} = {} /\ {"TERMINATE"} \cap {"SHUTDOWN"} = {}
      OBVIOUS
    <3> QED  BY <1>1, <2>5, <3>1, SendsKeeps
  <2>7. CountInv'
    <3>1. LeavesAlone({"GET_RECORDS_CNT"}, mgr.wait = "count")
      BY <1>1, <2>6 DEF LeavesAlone
    <3> QED  BY <1>1, <2>3, <3>1, CountKept
  <2>8. /\ DOMAIN servers = 1 .. 2 /\ servers[1] \in Pids /\ servers[2] \in Pids
        /\ servers[1] # servers[2]
        /\ servers' = [j \in 1 .. 1 |-> servers[j]]
    <3>1. DOMAIN servers = 1 .. 2
      BY <1>1, <2>2
    <3>2. servers[1] = servers[2] => 1 = 2
      BY <3>1 DEF PidInv
    <3> QED  BY <1>1, <2>1, <2>2, <3>1, <3>2 DEF Front
  <2>9. \A j \in DOMAIN servers' : j \in DOMAIN servers /\ servers'[j] = servers[j] /\ servers'[j] = servers[1]
    BY <2>8
  <2>10. inbox'[servers[1]] = inbox[servers[1]]
    BY <1>1, <2>1, <2>2, <2>8 DEF Post, MailType
  <2>11. servers' # <<>>
    <3>1. 1 \in DOMAIN servers'
      BY <2>8
    <3> QED  BY <3>1
  <2>12. SafeInv'
    <3>1. SUFFICES ASSUME OrderlyNow'  PROVE SafeInv'
      BY DEF SafeInv
    <3>2. OrderlyNow
      BY <1>1, <3>1 DEF OrderlyNow, Orderly
    <3>3. \A q \in Pids : None(inbox'[q], {"SHUTDOWN"})
      BY <2>6, <3>2 DEF SafeInv, Kept
    <3>4. None(inbox[servers[1]], {"TERMINATE"}) /\ proc[servers[1]] = "up"
      BY <2>8, <3>2 DEF SafeInv
    <3>5. \A j \in DOMAIN servers' : None(inbox'[servers'[j]], {"TERMINATE"}) /\ proc'[servers'[j]] = "up"
      BY <1>1, <2>9, <2>10, <3>4
    <3> QED  BY <2>3, <2>11, <3>3, <3>5 DEF SafeInv
  <2> QED  BY <2>7, <2>12
<1> QED  BY <1>3, <1>4, <1>5

(* The count that comes is the one that was asked for, and the next one is *)
(* asked for when it has.                                                  *)
LEMMA SafeCounts ==
  ASSUME TypeInv, CountInv, SafeInv, CountAnswer \/ CountTimeout
  PROVE  CountInv' /\ SafeInv'
<1>1. /\ UNCHANGED <<proc, spawned, servers, run, past>> /\ mgr.wait = "count"
      /\ faults \in Nat /\ box \in [Boxes -> Seq(Asking)] /\ mgr.todo # <<>>
  <2>1. faults \in Nat
    BY ClusterAssumption DEF TypeInv, HistoryType
  <2> QED  BY <2>1 DEF CountAnswer, CountTimeout, Outside, TypeInv, MailType, MgrType
<1>2. CASE CountAnswer
  <2>1. /\ faults' = faults /\ box["count"] # <<>> /\ box' = [box EXCEPT !["count"] = Tail(@)]
    BY <1>2 DEF CountAnswer
  <2>2. box'["count"] = Tail(box["count"]) /\ box["count"] \in Seq(Asking) /\ box'["setup"] = box["setup"]
    BY <1>1, <2>1 DEF Boxes
  <2>3. Sound' => /\ box'["count"] = <<>>
                  /\ \A p \in Pids : None(inbox[p], {"GET_RECORDS_CNT"})
    <3>1. SUFFICES ASSUME Sound'
                   PROVE  /\ box'["count"] = <<>>
                          /\ \A p \in Pids : None(inbox[p], {"GET_RECORDS_CNT"})
      OBVIOUS
    <3>2. Sound
      BY <1>1, <2>1, <3>1 DEF Sound
    <3>3. Len(box["count"]) <= 1
      BY <1>1, <3>2 DEF CountInv
    <3>4. \A s \in Seq(Asking) : s # <<>> /\ Len(s) <= 1 => Tail(s) = <<>>
      <4>1. \A t \in Seq(Asking) : Len(t) = 0 => t = <<>>
        OBVIOUS
      <4>2. ASSUME NEW s \in Seq(Asking), s # <<>>, Len(s) <= 1  PROVE Tail(s) = <<>>
        <5>1. Tail(s) \in Seq(Asking) /\ Len(s) \in Nat \ {0} /\ Len(Tail(s)) = Len(s) - 1
          BY <4>2
        <5>2. Len(Tail(s)) = 0
          BY <4>2, <5>1
        <5> QED  BY <4>1, <5>1, <5>2
      <4> QED  BY <4>2
    <3>5. \A p \in Pids : ~Counting(p)
      BY <2>1 DEF Counting
    <3> QED  BY <2>1, <2>2, <3>2, <3>3, <3>4, <3>5 DEF CountInv
  <2>4. CASE inbox' = inbox /\ mgr'.wait = "move"
    <3>1. CountInv'
      BY <2>3, <2>4 DEF CountInv, Counting
    <3>2. Sends({}) /\ {} \cap {"SHUTDOWN", "TERMINATE"} = {}
      BY <2>4 DEF Sends
    <3> QED  BY <1>1, <2>1, <2>4, <3>1, <3>2, SafeAsks
  <2>5. CASE /\ mgr'.wait = "count" /\ mgr'.i \in DOMAIN servers /\ mgr'.todo = mgr.todo
             /\ inbox' = Post(inbox, servers[mgr'.i], OwnMsg("GET_RECORDS_CNT", Head(mgr.todo)))
    <3>1. CountInv' /\ Sends({"GET_RECORDS_CNT"})
      BY <1>1, <2>3, <2>5, CountAsked
    <3>2. {"GET_RECORDS_CNT"} \cap {"SHUTDOWN", "TERMINATE"} = {}
      OBVIOUS
    <3> QED  BY <1>1, <2>1, <2>5, <3>1, <3>2, SafeAsks
  <2> QED  BY <1>2, <2>4, <2>5, CountsOn
<1>3. CASE CountTimeout
  <2>1. UNCHANGED <<inbox, box>> /\ GiveUp /\ RunsOut("count")
    BY <1>3 DEF CountTimeout, mail
  <2>2. mgr'.wait \in {"main", "ended", "path"} /\ Turns
    BY <1>1, <2>1, GiveUpTurns
  <2>3. (faults' = 0 => faults = 0 /\ \A p \in Pids : inbox[p] = <<>>) /\ box["count"] = <<>>
    BY <1>1, <2>1 DEF RunsOut
  <2>4. CountInv'
    BY <2>1, <2>2, <2>3, NothingThere DEF CountInv, Counting, Sound
  <2>5. Sends({}) /\ {} \cap {"SHUTDOWN", "TERMINATE"} = {}
    BY <2>1 DEF Sends
  <2>6. OrderlyNow' => mgr'.wait \notin {"setup", "rollback", "dead", "ended"}
    BY <1>1, <2>2 DEF Turns, OrderlyNow
  <2> QED  BY <1>1, <2>3, <2>4, <2>5, <2>6, SafeAsks
<1> QED  BY <1>2, <1>3

(* Servers that are started, and the shutdown.                             *)
LEMMA SafeSetupAnswer ==
  ASSUME TypeInv, PidInv, CountInv, SafeInv, SetupAnswer
  PROVE  CountInv' /\ SafeInv'
<1>1. /\ UNCHANGED <<proc, spawned, run, inbox, faults>> /\ past \subseteq past'
      /\ mgr.wait = "setup" /\ box' = [box EXCEPT !["setup"] = Tail(@)]
      /\ servers' = Append(servers, spawned)
  BY DEF SetupAnswer, Outside
<1>2. /\ KnownType /\ run \in BOOLEAN /\ servers \in Seq(Pids) /\ spawned \in Pids
      /\ box \in [Boxes -> Seq(Asking)] /\ "count" \in Boxes
  <2>1. servers \in Seq(Pids)
    BY DEF TypeInv, KnownType
  <2> QED  BY <2>1 DEF TypeInv, HistoryType, ServersType, MailType, Boxes
<1>3. mgr'.wait \in {"main", "ended", "path"} /\ (mgr'.wait = "ended" => ~run)
  <2>1. CASE servers = <<>>
    BY <1>2, <2>1, BodyTurns DEF SetupAnswer
  <2>2. CASE servers # <<>>
    <3>1. mgr' = Over("redistribute", Paths)
      BY <2>2 DEF SetupAnswer
    <3>2. Paths \in Seq(Collections)
      BY <1>2, PathsType
    <3> HIDE DEF Over, Paths
    <3> QED  BY <3>1, <3>2, OverType
  <2> QED  BY <2>1, <2>2
<1>4. CountInv'
  <2>1. box'["count"] = box["count"]
    BY <1>1, <1>2
  <2>2. LeavesAlone({"GET_RECORDS_CNT"}, mgr.wait = "count")
    BY <1>1, SameKeeps DEF LeavesAlone
  <2> QED  BY <1>1, <1>3, <2>1, <2>2, CountKept
<1>5. /\ \A j \in DOMAIN servers' : (j \in DOMAIN servers /\ servers'[j] = servers[j])
                                    \/ servers'[j] = spawned
      /\ servers' # <<>>
  <2>1. Len(servers) + 1 \in DOMAIN servers'
    BY <1>1, <1>2, AppendAt
  <2> QED  BY <1>1, <1>2, <2>1, AppendAt
<1>6. SafeInv'
  <2>1. SUFFICES ASSUME OrderlyNow'  PROVE SafeInv'
    BY DEF SafeInv
  <2>2. OrderlyNow /\ run
    BY <1>1, <2>1 DEF OrderlyNow, Orderly
  <2>3. None(inbox[spawned], {"TERMINATE"}) /\ proc[spawned] = "up"
    <3>1. "TERMINATE" \in Commands \ {"SET_IN_MEMORY_CACHE_MODE"}
      BY DEF Commands
    <3>2. None(inbox[spawned], Commands \ {"SET_IN_MEMORY_CACHE_MODE"})
      BY <1>1 DEF PidInv
    <3>3. None(inbox[spawned], {"TERMINATE"})
      BY <3>1, <3>2 DEF None
    <3> QED  BY <1>1, <2>2, <3>3 DEF SafeInv
  <2>4. \A j \in DOMAIN servers' : None(inbox[servers'[j]], {"TERMINATE"}) /\ proc[servers'[j]] = "up"
    BY <1>5, <2>2, <2>3 DEF SafeInv
  <2> QED  BY <1>1, <1>3, <1>5, <2>2, <2>4 DEF SafeInv
<1> QED  BY <1>4, <1>6

(* Only a wait that ended early gives the new server up.                   *)
LEMMA SafeSetupTimeout ==
  ASSUME TypeInv, CountInv, SafeInv, SetupTimeout
  PROVE  CountInv' /\ SafeInv'
<1>1. /\ UNCHANGED <<spawned, servers, run, past, box>>
      /\ mgr.wait = "setup" /\ Return /\ RunsOut("setup")
      /\ proc' = [proc EXCEPT ![spawned] = "gone"] /\ inbox' = [inbox EXCEPT ![spawned] = <<>>]
  BY DEF SetupTimeout
<1>2. /\ KnownType /\ run \in BOOLEAN /\ spawned \in Pids /\ faults \in Nat
      /\ proc \in [Pids -> {"unborn", "up", "gone"}] /\ inbox \in [Pids -> Seq(Asking)]
  <2>1. faults \in Nat
    BY ClusterAssumption DEF TypeInv, HistoryType
  <2> QED  BY <2>1 DEF TypeInv, HistoryType, ServersType, MailType
<1>3. mgr'.wait \in {"main", "ended", "path"}
  BY <1>1, <1>2, BodyTurns DEF Return
<1>4. (faults' = 0 => faults = 0 /\ \A p \in Pids : inbox[p] = <<>>) /\ box["setup"] = <<>>
  BY <1>1, <1>2 DEF RunsOut
<1>5. CountInv'
  <2>1. /\ \A q \in Pids : q # spawned => inbox'[q] = inbox[q]
        /\ inbox'[spawned] = <<>>
    BY <1>1, <1>2
  <2>2. LeavesAlone({"GET_RECORDS_CNT"}, mgr.wait = "count")
    BY <1>1, <2>1, SameKeeps, NothingThere DEF LeavesAlone
  <2> QED  BY <1>1, <1>3, <1>4, <2>2, CountKept
<1>6. SafeInv'
  <2>1. SUFFICES ASSUME OrderlyNow'  PROVE FALSE
    BY DEF SafeInv
  <2>2. OrderlyNow /\ inbox[spawned] = <<>> /\ box["setup"] = <<>>
    BY <1>1, <1>2, <1>4, <2>1 DEF OrderlyNow, Orderly
  <2>3. One(inbox[spawned], {"SET_IN_MEMORY_CACHE_MODE"}, SetUp)
    BY <1>1, <2>2 DEF SafeInv
  <2> QED  BY <2>2, <2>3, OneNotNone
<1> QED  BY <1>5, <1>6

(* An inbox with nothing but the command that sets a server up.            *)
LEMMA SetUpAlone ==
  /\ One(<<SetUp>>, {"SET_IN_MEMORY_CACHE_MODE"}, SetUp)
  /\ \A C : "SET_IN_MEMORY_CACHE_MODE" \notin C => None(<<SetUp>>, C)
<1>1. SetUp.cmd = "SET_IN_MEMORY_CACHE_MODE"
  BY OwnMsgType DEF SetUp
<1> HIDE DEF SetUp
<1>2. DOMAIN <<SetUp>> = {1} /\ <<SetUp>>[1] = SetUp
  OBVIOUS
<1> QED  BY <1>1, <1>2 DEF One, None

(* A server is started and told to set up.                                 *)
LEMMA SafeRun ==
  ASSUME TypeInv, PidInv, CountInv, SafeInv, HandleRun
  PROVE  CountInv' /\ SafeInv'
<1> DEFINE p == spawned + 1
<1>1. /\ UNCHANGED <<servers, run, past, box, faults>>
      /\ mgr.wait = "main" /\ mgr' = At("setup") /\ spawned' = p
      /\ proc' = [proc EXCEPT ![p] = "up"] /\ inbox' = [inbox EXCEPT ![p] = <<SetUp>>]
      /\ spawned < MaxSpawned
  BY DEF HandleRun, SetUp
<1>2. /\ servers \in Seq(Pids) /\ spawned \in Pids /\ MaxSpawned \in Nat /\ Pids \subseteq Nat
      /\ proc \in [Pids -> {"unborn", "up", "gone"}] /\ inbox \in [Pids -> Seq(Asking)]
  <2>1. MaxSpawned \in Nat /\ Pids \subseteq Nat
    BY ClusterAssumption DEF Pids
  <2>2. servers \in Seq(Pids)
    BY DEF TypeInv, KnownType
  <2> QED  BY <2>1, <2>2 DEF TypeInv, ServersType, MailType
<1>3. p \in Pids /\ p > spawned
  BY <1>1, <1>2, ClusterAssumption DEF Pids
<1>4. mgr'.wait = "setup"
  <2>1. "setup" \in Waits
    BY DEF Waits
  <2> HIDE DEF At
  <2> QED  BY <1>1, <2>1, AtType
<1> HIDE DEF p
<1>5. \A j \in DOMAIN servers : servers[j] \in Pids /\ servers[j] # p
  <2>1. ASSUME NEW j \in DOMAIN servers  PROVE servers[j] \in Pids /\ servers[j] # p
    <3>1. servers[j] \in Pids /\ servers[j] <= spawned
      BY <1>2 DEF PidInv
    <3> QED  BY <1>2, <1>3, <3>1
  <2> QED  BY <2>1
<1>6. /\ \A q \in Pids : q # p => proc'[q] = proc[q] /\ inbox'[q] = inbox[q]
      /\ inbox'[p] = <<SetUp>> /\ proc'[p] = "up"
  BY <1>1, <1>2, <1>3
<1>7. \A C : "SET_IN_MEMORY_CACHE_MODE" \notin C => None(inbox'[p], C)
  BY <1>6, SetUpAlone
<1>8. CountInv'
  <2>1. LeavesAlone({"GET_RECORDS_CNT"}, mgr.wait = "count")
    BY <1>1, <1>6, <1>7, SameKeeps DEF LeavesAlone
  <2> QED  BY <1>1, <1>4, <2>1, CountKept
<1>9. SafeInv'
  <2>1. SUFFICES ASSUME OrderlyNow'  PROVE SafeInv'
    BY DEF SafeInv
  <2>2. OrderlyNow
    BY <1>1, <2>1 DEF OrderlyNow, Orderly
  <2>3. \A q \in Pids : None(inbox'[q], {"SHUTDOWN"})
    BY <1>6, <1>7, <2>2 DEF SafeInv
  <2>4. \A j \in DOMAIN servers : None(inbox'[servers[j]], {"TERMINATE"}) /\ proc'[servers[j]] = "up"
    BY <1>5, <1>6, <2>2 DEF SafeInv
  <2>5. One(inbox'[p], {"SET_IN_MEMORY_CACHE_MODE"}, SetUp)
    BY <1>6, SetUpAlone
  <2>6. SetUp' = SetUp
    BY DEF SetUp, OwnMsg, Msg
  <2> QED  BY <1>1, <1>4, <1>6, <2>3, <2>4, <2>5, <2>6 DEF SafeInv
<1> QED  BY <1>8, <1>9

(* From a shutdown on nothing is claimed.                                  *)
LEMMA SafeShutdown ==
  ASSUME TypeInv, CountInv, SafeInv, TypeShutdown
  PROVE  CountInv' /\ SafeInv'
<1>1. /\ UNCHANGED <<proc, servers, box, faults, mgr>> /\ run' = FALSE
      /\ inbox' = [p \in Pids |->
           IF proc[p] = "up" /\ p \in ToSet(servers)
           THEN Append(inbox[p], OwnMsg("SHUTDOWN", NoOne)) ELSE inbox[p]]
  BY DEF TypeShutdown
<1>2. OwnMsg("SHUTDOWN", NoOne).cmd \in {"SHUTDOWN"} /\ MailType
  BY OwnMsgType DEF TypeInv
<1> HIDE DEF OwnMsg
<1>3. Sends({"SHUTDOWN"})
  BY <1>1, <1>2 DEF Sends
<1>4. \A q \in Pids : Kept(inbox[q], inbox'[q], {"GET_RECORDS_CNT"})
  <2>1. {"SHUTDOWN"} \cap {"GET_RECORDS_CNT"} = {}
    OBVIOUS
  <2> QED  BY <1>2, <1>3, <2>1, SendsKeeps
<1>5. LeavesAlone({"GET_RECORDS_CNT"}, mgr.wait = "count")
  BY <1>1, <1>4 DEF LeavesAlone
<1>6. CountInv'
  BY <1>1, <1>5, CountKept
<1>7. SafeInv'
  BY <1>1 DEF SafeInv, OrderlyNow
<1> QED  BY <1>6, <1>7

-----------------------------------------------------------------------------
(* These invariants hold at the start, and every step keeps them.          *)
LEMMA SafeInit ==
  ASSUME Init
  PROVE  CountInv /\ SafeInv
<1>1. /\ servers = <<>> /\ spawned = 1 /\ mgr.wait = "setup"
      /\ proc = [p \in Pids |-> IF p = 1 THEN "up" ELSE "unborn"]
      /\ inbox = [p \in Pids |-> IF p = 1 THEN <<SetUp>> ELSE <<>>]
      /\ box = [b \in Boxes |-> <<>>]
  BY DEF Init, At, SetUp
<1>2. 1 \in Pids
  BY ClusterAssumption DEF Pids
<1> HIDE DEF SetUp
<1>3. /\ inbox[1] = <<SetUp>> /\ proc[1] = "up" /\ box["count"] = <<>>
      /\ \A p \in Pids : inbox[p] = <<SetUp>> \/ inbox[p] = <<>>
  BY <1>1, <1>2 DEF Boxes
<1>4. \A C : "SET_IN_MEMORY_CACHE_MODE" \notin C => \A p \in Pids : None(inbox[p], C)
  BY <1>3, SetUpAlone, NothingThere
<1>5. CountInv
  BY <1>1, <1>3, <1>4 DEF CountInv, Counting
<1>6. SafeInv
  <2>1. DOMAIN servers = {}
    BY <1>1
  <2> QED  BY <1>1, <1>2, <1>3, <1>4, <2>1, SetUpAlone DEF SafeInv
<1> QED  BY <1>5, <1>6

(* One step, by who takes it.                                              *)
LEMMA SafeStep ==
  ASSUME TypeInv, RouteInv, StructInv, CountInv, SafeInv, [Next]_vars
  PROVE  CountInv' /\ SafeInv'
<1>1. PidInv /\ KnowsInv
  BY DEF StructInv
<1>2. CASE UNCHANGED vars \/ \E c \in Clients : Request(c) \/ Client(c)
  BY <1>2, SafeClient
<1>3. CASE \E p \in Pids : Server(p)
  BY <1>1, <1>3, SafeServesSetup, SafeServesCount, SafeServesStruct, SafeServesData,
     SafeNoMemory, SafeServesEnd DEF Server
<1>4. CASE Manager
  BY <1>1, <1>4, SafeForward, SafeBegins, SafeBroadcasts, SafeNextPath, SafeCounts, SafeMoves,
     SafeSetupAnswer, SafeSetupTimeout, SafeTyped DEF Manager
<1>5. CASE Terminal
  BY <1>1, <1>5, SafeRun, SafeTyped, SafeShutdown DEF Terminal
<1> QED  BY <1>2, <1>3, <1>4, <1>5 DEF Next

(* The invariants hold throughout.                                         *)
LEMMA SafeInvHolds == Spec => [](TypeInv /\ CountInv /\ SafeInv)
<1>1. Init => CountInv /\ SafeInv
  BY SafeInit
<1>2. TypeInv /\ RouteInv /\ StructInv /\ CountInv /\ SafeInv /\ [Next]_vars => CountInv' /\ SafeInv'
  BY SafeStep
<1>3. Spec => [](TypeInv /\ RouteInv) /\ [](TypeInv /\ StructInv)
  BY TypeInvHolds, StructInvHolds
<1> QED  BY <1>1, <1>2, <1>3, PTL DEF Spec

(* A cluster that is used in order stays whole: while nobody waited in     *)
(* vain, joined late, disposed around a collection or asked for a key that *)
(* is not there, every server in strg_servers is up, and the manager       *)
(* neither loops in a rollback nor is aborted nor has ended.               *)
THEOREM OrderlyUseStaysSafe == Spec => []OrderlyUseIsSafe
<1>1. TypeInv /\ SafeInv => OrderlyUseIsSafe
  <2>1. SUFFICES ASSUME TypeInv, SafeInv, OrderlyNow
                 PROVE  Live = ToSet(servers) /\ mgr.wait \notin {"rollback", "dead", "ended"}
    BY DEF OrderlyUseIsSafe, OrderlyNow
  <2>2. \A p \in ToSet(servers) : proc[p] = "up"
    BY <2>1 DEF SafeInv, ToSet
  <2> QED  BY <2>1, <2>2 DEF Live, SafeInv
<1> QED  BY <1>1, SafeInvHolds, PTL

=============================================================================
