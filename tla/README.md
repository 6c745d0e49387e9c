# Verification of the B-tree data manager

TLA+ models, TLC runs and TLAPS proofs for the data manager in `src/`: a
key-value database whose collections are spread over several storage server
processes by a manager server, over a System V message queue, with B-trees and
hand-written allocators underneath.

## 1. Inventory of the system

| Component | State it keeps | Operations | Talks to |
|---|---|---|---|
| manager server (`dbms/manager_server`) | `strg_servers`, `separators[path]`, `data_change_counter` | routes data commands by the separators, forwards answers, adds and terminates servers, broadcasts structure commands, redistributes keys after 30 * (1 + n) changes | clients, storage servers (messages); terminal thread (shared vector, `run_flag`) |
| storage server (`dbms/db_storage/server`) | the `db_storage` singleton | one command per message, answered with the same message | manager (messages) |
| client (`dbms/client`) | `request_counter` | one request at a time, waits for the answer with its `req_id` | manager (messages) |
| storage (`dbms/db_storage`) | pools > schemas > collections; `_records_cnt`; data and index files in file mode | insert, update, dispose, obtain*, load, consolidate | B-tree, allocators, files |
| B-tree (`associative_container/search_tree`) | nodes under `_root`, a mutex | insert, update, dispose, obtain, obtain_between, iterators | allocator |
| allocators (`allocator/`): sorted list, boundary tags, buddies, red-black tree, global heap | one arena with the lists or tree in it, a mutex | allocate, deallocate, set_fit_mode | parent allocator |
| loggers (`logger/`) | streams with reference counts; a queue to the logging server | log | logging server |
| common types, utilities, legacy `database.h` | none that control depends on | | |

What is hard in it:

* *Messages.* All parties share one queue. The manager takes the lowest message
  type first, so answers go before requests. In the middle of a redistribution it
  waits for "an answer", not for the answer to a particular command. All
  waits are polls with a limited number of tries, so a late answer is
  found by a later wait.
* *Redistribution.* A key moves by three or four commands to two
  servers, each of which may fail; the separators change afterwards; the counts it
  works with can be wrong.
* *Broadcasts.* Structure commands go to one server after the other in one reused message variable; a failure half-way
  has to be taken back. Servers that join or end meanwhile must have what the others have, or hand it over.
* *Processes that end.* An exception nobody catches ends a server or the manager; the terminal's thread shuts down at any moment.
* *Partial failure.* Inserting into a tree allocates several nodes, and
  each allocation may throw.
* *Pointer work.* Splits, borrowings and merges in the tree, splits and merges of
  blocks in the arenas.

What makes each component correct:

* manager: separators sorted; every stored key where its commands are routed to; a
  transfer loses no key; servers balanced after a redistribution; it always returns to its loop;
* client and servers: each request is answered once, and the answer accepted is its own;
* B-tree: order, equal depth and fill; each operation changes exactly its key; ranges exact;
* servers and manager together: every server has the same structures, the manager separators for exactly those; a server that ends takes no key with it; ranges are exact; shutdown ends everything;
* allocators: no two places handed out overlap; blocks tile the arena, free neighbours are one block, reported free space is exact, stale blocks are refused.

The hazards, each with its line in the source and the properties that cover it (or why none does yet, and
which ones a property only excludes as an event), are in `PROJECT.json` under `hazards`.

## 2. Modules

| Module | Models | State |
|---|---|---|
| `Redistribution` | the two loops of `redistribute_path_keys` and the `transfer_*_n` loops | `rd`: the statement it is at, `i`, `j`, the arrays `differ` and `prefix` (`differ_prefix`), the transfers left |
| `Balance` | `Redistribution` on servers that answer everything: is the arithmetic right? | `cnt`, `reported`, `moves` |
| `KeyMap` | abstract: one set of keys, commands take effect at one moment | `keys`, `op` |
| `Manager` | manager, storage servers and clients of one collection that exists, with `Redistribution` in it; the messages of one `mtype` are one mailbox | see below |
| `MCManager` | `Manager` with the symmetry of the clients, for TLC | |
| `Cluster` | the manager as the keeper of its servers: starting and ending them, structure commands, range queries, the terminal, processes that die | see below |
| `Fit` | the search by fit mode that the allocators share | |
| `Arena` | abstract: what an allocator promises; places handed out do not overlap | `size`, `granted` |
| `SortedList` | `allocator_sorted_list` in an arena of words | `mem`, `head`, `freeSpace`, `fit`, `held` |
| `BoundaryTags` | `allocator_boundary_tags`: the tags of the blocks handed out | `tag`, `head`, `avail`, `fit` |
| `Buddies` | `allocator_buddies_system`: powers, marks and the list of free blocks | `power`, `occupied`, `list`, `avail`, `fit`, `held`, `crashed` |
| `CollectionArena` | the allocator classes, one of the three as the constructor of a collection chooses it; shown to implement `Arena` | `variant` and the variables of the three |
| `BTree` | `b_tree` and the node operations of `search_tree` | `root` |
| `RedistributionProofs`, `BalanceProofs` | theorems about `Redistribution` and `Balance` | |
| `ManagerProofs` | theorems about `Manager`: transfers and routes, and on top of them messages and the set of keys | |
| `ClusterProofs`, `StructureProofs`, `EndedProofs`, `RangeProofs` | theorems about `Cluster`: types and routes, on top of them structures and safety, the server that ends, and ranges | |
| `CollectionArenaProofs` | theorems about `SortedList`, `BoundaryTags` and `Buddies` as `CollectionArena` uses them | |

`Manager` in detail. `inbox[s]` holds the messages sent to the pid of server *s*,
`requests` those of `MANAGER_SERVER_CLIENT_PRIOR`, `answers` and `counts` the two answer types,
`replies[c]` those sent to the client. `store[s]` is the key set of the collection's tree
and `records[s]` its `_records_cnt`, which may start from anything in `Uninitialised`, because
moving the collection into the schema leaves it unset (db_storage.cpp:162, 806). `seps` are the
separators, `mgr.wait` is the receive the manager blocks in, `client[c]` the
request a client waits for and its `request_counter`. Each action is one iteration of a loop or the
code between two receives:

| Code | Actions |
|---|---|
| `run_session`, `handle_*_command`, `handle_server_answer` (client.cpp) | `Request`, `SkipReply`, `AcceptReply`, `ClientTimeout` |
| the switch of the storage server | `ServeAdd`, `ServeDispose`, `ServeUpdateOrObtain`, `ServeMinOrMax`, `ServeNext`, `ServeCount`, `NoMemory` |
| the manager's main loop with `handle_data_command` | `ForwardRequest`, `ForwardAnswer` (both with `CountChange`, the end of the loop body) |
| `redistribute_path_keys` | `CountAnswer`, `CountTimeout`, `RedistributionLoop`, `RedistributionReturns` |
| `transfer_left`, `transfer_right` | `BeginTransfer`, `TransferAnswer`, `TransferTimeout` |

`known`, `wentLeft` and `crossed` are history variables that the properties use and no action reads. `crossed`
becomes true when a transfer begins while a message to a server or an answer is still about.

`Cluster` in detail. `proc[p]` says whether the process *p* is up, `servers` is `strg_servers`, `seps` the
separators of every collection the manager knows, `has[p]` and `store[p]` the pool, schema and collections of a server.
`box` holds what servers send to the manager, one mailbox per `mtype`; `mgr` is the receive the
manager is in with the locals of the calls that led there: `msg` is the one message variable that the broadcasts
reuse for request, answer and next request. There are at most two servers at a time, so that one loop of
transfers is a whole redistribution (`Redistribution`'s sums and targets decide how many); what
happens with more is the subject of `Manager` and `Balance`.

| Code | Actions |
|---|---|
| `run_terminal_reader` (run, terminate, shutdown) | `HandleRun`, `HandleTerminate`, `TypeShutdown`, `HandleShutdown` |
| `handle_add_server` | `HandleRun`, `SetupAnswer`, `SetupTimeout` |
| `handle_terminate` | `HandleTerminate`, `NextPath`, `CountAnswer` with `HandOver`, `LetGo` |
| `handle_add_struct_command` | `HandleStruct`, `AddStructGoesOn`, `RollbackGoesOn` |
| `handle_dispose_struct_command` | `HandleStruct`, `DisposeStructGoesOn` |
| `handle_data_command`, `handle_obtain_between_command` | `ForwardRequest`, `ForwardAnswer` |
| `redistribute_keys`, the transfers | `NextPath`, `CountAnswer`, `CountTimeout`, `BeginTransfer`, `TransferAnswer`, `TransferTimeout` |
| the switch of the storage server | `ServeSetup`, `ServeAddStruct`, `ServeDisposeStruct`, `ServeCount`, `ServeData`, `NoMemory`, `ServeRange`, `ServeEnd`, and `LoseQueue` when the manager has removed the queue |
| `run_session`, `handle_server_answer` | `Request`, `TakeReply`, `TakeRangeReply`, `ClientTimeout` |

A server's `_records_cnt` is not a variable here: since the collections of a schema are moved about in a tree, a server may
answer `GET_RECORDS_CNT` with the number of its keys or with anything in `Uninitialised` (`ServeCount`). A client's range may have its bounds the wrong way round:
a server refuses it, and when the two bounds are routed to two servers the manager asks nobody and the client waits until it gives up.
The parts of a range are put into the answers in one step, where the code sends them one after the other: they are one mailbox's messages in that order, from a server that
looks at nothing else meanwhile, read from its tree at one moment; answers of the other server that lie between them in the code can only be to a transfer, which then began with a
message under way and is `crossed` either way, or to another client, and `RangeExact` is about one.

`NoMemory`, in both, is the refusal of `collection::insert` and `update` when there is no room for the value. An insert that runs out
of memory later, inside the tree, may lose keys (`FailedInsert`, in `BTree`); above the tree nothing is claimed of a server on which that has happened.

`past` is a history variable: the set of those `Events` that have happened, each of them a legal use after which the code
breaks one of the properties. No action but the bound `MayAsk` reads it.

Definitions whose comment calls them mutants are used by no specification. Each is a
plausible mistake in the definition it stands before; put in its place, TLC finds the property
named in `PROJECT.json` violated.

## 3. Runs

| Run | Question | Bounds, and why they are enough |
|---|---|---|
| `Balance` | does redistribution balance, with the fewest moves, and return? | 4 servers, the least for a pass through a server on either side and for two deficits; 0..3 keys each (the threshold is a factor above 2); one report may be too high by 2 |
| `OneClient` | with one client: no crossing, no lost key, right answers, every request returns; sorted separators, routing and the refinement of `KeyMap` with a middle server | 3 servers, 3 keys (a key on each, or two to pass through the middle one), 4 commands; threshold 1 * (1 + 3), even like 30 * (1 + n); request numbers wrap at once; counters may start at 2 |
| `TwoClients` | commands of two clients and transfers interleaved; refinement of `KeyMap` | 2 servers, 2 keys, threshold 3 (odd, so that a transfer may begin on a request and cross) |
| `Timeouts` | waits that give up too early | 1 key, 1 early timeout anywhere, any number of justified ones; threshold 6, so that a transfer that does not cross gets its timeouts too; counters that start at 2 make the manager move even a single key |
| `Cluster` | servers that start and end, structure commands, ranges, shutdown at any moment | 2 servers ever, one client, one pool, schema and collection, 2 keys (a key on each server and a range over both); threshold 2 * (1 + n); one fault: an early timeout or a failed allocation; a report is right or 0: reports that are too high make the run several times longer and are left to the theorems, which have any |
| `CollectionArena` | the three allocators and the abstract arena | sorted list: 9 words, four blocks of the least size and a rest too small for one; boundary tags: 26 words, up to six blocks of the least size; requests 0..4; buddies: eight blocks of the least size |
| `BTree` | the tree, with allocation failures | t = 2, 10 keys: three levels, a merge that removes one, splits up to the root. With t = 2 no key or subtree moves by more than one place when a node is split. With t = 3 the leaves' keys do, which `T = 3`, `MaxKey = 11` in the same configuration checks in half a minute; an inner node is split from 17 keys on, which is too many, so that its subtrees move along (search_tree.h:441, 451) is read off the code |
| `MinToTheLeft` | violated: what transfer_left sends | the least instance with a transfer to the left |
| `MaxToTheRight` | violated: what transfer_right disposes when crossed | two clients |
| `DisposedEverywhere` | violated: a schema that a client was told is disposed is on no server | two servers, no faults, no keys needed |
| `ZeroSized` | violated: a block that cannot be given back | the sorted list alone, 9 words |
| `FailedInsert` | violated: an insert that fails leaves the tree as it was | 4 keys |

What the passing runs show, and under which condition:

* `NeverCrossed` holds with one client because a request and its answer both count as
  a change (manager_server.cpp:276) and 30 * (1 + n) is even, so the threshold is reached on an answer. With
  two clients it does not hold. The other properties of `Manager` are therefore stated up
  to the first crossing; `MaxToTheRight` shows what follows it.
* `RoutableBeforeLeft`, `SeparatorsSorted` and `ImplementsKeyMap` hold up to the first transfer to the
  left (the first two also ask for no early timeout, `Undisturbed`: a transfer given up halfway leaves its key on two servers): `transfer_left` sends the wrong key (`MinToTheLeft`), and the least key
  becomes unreachable. It may even put the separators out of order: when the keys of that server later go on
  to the right, the key that stayed behind becomes a separator below the one before it. `KnownStored` and
  `TransfersKeepKeys` hold in spite of it: the key is still stored somewhere.
* `NeverDrained`, `EndsBalanced` and `FewestMoves` ask for exact counts and for no two separate
  runs of servers that lack keys. With two such runs (for example the counts 0, 3, 0, 2) the loop over
  `j` repeats the hops of the first, because only `differ_prefix[i]` is reset at the end of iteration `i`; the servers
  do not end balanced. No comment says otherwise, so it is recorded here and not as a finding.
* `KnownStored` is not checked with two clients: with two clients disposing and adding the same key, being
  told that it is there says nothing about a moment later.
* `StructuresAgree` holds up to the first server that joins when there are structures (a new server is given none), the first
  `DISPOSE_SCHEMA` sent to two servers (`DisposedEverywhere`) and the first fault.
* `RoutesKnown` holds, besides, up to the first pool or schema disposed with a collection inside: only
  `DISPOSE_COLLECTION` erases separators.
* `RoutesInside` holds up to the first server ended while a separator bounds keys on it: `handle_terminate`
  shortens `strg_servers` and no separators.
* `OrderlyUseIsSafe`, which needs nothing of the reports, says that besides these, a range whose left bound is not stored and a data command for an unknown collection
  nothing ends a process or makes the manager loop: these are all the ways there are, within the bounds.
* `RangeExact` holds with one client while no transfer has crossed or gone to the left, no server has reported too few keys to end and no schema was disposed
  around a collection. A range over two servers normally ends the second one, which lacks the left bound, so what is checked is above all the range of one server among joins, ends and transfers. The client counts the END answers without looking at `req_id`. With two collections, disposing a schema around one of
  them lets the manager route by separators that no server has the collection for; the range of another then misses keys.
* `EndedEmpty` holds although the hand-over uses `transfer_left`: of the last key the next one is
  the key itself. It holds as long as the server did not report fewer keys than it has (`short_count`): `handle_terminate` hands over as many keys as
  `_records_cnt` says, and `_records_cnt` may say anything. With a report that is too low the server ends with keys, and TLC finds `EndedEmpty`, and then `RangeExact`, violated when
  the condition is left out. A report that is too high does no harm (`EndedProofs`): the transfer of a key that is not there is refused, and the server is not told to end.
* `ShutdownEnds` excepts the rollback that never ends and a manager that was aborted.
* `Halved`, `FreeSpaceExact` and `ImplementsArena` hold of the buddies although `deallocate` merges nothing and links what it is
  given back nowhere: memory is lost, never handed out twice, and still reported as available. Taking the last free block writes through a null pointer
  (allocator_buddies_system.cpp:200); the model stops there (`crashed`).
* `BoundaryTags` gives back only blocks that were not given back before. The owner's word stays in the tag, so the
  check at allocator_boundary_tags.cpp:256 does not notice the second time.
* `ChangesExact` lets a failed insert lose keys, which it does (`FailedInsert`); `WellFormed` shows that what
  is left is a B-tree all the same.
* When `node_merge` meets a full parent it touches memory past the parent's arrays. The tree
  model stops there (`Spoiled`) and nothing is claimed about what follows.
* `ReadsExact` leaves out `obtain_between` on an empty tree, which is undefined (b_tree.h:1232).

The bounds that are not sizes: `StopAfter` names the events of `Cluster` after which nobody
types or asks for more (what is under way, and a shutdown, still happen), because what is left to check
of a system that has broken is that it still shuts down; `MaxFaults` and `MaxTimeouts` bound what goes wrong;
`MaxSpawned` the servers ever started.

`Balance`, `BTree`, `FailedInsert`, `CollectionArena`, `Cluster` and `DisposedEverywhere` do not check for deadlock: a redistribution ends, a tree
may be spoiled, an allocator may crash, and a system that was shut down has stopped. All other runs check that the system never gets stuck.

### Fairness

`Manager!Spec` asks weak fairness of the manager, of each server and of each waiting
client: each is a loop around a receive that blocks or, in `msgrcvt`, gives up after a number of tries,
in a process of its own that the operating system schedules. No fairness is asked of `Request`: nobody has to type
a command. `RunsOut` lets a wait give up for sure when nothing is on its way, and too early at most
`MaxTimeouts` times; without that bound a wait could fail for ever, which says nothing about the code. In the runs with
`MaxTimeouts = 0` a client waits as long as its message is somewhere. `Balance` asks weak fairness of its
single process. `Cluster!Spec` is fair in the same way to the manager, the servers and the waiting client, and asks none
of `Request` and of the terminal: `ShutdownEnds` starts from the moment somebody has typed shutdown.

## 4. Proofs

Checked by tlapm for every value of the constants that `NServersAssumption`, `ManagerAssumption`, `ClusterAssumption`, `SizesAssumption` and the
assumption of `Balance` (checked by TLC in every run that uses them) allow.

* `RedistributionProofs`: a lemma on the recursive definition of the running sums (`PrefixProperties`, by
  well-founded induction on servers), which says nothing of the code but without which it would not follow that sums, targets and differences are integers. `RdInv` is the inductive invariant of the loop
  state: its type, and the bounds of `i` and `j` at each statement (a transfer to the left has `1 <= j <= i < NServers`, one to
  the right has `i + 1 < NServers`), without which `From` and `To` could be outside of the servers.
* `BalanceProofs`: `TypeOK`, `NeverDrained`, `EndsBalanced` and `FewestMoves` of `Balance`, for any number of servers and keys.
  The argument is an account of flows. For each boundary between two servers `Flow` is how many keys have gone over it so far; it is
  a function of the loop's state alone: all of `prefix` at the boundaries the loop is done with, none at those ahead, part of it at the one it is
  at. `Control` says which those are at each statement of the loop, `Accounts` that every server's count is what it started with plus
  what flowed in less what flowed out, and that `moves` is the sum of the flows. The three together are inductive (`InvInit`, `InvStep`;
  TLC checked them with four servers first). At the end every flow is the prefix, hence `EndsBalanced` and
  `FewestMoves`; and a server that is asked for a key has what it keeps and at least one to pass on, hence `NeverDrained`. The hypothesis
  of one run of deficits is what keeps the hops of an earlier run from being made again (`PlainIsSound`).
* `ManagerProofs!TypeCorrect`: `Spec => []TypeOK`. `TypeOK` alone is not inductive: a step of a transfer
  indexes servers and separators by `From` and `To`, so `TypeInv` is `TypeOK /\ RdInv`. One lemma per group of actions.
* `ManagerProofs!TransferKeepsKeys`: `Spec => TransfersKeepKeys`. The strengthening
  `TransferInv` says that during a transfer that did not cross exactly one message is about among the servers' inboxes and
  the answers (`OnlyCommand` or `OnlyAnswer`), that it is the transfer's own, and which it can be at each `mgr.wait`: above all that a DISPOSE is sent to `From`
  only after an ADD of the same key was answered OK by `To`, so that the disposed key is also in `store[To]`, and that an ADD
  carries a key that is in `store[From]`. With more than one message about, neither would follow, which is what `crossed` is for.

* `ManagerProofs!SeparatorsStaySorted`, `ManagerProofs!KeysStayRoutable`: `Spec => []SeparatorsSorted` and `Spec => []RoutableBeforeLeft`. `Within` says that a key lies between the
  separators around its server; the invariant says that they are sorted and that every stored key, and the key of every command on its
  way to a server, is `Within`. Outside of transfers no separator changes, so this is kept by routing alone. During a transfer to the right
  (`RightCommand`, `RightAnswer`) it is kept but for the key that moves. That key is the greatest of its server, so it may become the
  separator: all the keys that stay are below it. A separator changes at the end of a transfer only, when the one message that
  was about is the answer just taken.
* `ManagerProofs!NoCommandLostOrDoubled` and `AnswersAreOwn`: `Spec => [](timeouts = 0 => OneMessagePerClient)` and `Spec => [](timeouts = 0 => AnswersMatch)`. `Stage` says where the
  message of a waiting client may be: a request, a command in one inbox, an answer, or a reply, in exactly one place and with the status that belongs
  there. `OwnInv` says what else is about: in a transfer, or while counting, the manager's own messages. Each action moves the message one
  stage on, or leaves it alone (`Kept`).
* `ManagerProofs!ServersImplementKeyMap`: `Spec /\ [](timeouts = 0) => ImplementsKeyMap`. The stage of a client's one message tells how far the abstract
  operation is, so that only `Serve*` can be its moment, and what a server answers about its own keys is what `KeyMap` answers about all of them
  because a key is stored nowhere but where it is routed; a refusal for want of memory (`NoMemory`) is `KeyMap`'s `Refuse`. Moving a key changes the set of all keys at no step: it is added before it is disposed.
* `ManagerProofs!OneClientNeverCrosses` and `WhatTheClientKnowsIsStored`: `NeverCrossed` and `KnownStored` for one client and an even threshold (both are hypotheses of the theorems; 30 * (1 + n) is even),
  when no wait gives up early. The invariant ties the parity of `data_change_counter` to where the client's message is:
  odd exactly while a change that was passed on has not come back. An even threshold is therefore reached by an answer only, and
  then nothing of the client's is on its way to a server; while the manager counts and transfers it forwards nothing, so none gets there. `KnownStored`
  then follows from the abstract operation: what the client was told, or is about to be told, is in the set of all keys.
* `ClusterProofs`: `Spec => []TypeOK` and `Spec => []RoutesInside` of `Cluster`. Neither is inductive. `TypeInv` adds the type of every
  message in every mailbox (a data command names a key, an answer of success names one too, or `transfer_*` would send on what is no key) and what each
  place in the manager needs of the servers: a transfer, or a server that ends, needs two of them, the paths still to be seen to have
  separators, and while a redistribution is due nothing is broadcast (`NotDue`), so that `DISPOSE_COLLECTION` cannot take away the separators
  of a path that is still on the list. `RouteInv` says that from the last server on every separator is the greatest key, which
  a server that joins keeps by appending one, a transfer by changing the first of two servers' only, and which the event `ended_keeper` excepts.
* `StructureProofs`: `Spec => []StructuresAgree`, `Spec => []RoutesKnown` and `Spec => []OrderlyUseIsSafe` of `Cluster`. A broadcast is one message that goes from
  server to server. As long as no wait gave up early (`Sound`), `BroadcastInv` says where it is: in the inbox of the server `mgr.i`, or back in `"added"` or
  `"disposed"`, once and nowhere else, with the command and collection that the manager expects. `AgreeInv` says that two servers have the same but
  while a broadcast is between them, when the first has what the second will have after the message (`Ahead`); a second server can then not refuse what
  the first one did, which is why a rollback takes a fault. `KnowsInv` says the same of the separators: a server the broadcast has passed has the
  collections the manager is about to know (`Renewed`), the others those it knows, and none has more of them in any event. `PidInv` (no two places of `strg_servers` for one process, the process that is
  being set up in none of them, nothing stored by processes not yet born) keeps a server that ends from being one that is counted on, `NestInv` (no schema
  without the pool) makes a command's result depend on the three names only.
  For `OrderlyUseIsSafe`, `CountInv` says that the one count that was asked for is with `mgr.i` or back, and `SafeInv` that the new server has its set-up message
  or has answered, that TERMINATE is in the inbox of no server in `strg_servers`, and that nobody has SHUTDOWN. The conditions of the theorems are the events of
  `past`; each is used where the proof would otherwise fail, and `KnowsInv` is what makes a counted collection exist on the server. TLC checked the
  conjuncts as invariants on two instances before they were proved.
* `EndedProofs`: `Spec => EndedEmpty` of `Cluster`. It speaks of one step; `GoneInv` is what holds before it: a server with TERMINATE in its inbox is not in
  `strg_servers`, so nobody sends it anything more, and has no key, and there is no ADD on its way that would give it one. It is so from the moment
  of the TERMINATE because of `LeftInv`. Until the first count is answered, every collection of the server is still on the manager's list of paths, and what clients sent it
  earlier may still change it, but lies before the count in its inbox (`CountLast`). From then on there is nothing in its inbox but what the transfers put there:
  the paths done with are empty, and of the path being seen to it has no more keys than there are transfers left (`Remaining`, one less between the DISPOSE and its answer): this is where a report that is too low is excluded, and one that is too high is not.
  A transfer lessens the number only if the key it disposes is there: `MoveInv` says that there is one message about, with the server whose turn it is or back, and that the key it
  names is a key of the server that ends, which OBTAIN_NEXT of the last key keeps because it answers with the key itself. That the list has every collection of the server is `KnowsInv`, and
  that it has every collection known is `PathsAll`. A server or a neighbour that dies, SHUTDOWN at any moment, and an answer that says no are cases of the proof.
* `RangeProofs`: `Spec => RangeExact` of `Cluster`, for one client, and any number of keys, collections and servers started. The conclusion is about the moment the client takes the last record;
  `RangeInv` is what holds before it, in two parts. `Settled` in most of them is the property's own condition: nothing was late, no transfer crossed or went to the left, no server reported too few keys to end, no schema was disposed around a collection.
  * Where the keys are. `RightInv` follows the key of a transfer: the one message about is the command that the manager's receive says, with the server whose turn it is or back, and the key in it
    is the greatest the giver has; when it is disposed, the taker has it. Every other key is stored where its separators send commands for it (`ApartInv`), and every ADD on its way
    is on its way there (`AddedInv`); a new collection, while it is broadcast, has no key (`NewInv`). These rest on what is known of the servers (proved at the end of `EndedProofs`): a process that is not in `strg_servers`
    has no key and one that is not up has nothing at all (`HomeInv`, `ThereInv`), a server in `strg_servers` that is up has every collection the manager knows, or, joined when collections were known, has none and goes when it is counted (`FullInv`), and only the first
    separator is ever less than the greatest key (`SepsInv`).
  * Where the one command of the client is. `Stage` has a case for each place: nothing is under way (`Free`), requested, broadcast, with one server, answered, in the replies, and for a range the same (`RangeAsked`, `RangeAnswered`) and
    the range cut in two by the routes (`RangeHalved`). While a range is asked of one server no other one has a key of it (`Sole`, from the routes). Once it is answered, what the client has read, its replies and the
    answers the manager still has are, one after the other, the records of `InRange` of all that is stored, and only the last says END. So what the client takes for the last record is the last one. Every action of the manager and of the servers either moves the command one stage on or leaves all of it alone (`Bypasses`). Bounds the wrong way round give no record (`ReversedEmpty`). A range over two servers never
    ends: one of the two has not its least key and goes, the client takes the records of the other and waits for as many END answers as there were parts, then gives up.
  A client may give up beside a command under way only when the manager has been aborted or is in the rollback that never ends (`Halted`), and then nothing is forwarded to it any more.
  The proof showed that `RangeExact` needs the condition that no schema was disposed around a collection, which a run with one collection cannot show (section 3): without it
  `FullInv` does not hold, because the manager keeps the separators of a collection that no server has.
* `CollectionArenaProofs`, about the allocator classes (a collection in a schema keeps none, see `CollectionArena`): every property of `CollectionArena` (`TypeOK`, `Linked`, `NoSlivers`, `Tiled`, `Coalesced`, `StaleRefused`, `Halved`, `FreeSpaceExact` and
  `ImplementsArena`, first for each of the three allocators), for arenas and requests of any size. The invariants of the two lists (`TagsInv`, `ListInv`) do not
  speak of lists but of the set of blocks: they do not overlap, the link of each leads to the nearest one above it, and, for the
  boundary tags, its other link to the nearest below, with no gap too small for a tag; for the sorted list, each block ends where another
  begins, no free block where a free one does, and the allocator's address is in the blocks handed out only. What the allocators'
  loops make of such a set (`Blocks`, `FreeList`, recursive functions) is shown once: a loop over a `Chain` meets its members in order and
  passes none over (`LoopWalks`), and goes on long enough because an arena has no room for more blocks than words. The search ends in
  every fit mode with a place that is large enough (`ChoiceFits`), and from there `allocate` and `deallocate` are a change of the set: `PutIn`
  and `Removed` between neighbours for the tags, `Takes` and `Gives` for the sorted list, with and without a rest and with each of
  the four ways to merge. `FreeSpaceExact`, and with it the type of `avail`, follow from the places handed out alone: a place that is
  granted overlaps no other, so it takes exactly its size from the words that none has (`GrantSpares`), and those words are the free blocks' (`SpareIsFree`).
  The buddies need a few facts about `Words`, the sizes doubled up to the arena's: it has values (`WordsExist`), each power's is at least twice that of any smaller one (`WordsLess`),
  and a block at a multiple of its size is at an even multiple of every smaller one, so that flipping the bit of a smaller size adds it (`BuddyAbove`). Hence
  halving a block down to a power cuts it into parts that lie side by side and fill it (`PartsFill`, `SplitsTile`), none of them where a block was before (`UpperInside`),
  so that nothing is linked twice (`SplitsLink`). `BuddyInv` is that tiling, and that what is linked is not occupied and what is handed out is; giving back changes neither the blocks nor the list.

Only model-checked: liveness (`EveryRequestReturns`, `ManagerReturns`, `AlwaysReturns`, `ShutdownEnds`), which is beyond the prover, and everything in `BTree`,
whose operators are recursive over the tree: what they do to every tree takes an induction over trees, which the prover cannot do.
`RangesAreExact`, like `OneClientNeverCrosses`, is about one client: with two, the answers of their ranges come through the manager in any order, and no run claims
that ranges stay whole then.

## 5. Not modelled, and the plan

Not modelled at all: message payloads, paths, logging text, parsing of commands, user names and passwords; queue
capacity (the models' mailboxes are unbounded; who is let in first at a full queue is the system's choice). Keys are of 7-bit characters: a byte above 127 compares above
the initial separator. Sizes in the allocators do not wrap around. The key and value types of `BTree` are trivial ones; for others
`node_merge` handles raw memory as objects. `b_tree::update` changes no key and is left out.

* The red-black tree allocator. Freeing a block of the size of a free one overwrites the right child of the tree's node
  (allocator_red_black_tree.cpp:313), deleting a root with two children can lose the whole tree (:453, :497), and an empty tree does not get its
  flags set (:288). From then on the allocator reads sizes and links inside of blocks its callers own: what it does is up to them, and
  a model would say nothing of the code.
* File mode: `is_filesystem` is false in the manager (manager_server.cpp:133) and nothing sets it, so SET_FILE_SYSTEM_CACHE_MODE and
  END_SETUP are never sent. `collect_garbage` passes the path of a file where `consolidate` expects a directory (db_storage.cpp:843) and
  `load_collection` writes through a key that was never created (:1988).
* The global heap allocator (operator new), the loggers and the logging server (output), the legacy `database.h` (used by no program).
* The repository also carries build trees with third-party code (json, googletest); none of it is modelled.

Plan for what follows, in this order:

1. `Cluster` with several collections checked by TLC too (the proofs have any number), and with three servers on the loop of `Redistribution`.
2. `Collection`: the file mode, should the manager come to ask for it.
