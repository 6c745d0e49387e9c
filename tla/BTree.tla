------------------------------- MODULE BTree -------------------------------
(***************************************************************************)
(* b_tree and the node operations of search_tree it is built from.  Every  *)
(* operation holds the tree's mutex, so each is one step; a step of insert *)
(* may end in the middle, when create_node throws bad_alloc.               *)
(***************************************************************************)
EXTENDS Integers, FiniteSets, SequencesExt

CONSTANTS
  T,         \* the tree's parameter t
  MaxKey,    \* keys are 1 .. MaxKey
  Failures   \* the create_node calls of one insert that may throw

ASSUME TreeAssumption ==
  T \in Nat /\ T >= 2 /\ MaxKey \in Nat \ {0} /\ Failures \subseteq Nat

Keys == 1 .. MaxKey
Unlimited == MaxKey   \* more create_node calls than one insert makes
MinKeys == T - 1
MaxKeys == 2 * T - 1

(* A common_node: its keys, and one subtree more.                          *)
Node(keys, subs) == [keys |-> keys, subs |-> subs]
Nil == Node(<<>>, <<>>)
IsLeaf(nd) == nd.subs[1] = Nil

(* What is left when node_merge has run past the arrays of a full parent   *)
(* (it swaps one place beyond the last key, search_tree.h 492-496): the    *)
(* behaviour is undefined from there on, and the model stops.              *)
Spoiled == Node(<<0>>, <<>>)

VARIABLE root

-----------------------------------------------------------------------------
(* node_find_path: binary search in a node between two inclusive bounds;   *)
(* the index of the key, or -(the subtree that may hold it) - 1.           *)
RECURSIVE NodeFindPath(_, _, _, _)
NodeFindPath(nd, key, left, right) ==
  LET index == (left + right) \div 2
      found == nd.keys[index + 1]
  IN  CASE key = found   -> index
        [] key # found /\ left = right -> -(index + (IF key < found THEN 0 ELSE 1) + 1)
        [] key < found /\ left # right -> NodeFindPath(nd, key, left, index)
        [] key > found /\ left # right -> NodeFindPath(nd, key, index + 1, right)

Find(nd, key) == NodeFindPath(nd, key, 0, Len(nd.keys) - 1)

NodeInsert(nd, kvp, i) ==
  Node(InsertAt(nd.keys, i + 1, kvp.key), InsertAt(nd.subs, i + 2, kvp.right))

(* node_split of a full node: left keeps T keys, the new node T - 1; what  *)
(* goes up is the middle one, or kvp itself when it falls in between.      *)
NodeSplit(nd, kvp, i) ==
  LET k == nd.keys
      s == nd.subs
  IN  CASE i < T ->
             [left  |-> Node(InsertAt(SubSeq(k, 1, T - 1), i + 1, kvp.key),
                             InsertAt(SubSeq(s, 1, T), i + 2, kvp.right)),
              key   |-> k[T],
              right |-> Node(SubSeq(k, T + 1, 2 * T - 1), SubSeq(s, T + 1, 2 * T))]
        [] i = T ->
             [left  |-> Node(SubSeq(k, 1, T), SubSeq(s, 1, T + 1)),
              key   |-> kvp.key,
              right |-> Node(SubSeq(k, T + 1, 2 * T - 1),
                             <<kvp.right>> \o SubSeq(s, T + 2, 2 * T))]
        [] i > T ->
             [left  |-> Node(SubSeq(k, 1, T), SubSeq(s, 1, T + 1)),
              key   |-> k[T + 1],
              right |-> Node(InsertAt(SubSeq(k, T + 2, 2 * T - 1), i - T, kvp.key),
                             InsertAt(SubSeq(s, T + 2, 2 * T), i - T + 1, kvp.right))]

HasRoomForOneMore(nd) == Len(nd.keys) <= MaxKeys   \* a mutant
HasRoom(nd) == Len(nd.keys) < MaxKeys

(* The loop of insert_inner from the leaf upwards.  up is the pair still   *)
(* to be inserted above, if any; allocs is how many create_node calls will *)
(* succeed, -1 after one has thrown.                                       *)
RECURSIVE InsertBelow(_, _, _)
InsertBelow(nd, key, allocs) ==
  LET i     == -Find(nd, key) - 1
      below == IF IsLeaf(nd)
               THEN [node |-> Nil, allocs |-> allocs,
                     up |-> <<[key |-> key, right |-> Nil]>>]
               ELSE InsertBelow(nd.subs[i + 1], key, allocs)
      here  == [nd EXCEPT !.subs[i + 1] = below.node]
      done(node, left) == [node |-> node, allocs |-> left, up |-> <<>>]
  IN  IF below.up = <<>> THEN done(here, below.allocs)
      ELSE IF HasRoom(nd)
           THEN done(NodeInsert(here, below.up[1], i), below.allocs)
      ELSE IF below.allocs = 0 THEN done(here, -1)
      ELSE LET split == NodeSplit(here, below.up[1], i)
           IN  [node |-> split.left, allocs |-> below.allocs - 1,
                up |-> <<[key |-> split.key, right |-> split.right]>>]

(* insert_inner of a key that is not in the tree: [root, allocs].          *)
Inserted(key, allocs) ==
  IF root = Nil
  THEN IF allocs = 0 THEN [root |-> Nil, allocs |-> -1]
       ELSE [root |-> Node(<<key>>, <<Nil, Nil>>), allocs |-> allocs - 1]
  ELSE LET r == InsertBelow(root, key, allocs)
       IN  IF r.up = <<>> THEN [root |-> r.node, allocs |-> r.allocs]
           ELSE IF r.allocs = 0 THEN [root |-> r.node, allocs |-> -1]
           ELSE [root |-> Node(<<r.up[1].key>>, <<r.node, r.up[1].right>>),
                 allocs |-> r.allocs - 1]

-----------------------------------------------------------------------------
NodeMerge(p, i) ==
  LET l == p.subs[i + 1]
      r == p.subs[i + 2]
  IN  IF Len(p.keys) = MaxKeys THEN Spoiled
      ELSE Node(RemoveAt(p.keys, i + 1),
                ReplaceAt(RemoveAt(p.subs, i + 2), i + 1,
                          Node(l.keys \o <<p.keys[i + 1]>> \o r.keys, l.subs \o r.subs)))

(* A mutant: the keys of the parent and the left brother are not swapped.  *)
TakeFromLeftNoSwap(p, i) ==
  LET l == p.subs[i]
      c == p.subs[i + 1]
  IN  [p EXCEPT !.subs[i] = Node(Front(l.keys), Front(l.subs)),
                !.subs[i + 1] = Node(<<p.keys[i]>> \o c.keys, <<Last(l.subs)>> \o c.subs)]

TakeFromLeft(p, i) ==
  LET l == p.subs[i]
      c == p.subs[i + 1]
  IN  [p EXCEPT !.keys[i] = Last(l.keys),
                !.subs[i] = Node(Front(l.keys), Front(l.subs)),
                !.subs[i + 1] = Node(<<p.keys[i]>> \o c.keys, <<Last(l.subs)>> \o c.subs)]

TakeFromRight(p, i) ==
  LET c == p.subs[i + 1]
      r == p.subs[i + 2]
  IN  [p EXCEPT !.keys[i + 1] = Head(r.keys),
                !.subs[i + 1] = Node(Append(c.keys, p.keys[i + 1]), Append(c.subs, Head(r.subs))),
                !.subs[i + 2] = Node(Tail(r.keys), Tail(r.subs))]

(* can_take_from_left and _right.  A mutant: the brother may be minimal.   *)
SpareAtMinimum(p, j) == j \in 0 .. Len(p.keys) /\ Len(p.subs[j + 1].keys) >= MinKeys
Spare(p, j) == j \in 0 .. Len(p.keys) /\ Len(p.subs[j + 1].keys) > MinKeys

(* The loop of dispose at one parent, whose subtree i has lost a key.      *)
Rebalanced(p, i) ==
  CASE p.subs[i + 1] = Spoiled -> Spoiled
    [] OTHER ->
       IF Len(p.subs[i + 1].keys) >= MinKeys THEN p
       ELSE IF Spare(p, i - 1) THEN TakeFromLeft(p, i)
       ELSE IF Spare(p, i + 1) THEN TakeFromRight(p, i)
       ELSE NodeMerge(p, IF i # 0 THEN i - 1 ELSE i)

(* A key of an inner node is first swapped with the greatest key of its    *)
(* left subtree, which is then removed from its leaf.                      *)
RECURSIVE WithoutGreatest(_)
WithoutGreatest(nd) ==
  IF IsLeaf(nd)
  THEN [node |-> Node(Front(nd.keys), Front(nd.subs)), key |-> Last(nd.keys)]
  ELSE LET below == WithoutGreatest(Last(nd.subs))
           n     == Len(nd.keys)
       IN  [node |-> Rebalanced([nd EXCEPT !.subs[n + 1] = below.node], n),
            key  |-> below.key]

RECURSIVE DisposeBelow(_, _)
DisposeBelow(nd, key) ==
  LET index == Find(nd, key)
      i     == IF index >= 0 THEN index ELSE -index - 1
  IN  CASE index >= 0 /\ IsLeaf(nd) ->
             Node(RemoveAt(nd.keys, i + 1), RemoveAt(nd.subs, i + 1))
        [] index >= 0 /\ ~IsLeaf(nd) ->
             LET below == WithoutGreatest(nd.subs[i + 1])
             IN  Rebalanced([nd EXCEPT !.keys[i + 1] = below.key,
                                       !.subs[i + 1] = below.node], i)
        [] index < 0 ->
             Rebalanced([nd EXCEPT !.subs[i + 1] = DisposeBelow(nd.subs[i + 1], key)], i)

Disposed(key) ==
  LET r == DisposeBelow(root, key)
  IN  IF r.keys = <<>> THEN r.subs[1] ELSE r

-----------------------------------------------------------------------------
(* find_path: the way down to the key, or to the leaf it would be in.      *)
RECURSIVE Holds(_, _)
Holds(nd, key) ==
  IF nd = Nil THEN FALSE
  ELSE LET index == Find(nd, key)
       IN  IF index >= 0 THEN TRUE ELSE Holds(nd.subs[-index], key)

(* obtain_between.  An iterator is the stack of the nodes above it, the    *)
(* deepest last, each with the position of a key; PathTo is the stack that *)
(* obtain_between begins with.                                             *)
At(nd, i) == [node |-> nd, pos |-> i]

RECURSIVE PathTo(_, _)
PathTo(nd, key) ==
  LET index == Find(nd, key)
      below == nd.subs[-index]
  IN  IF index >= 0 THEN <<At(nd, index)>>
      ELSE <<At(nd, -index - 2)>> \o (IF below = Nil THEN <<>> ELSE PathTo(below, key))

Start(key) ==
  LET path == PathTo(root, key)
  IN  IF Last(path).pos = -1 THEN [path EXCEPT ![Len(path)].pos = 0] ELSE path

RECURSIVE Leftmost(_)
LeftmostAtFirst(nd) ==   \* a mutant: the inner nodes' first keys count as seen
  IF IsLeaf(nd) THEN <<At(nd, 0)>> ELSE <<At(nd, 0)>> \o Leftmost(nd.subs[1])

Leftmost(nd) ==
  IF IsLeaf(nd) THEN <<At(nd, 0)>> ELSE <<At(nd, -1)>> \o Leftmost(nd.subs[1])

RECURSIVE Climb(_)
Climb(path) ==
  IF path = <<>> THEN <<>>
  ELSE IF Last(path).pos + 1 = Len(Last(path).node.keys) THEN Climb(Front(path))
  ELSE [path EXCEPT ![Len(path)].pos = @ + 1]

(* operator++ of infix_const_iterator.                                     *)
Advance(path) ==
  IF IsLeaf(Last(path).node) THEN Climb(path)
  ELSE path \o Leftmost(Last(path).node.subs[Last(path).pos + 2])

KeyAt(path) == Last(path).node.keys[Last(path).pos + 1]

RECURSIVE Collect(_, _, _)
Collect(path, upper, incl) ==
  IF path = <<>> \/ KeyAt(path) > upper \/ (KeyAt(path) = upper /\ ~incl) THEN <<>>
  ELSE <<KeyAt(path)>> \o Collect(Advance(path), upper, incl)

ObtainBetween(lower, upper, lowerIncl, upperIncl) ==
  LET path == Start(lower)
      skip == KeyAt(path) < lower \/ (KeyAt(path) = lower /\ ~lowerIncl)
  IN  Collect(IF skip THEN Advance(path) ELSE path, upper, upperIncl)

-----------------------------------------------------------------------------
(* The operations that throw before they change anything (a key that       *)
(* exists, or does not) are stuttering steps.                              *)
Insert(key) ==
  /\ ~Holds(root, key)
  /\ root' = Inserted(key, Unlimited).root

InsertThrows(key) ==
  /\ ~Holds(root, key)
  /\ \E n \in Failures : LET r == Inserted(key, n)
                          IN  r.allocs = -1 /\ root' = r.root

Dispose(key) ==
  /\ Holds(root, key)
  /\ root' = Disposed(key)

Init == root = Nil

Next ==
  /\ root # Spoiled
  /\ \E key \in Keys : Insert(key) \/ InsertThrows(key) \/ Dispose(key)

Spec == Init /\ [][Next]_root

-----------------------------------------------------------------------------
RECURSIVE KeysOf(_), DepthsOf(_), InnerNodes(_)
KeysOf(nd) ==
  IF nd \in {Nil, Spoiled} THEN {} ELSE ToSet(nd.keys) \cup UNION {KeysOf(s) : s \in ToSet(nd.subs)}
DepthsOf(nd) ==
  IF nd = Nil THEN {0} ELSE {d + 1 : d \in UNION {DepthsOf(s) : s \in ToSet(nd.subs)}}
InnerNodes(nd) ==
  IF nd = Nil THEN {} ELSE {nd} \cup UNION {InnerNodes(s) : s \in ToSet(nd.subs)}

Usable == root # Spoiled

(* Every node has one subtree more than it has keys, and no more keys than *)
(* its arrays have room for.                                               *)
TypeOK ==
  Usable => \A nd \in InnerNodes(root) :
              /\ nd.keys \in Seq(Keys)
              /\ Len(nd.keys) \in 1 .. MaxKeys
              /\ Len(nd.subs) = Len(nd.keys) + 1

(* The tree is a B-tree: the leaves are equally deep, every node but the   *)
(* root has at least t - 1 keys, and in every node the keys of a subtree   *)
(* lie strictly between the keys on its two sides.  insert and dispose     *)
(* (b_tree.h 821-888, 1050-1196) keep it so, and an insert that ran out of *)
(* memory half way up the path does too.                                   *)
WellFormed ==
  Usable =>
    /\ Cardinality(DepthsOf(root)) = 1
    /\ \A nd \in InnerNodes(root) \ {root} : Len(nd.keys) >= MinKeys
    /\ \A nd \in InnerNodes(root) : \A i \in 1 .. Len(nd.keys) :
         /\ \A k \in KeysOf(nd.subs[i]) : k < nd.keys[i]
         /\ \A k \in KeysOf(nd.subs[i + 1]) : k > nd.keys[i]

(* find_path reaches a key exactly when the tree stores it, and            *)
(* obtain_between gives the stored keys of the range, in order, whatever   *)
(* the bounds and however they are included.  (On an empty tree            *)
(* obtain_between takes the top of an empty stack, b_tree.h 1232.)         *)
ReadsExact ==
  Usable =>
    /\ \A k \in Keys : Holds(root, k) <=> k \in KeysOf(root)
    /\ root # Nil =>
         \A lo, hi \in Keys : \A li, ui \in BOOLEAN :
           LET range == ObtainBetween(lo, hi, li, ui)
           IN  /\ ToSet(range) = {k \in KeysOf(root) : /\ lo < k \/ (li /\ k = lo)
                                                       /\ k < hi \/ (ui /\ k = hi)}
               /\ \A i \in 2 .. Len(range) : range[i - 1] < range[i]

(* insert adds its key and nothing else, dispose removes its key and       *)
(* nothing else, whichever splits, borrowings and merges they go through;  *)
(* an insert that throws bad_alloc leaves no key that is neither old nor   *)
(* its own (it may lose old ones, and its own may be in).                  *)
ChangesExact ==
  [][root' # Spoiled => \A key \in Keys :
       /\ Insert(key) => KeysOf(root') = KeysOf(root) \cup {key}
       /\ Dispose(key) => KeysOf(root') = KeysOf(root) \ {key}
       /\ InsertThrows(key) => KeysOf(root') \subseteq KeysOf(root) \cup {key}]_root

(* What search_tree.h 427 means by creating the new node before the        *)
(* structure changes: an insert that fails leaves the tree as it was.      *)
(* node_split keeps to that for one node, insert_inner does not: when a    *)
(* lower node has been split already, the failure of the next create_node  *)
(* (b_tree.h 868, 875) loses the key that went up and the right half.      *)
FailedInsertKeepsTree ==
  [][\A key \in Keys : InsertThrows(key) => KeysOf(root') = KeysOf(root)]_root
=============================================================================
