------------------------ MODULE CollectionArenaProofs -----------------------
(***************************************************************************)
(* Theorems about the allocators of a collection, for an arena of any size *)
(* and requests of any size: the lists of the blocks are intact, those of  *)
(* the boundary tags and of the sorted list in the order of the addresses  *)
(* with no memory lost between the blocks, the buddies tile their arena,   *)
(* and the blocks that are handed out do not overlap.                      *)
(***************************************************************************)
EXTENDS CollectionArena, Sequences, FiniteSets, FiniteSetTheorems,
        WellFoundedInduction, TLAPS

Null == BT!Null
Meta == BT!Meta
-----------------------------------------------------------------------------
(* Every set of natural numbers has a least member.                        *)
LEMMA LeastExists ==
  ASSUME NEW S \in SUBSET Nat, S # {}
  PROVE  \E k \in S : \A l \in S : k <= l
<1> DEFINE R == OpToRel(<, Nat)
<1>1. IsWellFoundedOn(R, Nat)
  BY NatLessThanWellFounded
<1>2. \A x, y \in Nat : <<y, x>> \in R <=> y < x
  BY DEF OpToRel
<1> HIDE DEF R
<1>3. PICK k \in S : \A l \in S : ~(<<l, k>> \in R)
  BY <1>1, WFMin
<1>4. ASSUME NEW l \in S  PROVE k <= l
  <2>1. k \in Nat /\ l \in Nat
    OBVIOUS
  <2>2. ~(l < k)
    BY <1>2, <1>3, <2>1
  <2> QED  BY <2>1, <2>2
<1> QED  BY <1>4

(* A loop can be gone through any number of times.                         *)
Goes(f, n, first, step) ==
  \A m \in 0 .. n : f[m] = IF m = 0 THEN first ELSE step[f[m - 1]]

(* A value to begin with and a step give the values after any number of    *)
(* rounds.                                                                 *)
LEMMA LoopGoes ==
  ASSUME NEW X, NEW first \in X, NEW step \in [X -> X], NEW n \in Nat
  PROVE  \E f \in [0 .. n -> X] : Goes(f, n, first, step)
<1> DEFINE Bad == {k \in Nat : ~ \E f \in [0 .. k -> X] : Goes(f, k, first, step)}
<1> SUFFICES ASSUME Bad # {}  PROVE FALSE
  OBVIOUS
<1>1. Bad \subseteq Nat
  OBVIOUS
<1> HIDE DEF Bad
<1>2. PICK b \in Bad : \A k \in Bad : b <= k
  BY <1>1, LeastExists
<1>3. b \in Nat /\ ~ \E f \in [0 .. b -> X] : Goes(f, b, first, step)
  BY DEF Bad
<1>4. CASE b = 0
  <2> DEFINE f == [m \in 0 .. 0 |-> first]
  <2>1. f \in [0 .. 0 -> X] /\ Goes(f, 0, first, step)
    BY DEF Goes
  <2> HIDE DEF f
  <2> QED  BY <1>3, <1>4, <2>1
<1>5. CASE b # 0
  <2>1. b - 1 \in Nat /\ ~(b <= b - 1)
    BY <1>3, <1>5
  <2>2. PICK g \in [0 .. b - 1 -> X] : Goes(g, b - 1, first, step)
    BY <1>2, <2>1 DEF Bad
  <2> DEFINE f == [m \in 0 .. b |-> IF m = b THEN step[g[b - 1]] ELSE g[m]]
  <2>3. f \in [0 .. b -> X]
    BY <1>3, <1>5
  <2>4. ASSUME NEW m \in 0 .. b
        PROVE  f[m] = IF m = 0 THEN first ELSE step[f[m - 1]]
    <3>1. CASE m = b
      <4>1. f[m] = step[g[b - 1]] /\ f[b - 1] = g[b - 1]
        BY <1>3, <1>5, <3>1
      <4> HIDE DEF f
      <4> QED  BY <1>5, <3>1, <4>1
    <3>2. CASE m # b
      <4>1. m \in 0 .. b - 1 /\ f[m] = g[m] /\ (m # 0 => f[m - 1] = g[m - 1])
        BY <1>3, <3>2
      <4> HIDE DEF f
      <4> QED  BY <2>2, <4>1 DEF Goes
    <3> QED  BY <3>1, <3>2
  <2> HIDE DEF f
  <2>5. Goes(f, b, first, step)
    BY <2>4 DEF Goes
  <2> QED  BY <1>3, <2>3, <2>5
<1> QED  BY <1>4, <1>5

(* A list of the members of S in their order: first is the least of them,  *)
(* and link leads from each to the one above it, or to Null.               *)
Chain(S, first, link) ==
  /\ link \in [S -> S \cup {Null}]
  /\ IF first = Null THEN S = {} ELSE first \in S /\ \A x \in S : first <= x
  /\ \A a \in S : IF link[a] = Null THEN \A x \in S : x <= a
                  ELSE a < link[a] /\ (\A x \in S : x <= a \/ link[a] <= x)

(* What the loops over a list do: begin with the first member, and go on   *)
(* from the last one reached to the one after it.                          *)
Begun(first) == IF first = Null THEN <<>> ELSE <<first>>
Ended(l, link) == l = <<>> \/ link[l[Len(l)]] = Null
Longer(l, link) == IF Ended(l, link) THEN l ELSE Append(l, link[l[Len(l)]])

(* They meet the members in order and pass none over.                      *)
Walk(l, S, first, link) ==
  /\ l \in Seq(S)
  /\ l = <<>> => first = Null
  /\ l # <<>> => /\ l[1] = first
                 /\ \A x \in S : x <= l[Len(l)] => \E i \in DOMAIN l : l[i] = x
  /\ \A i \in DOMAIN l : l[i] >= i - 1
  /\ \A i, j \in DOMAIN l : i < j => l[i] < l[j]
  /\ \A i \in DOMAIN l : i # Len(l) => link[l[i]] = l[i + 1]

(* Before the first round the loop has walked as far as the first member.  *)
LEMMA BegunWalks ==
  ASSUME NEW S \in SUBSET Nat, NEW first, NEW link, Chain(S, first, link)
  PROVE  Walk(Begun(first), S, first, link)
         /\ (Ended(Begun(first), link) \/ Len(Begun(first)) = 1)
<1> USE DEF Null, BT!Null
<1>1. CASE first = Null
  <2> DEFINE l == <<>>
  <2>1. Begun(first) = l /\ l \in Seq(S) /\ DOMAIN l = {} /\ l = <<>>
    BY <1>1 DEF Begun
  <2> HIDE DEF l
  <2>2. Walk(l, S, first, link)
    BY <1>1, <2>1 DEF Walk
  <2>3. Ended(l, link)
    BY <2>1 DEF Ended
  <2> QED  BY <2>1, <2>2, <2>3
<1>2. CASE first # Null
  <2>1. first \in S /\ first \in Nat
    BY <1>2 DEF Chain
  <2>2. \A x \in S : x <= first => x = first
    BY <1>2, <2>1 DEF Chain
  <2> DEFINE l == <<first>>
  <2>3. Begun(first) = l /\ l \in Seq(S) /\ Len(l) = 1 /\ DOMAIN l = {1} /\ l[1] = first
      /\ l # <<>>
    BY <1>2, <2>1 DEF Begun
  <2> HIDE DEF l
  <2>4. \A i \in DOMAIN l : i = 1 /\ l[i] >= i - 1
    BY <2>1, <2>3
  <2>5. \A x \in S : x <= l[Len(l)] => \E i \in DOMAIN l : l[i] = x
    BY <2>2, <2>3
  <2>6. \A i, j \in DOMAIN l : ~(i < j)
    BY <2>4
  <2>7. Walk(l, S, first, link)
    BY <2>3, <2>4, <2>5, <2>6 DEF Walk
  <2> QED  BY <2>3, <2>7
<1> QED  BY <1>1, <1>2

(* Every round takes a walk that has not ended one member further.         *)
LEMMA LongerWalks ==
  ASSUME NEW S \in SUBSET Nat, NEW first, NEW link, Chain(S, first, link),
         NEW l, Walk(l, S, first, link), ~Ended(l, link)
  PROVE  Walk(Longer(l, link), S, first, link) /\ Len(Longer(l, link)) = Len(l) + 1
<1> USE DEF Null, BT!Null
<1> DEFINE last == l[Len(l)]
           next == link[last]
           k == Longer(l, link)
<1>1. l \in Seq(S) /\ l # <<>> /\ Len(l) \in Nat \ {0} /\ DOMAIN l = 1 .. Len(l)
      /\ last \in S /\ next # Null
  BY DEF Walk, Ended
<1>2. next \in S /\ next \in Nat /\ last \in Nat /\ last < next
      /\ \A x \in S : x <= last \/ next <= x
  BY <1>1 DEF Chain
<1>3. /\ k \in Seq(S) /\ Len(k) = Len(l) + 1 /\ k[Len(l) + 1] = next
      /\ DOMAIN k = 1 .. Len(l) + 1
      /\ \A i \in DOMAIN l : k[i] = l[i]
  BY <1>1, <1>2 DEF Longer
<1> HIDE DEF k
<1>4. \A x \in S : x \in Nat
  OBVIOUS
<1>5. \A i \in DOMAIN l : l[i] \in S /\ l[i] \in Nat
  <2>1. \A i \in DOMAIN l : l[i] \in S
    BY <1>1
  <2> QED  BY <1>4, <2>1
<1>6. k # <<>> /\ k[1] = first
  BY <1>1, <1>3 DEF Walk
<1>7. ASSUME NEW x \in S, x <= k[Len(k)]  PROVE \E i \in DOMAIN k : k[i] = x
  <2>1. CASE x <= last
    <3>1. PICK i \in DOMAIN l : l[i] = x
      BY <1>1, <2>1 DEF Walk
    <3> QED  BY <1>1, <1>3, <3>1
  <2>2. CASE ~(x <= last)
    <3>1. x = next
      BY <1>2, <1>3, <1>4, <1>7, <2>2
    <3> QED  BY <1>1, <1>3, <3>1
  <2> QED  BY <2>1, <2>2
<1>8. ASSUME NEW i \in DOMAIN k  PROVE k[i] >= i - 1
  <2>1. last >= Len(l) - 1
    <3>1. Len(l) \in DOMAIN l
      BY <1>1
    <3> QED  BY <3>1 DEF Walk
  <2>2. CASE i = Len(l) + 1
    BY <1>1, <1>2, <1>3, <2>1, <2>2
  <2>3. CASE i # Len(l) + 1
    <3>1. i \in DOMAIN l
      BY <1>1, <1>3, <2>3
    <3> QED  BY <1>3, <3>1 DEF Walk
  <2> QED  BY <2>2, <2>3
<1>9. ASSUME NEW i \in DOMAIN k, NEW j \in DOMAIN k, i < j  PROVE k[i] < k[j]
  <2>1. i \in DOMAIN l
    BY <1>1, <1>3, <1>9
  <2>2. CASE j \in DOMAIN l
    BY <1>3, <1>9, <2>1, <2>2 DEF Walk
  <2>3. CASE j \notin DOMAIN l
    <3>1. k[j] = next
      BY <1>1, <1>3, <2>3
    <3>2. l[i] <= last
      <4>1. Len(l) \in DOMAIN l /\ (i # Len(l) => i < Len(l))
        BY <1>1, <2>1
      <4>2. i # Len(l) => l[i] < last
        BY <2>1, <4>1 DEF Walk
      <4> QED  BY <1>5, <2>1, <4>1, <4>2
    <3> QED  BY <1>2, <1>3, <1>5, <2>1, <3>1, <3>2
  <2> QED  BY <2>2, <2>3
<1>10. ASSUME NEW i \in DOMAIN k, i # Len(k)  PROVE link[k[i]] = k[i + 1]
  <2>1. i \in DOMAIN l
    BY <1>1, <1>3, <1>10
  <2>2. CASE i = Len(l)
    BY <1>3, <2>1, <2>2
  <2>3. CASE i # Len(l)
    <3>1. i + 1 \in DOMAIN l /\ link[l[i]] = l[i + 1]
      BY <1>1, <2>1, <2>3 DEF Walk
    <3> QED  BY <1>3, <2>1, <3>1
  <2> QED  BY <2>2, <2>3
<1>11. Walk(k, S, first, link)
  BY <1>3, <1>6, <1>7, <1>8, <1>9, <1>10 DEF Walk
<1> QED  BY <1>3, <1>11 DEF k

(* A loop that goes on as often as there are numbers up to n meets all the *)
(* members of S, if there are none above n.                                *)
LEMMA LoopWalks ==
  ASSUME NEW n \in Nat, NEW S \in SUBSET (0 .. n), NEW first, NEW link,
         Chain(S, first, link), NEW f, f[0] = Begun(first),
         \A m \in 1 .. n : f[m - 1] \in Seq(S) => f[m] = Longer(f[m - 1], link)
  PROVE  Walk(f[n], S, first, link) /\ Ended(f[n], link)
<1> USE DEF Null, BT!Null
<1>1. S \in SUBSET Nat
  OBVIOUS
<1> DEFINE Good(m) == Walk(f[m], S, first, link) /\ (Ended(f[m], link) \/ Len(f[m]) = m + 1)
           Bad == {m \in 0 .. n : ~Good(m)}
<1>2. ASSUME Bad # {}  PROVE FALSE
  <2>1. Bad \subseteq Nat
    OBVIOUS
  <2> HIDE DEF Bad
  <2>2. PICK b \in Bad : \A m \in Bad : b <= m
    BY <1>2, <2>1, LeastExists
  <2>3. b \in 0 .. n /\ ~Good(b)
    BY DEF Bad
  <2>4. CASE b = 0
    BY <1>1, <2>3, <2>4, BegunWalks
  <2>5. CASE b # 0
    <3>1. b - 1 \in 0 .. n /\ ~(b <= b - 1) /\ b \in 1 .. n
      BY <2>3, <2>5
    <3>2. Good(b - 1)
      BY <2>2, <3>1 DEF Bad
    <3>3. f[b] = Longer(f[b - 1], link)
      BY <3>1, <3>2 DEF Walk
    <3>4. CASE Ended(f[b - 1], link)
      BY <2>3, <3>2, <3>3, <3>4 DEF Longer
    <3>5. CASE ~Ended(f[b - 1], link)
      BY <1>1, <2>3, <3>1, <3>2, <3>3, <3>5, LongerWalks
    <3> QED  BY <3>4, <3>5
  <2> QED  BY <2>4, <2>5
<1>3. Good(n)
  BY <1>2
<1> DEFINE l == f[n]
<1>4. ASSUME ~Ended(l, link)  PROVE FALSE
  <2>1. Walk(Longer(l, link), S, first, link) /\ Len(Longer(l, link)) = n + 2
    BY <1>1, <1>3, <1>4, LongerWalks
  <2> DEFINE k == Longer(l, link)
  <2>2. Walk(k, S, first, link) /\ Len(k) = n + 2
    BY <2>1
  <2> HIDE DEF k
  <2>3. k \in Seq(S) /\ n + 2 \in DOMAIN k
    BY <2>2 DEF Walk
  <2>4. k[n + 2] \in 0 .. n
    <3>1. k[n + 2] \in S
      BY <2>3
    <3> QED  BY <3>1
  <2>5. k[n + 2] >= (n + 2) - 1
    BY <2>2, <2>3 DEF Walk
  <2> QED  BY <2>4, <2>5
<1> QED  BY <1>3, <1>4

(* The members of a chain, as a walk lists them.                           *)
LEMMA WalkLists ==
  ASSUME NEW S \in SUBSET Nat, NEW first, NEW link, Chain(S, first, link),
         NEW l, Walk(l, S, first, link), Ended(l, link)
  PROVE  /\ l \in Seq(S) /\ Len(l) \in Nat /\ DOMAIN l = 1 .. Len(l)
         /\ \A x \in S : \E i \in DOMAIN l : l[i] = x
         /\ \A i, j \in DOMAIN l : i < j => l[i] < l[j]
         /\ first = IF l = <<>> THEN Null ELSE l[1]
         /\ \A i \in DOMAIN l : link[l[i]] = IF i = Len(l) THEN Null ELSE l[i + 1]
<1> USE DEF Null, BT!Null
<1>1. l \in Seq(S) /\ Len(l) \in Nat /\ DOMAIN l = 1 .. Len(l)
  BY DEF Walk
<1>2. \A x \in S : \E i \in DOMAIN l : l[i] = x
  <2>1. CASE l = <<>>
    BY <2>1 DEF Walk, Chain
  <2>2. CASE l # <<>>
    <3>1. link[l[Len(l)]] = Null /\ l[Len(l)] \in S
      BY <1>1, <2>2 DEF Ended
    <3>2. \A x \in S : x <= l[Len(l)]
      BY <3>1 DEF Chain
    <3> QED  BY <2>2, <3>2 DEF Walk
  <2> QED  BY <2>1, <2>2
<1>3. ASSUME NEW i \in DOMAIN l
      PROVE  link[l[i]] = IF i = Len(l) THEN Null ELSE l[i + 1]
  <2>1. l # <<>>
    BY <1>1
  <2>2. link[l[Len(l)]] = Null
    BY <2>1 DEF Ended
  <2> QED  BY <2>2 DEF Walk
<1> QED  BY <1>1, <1>2, <1>3 DEF Walk

-----------------------------------------------------------------------------
Out == DOMAIN tag     \* the blocks handed out

End(b) == b + tag[b].size

(* What lies between the blocks prev and next, Null at the arena's ends.   *)
Between(prev, next) ==
  (IF next = Null THEN TagsSize ELSE next - Meta) -
  (IF prev = Null THEN 0 ELSE End(prev))

(* prev and next follow one another in the list.                           *)
Neighbours(prev, next) ==
  /\ prev \in Out \cup {Null} /\ next \in Out \cup {Null}
  /\ IF prev = Null THEN head = next ELSE tag[prev].next = next

(* The inductive invariant.  Blocks do not overlap, the links lead to the  *)
(* nearest blocks on either side, and no gap is too small for a tag.       *)
TagsTyped ==
  /\ \A b \in Out : /\ b \in Nat /\ b >= Meta /\ End(b) <= TagsSize
                    /\ tag[b] \in [size : Nat, prev : Int, next : Int]
                    /\ tag[b].prev \in Out \cup {Null}
                    /\ tag[b].next \in Out \cup {Null}
  /\ head \in Out \cup {Null}
  /\ fit \in BT!FitModes

Disjoint == \A b, x \in Out : b < x => End(b) + Meta <= x

Forth ==
  /\ IF head = Null THEN Out = {} ELSE \A x \in Out : head <= x
  /\ \A b \in Out : IF tag[b].next = Null THEN \A x \in Out : x <= b
                    ELSE b < tag[b].next /\ (\A x \in Out : x <= b \/ tag[b].next <= x)

Back ==
  \A b \in Out : IF tag[b].prev = Null THEN \A x \in Out : b <= x
                 ELSE tag[b].prev < b /\ (\A x \in Out : x <= tag[b].prev \/ b <= x)

Usable ==
  \A prev, next \in Out \cup {Null} :
    Neighbours(prev, next) => Between(prev, next) = 0 \/ Between(prev, next) >= Meta

TagsInv == TagsTyped /\ Disjoint /\ Forth /\ Back /\ Usable

-----------------------------------------------------------------------------
(* Neighbours know each other, and nothing lies between them.              *)
LEMMA NeighboursMeet ==
  ASSUME TagsInv, NEW prev, NEW next, Neighbours(prev, next)
  PROVE  /\ next # Null => tag[next].prev = prev
         /\ prev # Null /\ next # Null => prev < next
         /\ \A x \in Out : (prev # Null /\ x <= prev) \/ (next # Null /\ next <= x)
         /\ Between(prev, next) \in Nat
         /\ Between(prev, next) <= TagsSize
<1> USE DEF Null, Meta, BT!Null, BT!Meta
<1>1. \A x \in Out : (prev # Null /\ x <= prev) \/ (next # Null /\ next <= x)
  BY DEF TagsInv, Forth, Neighbours, TagsTyped
<1>2. prev # Null /\ next # Null => prev < next
  BY DEF TagsInv, Forth, Neighbours, TagsTyped
<1>3. ASSUME next # Null  PROVE tag[next].prev = prev
  <2>1. next \in Out /\ next \in Nat /\ (prev # Null => prev \in Out /\ prev \in Nat)
    BY <1>3 DEF Neighbours, TagsInv, TagsTyped
  <2> DEFINE p == tag[next].prev
  <2>2. p = Null \/ (p \in Out /\ p \in Nat)
    <3>1. p \in Out \cup {Null}
      BY <2>1 DEF TagsInv, TagsTyped
    <3>2. \A b \in Out : b \in Nat
      BY DEF TagsInv, TagsTyped
    <3> QED  BY <3>1, <3>2
  <2>3. IF p = Null THEN \A x \in Out : next <= x
        ELSE p < next /\ (\A x \in Out : x <= p \/ next <= x)
    BY <2>1 DEF TagsInv, Back
  <2> HIDE DEF p
  <2>4. ASSUME prev = Null  PROVE p = prev
    BY <1>1, <2>1, <2>2, <2>3, <2>4
  <2>5. ASSUME prev # Null  PROVE p = prev
    <3>1. prev < next /\ prev \in Out
      BY <1>2, <1>3, <2>1, <2>5
    <3>2. p # Null /\ prev <= p
      BY <2>1, <2>2, <2>3, <3>1
    <3>3. p <= prev
      BY <1>1, <2>1, <2>2, <2>3, <3>2
    <3> QED  BY <2>1, <2>2, <3>1, <3>2, <3>3
  <2> QED  BY <2>4, <2>5 DEF p
<1>4. Between(prev, next) \in Int /\ Between(prev, next) >= 0
      /\ Between(prev, next) <= TagsSize
  <2>1. TagsSize \in Nat /\ TagsSize >= Meta
    BY SizesAssumption
  <2>2. prev # Null => prev \in Out /\ prev \in Nat /\ tag[prev].size \in Nat
                       /\ End(prev) <= TagsSize
    BY DEF Neighbours, TagsInv, TagsTyped
  <2>3. next # Null => next \in Out /\ next \in Nat /\ next >= Meta /\ End(next) <= TagsSize
                       /\ tag[next].size \in Nat
    BY DEF Neighbours, TagsInv, TagsTyped
  <2>4. prev # Null /\ next # Null => End(prev) + Meta <= next
    BY <1>2, <2>2, <2>3 DEF TagsInv, Disjoint
  <2> QED  BY <2>1, <2>2, <2>3, <2>4 DEF Between, End
<1> QED  BY <1>1, <1>2, <1>3, <1>4

(* Whoever allocates finds a place between neighbours and leaves there no  *)
(* rest too small for a tag.                                               *)
PutIn(prev, next, b, size) ==
  LET start == IF prev = Null THEN 0 ELSE End(prev)
  IN  /\ Neighbours(prev, next)
      /\ b = start + Meta /\ size \in Nat
      /\ \E rest \in Nat : /\ rest = Between(prev, next) - Meta - size
                           /\ rest = 0 \/ rest >= Meta
      /\ tag' = BT!Inserted(b, size, prev, next)
      /\ head' = IF head \in {Null, next} THEN b ELSE head

(* Where the new block lies, and what its neighbours know of it.           *)
LEMMA PutInPlace ==
  ASSUME TagsInv, NEW prev, NEW next, NEW b, NEW size, PutIn(prev, next, b, size)
  PROVE  /\ b \in Nat /\ b >= Meta /\ b \notin Out
         /\ b + size <= TagsSize
         /\ prev # Null => prev \in Out /\ End(prev) + Meta <= b
         /\ next # Null => next \in Out /\ b + size + Meta <= next
         /\ Out' = Out \cup {b}
         /\ tag'[b] = [size |-> size, prev |-> prev, next |-> next]
         /\ \A x \in Out : /\ tag'[x].size = tag[x].size
                           /\ tag'[x].next = IF x = prev THEN b ELSE tag[x].next
                           /\ tag'[x].prev = IF x = next THEN b ELSE tag[x].prev
         /\ head' = IF prev = Null THEN b ELSE head
<1> USE DEF Null, Meta, BT!Null, BT!Meta
<1>1. TagsSize \in Nat /\ size \in Nat
  BY SizesAssumption DEF PutIn
<1>2. prev # Null => prev \in Out /\ prev \in Nat /\ End(prev) \in Nat /\ prev <= End(prev)
  BY DEF PutIn, Neighbours, TagsInv, TagsTyped, End
<1>3. next # Null => next \in Out /\ next \in Nat
  BY DEF PutIn, Neighbours, TagsInv, TagsTyped
<1>4. b = (IF prev = Null THEN 0 ELSE End(prev)) + Meta
      /\ Between(prev, next) >= Meta + size
      /\ Between(prev, next) = (IF next = Null THEN TagsSize ELSE next - Meta) -
                               (IF prev = Null THEN 0 ELSE End(prev))
  BY <1>1, <1>2, <1>3 DEF PutIn, Between
<1>5. /\ b \in Nat /\ b >= Meta /\ b + size <= TagsSize
      /\ prev # Null => End(prev) + Meta <= b
      /\ next # Null => b + size + Meta <= next
  <2>1. next # Null => next <= TagsSize
    BY <1>1, <1>3 DEF TagsInv, TagsTyped, End
  <2> QED  BY <1>1, <1>2, <1>3, <1>4, <2>1
<1>6. b \notin Out
  <2>1. Neighbours(prev, next)
    BY DEF PutIn
  <2>2. \A x \in Out : (prev # Null /\ x <= prev) \/ (next # Null /\ next <= x)
    BY <2>1, NeighboursMeet
  <2> QED  BY <1>1, <1>2, <1>3, <1>5, <2>2
<1>7. /\ Out' = Out \cup {b}
      /\ tag'[b] = [size |-> size, prev |-> prev, next |-> next]
  BY DEF PutIn, Out, BT!Inserted
<1>8. prev # Null => prev # next
  <2>1. Neighbours(prev, next)
    BY DEF PutIn
  <2> QED  BY <1>2, <1>3, <1>5, <1>1
<1>9. ASSUME NEW x \in Out
      PROVE  /\ tag'[x].size = tag[x].size
             /\ tag'[x].next = IF x = prev THEN b ELSE tag[x].next
             /\ tag'[x].prev = IF x = next THEN b ELSE tag[x].prev
  <2>1. x # Null /\ x # b
    BY <1>6 DEF TagsInv, TagsTyped
  <2>2. tag'[x] = IF x = prev THEN [tag[x] EXCEPT !.next = b]
                  ELSE IF x = next THEN [tag[x] EXCEPT !.prev = b]
                  ELSE tag[x]
    BY <2>1 DEF PutIn, Out, BT!Inserted
  <2>3. tag[x] = [size |-> tag[x].size, prev |-> tag[x].prev, next |-> tag[x].next]
    BY DEF TagsInv, TagsTyped
  <2> QED  BY <1>8, <2>1, <2>2, <2>3
<1>10. head' = IF prev = Null THEN b ELSE head
  <2>1. Neighbours(prev, next)
    BY DEF PutIn
  <2> QED  BY <1>2, <1>3, <1>5, <1>1, <2>1 DEF PutIn, Neighbours, TagsInv, Forth
<1> QED  BY <1>2, <1>3, <1>5, <1>6, <1>7, <1>9, <1>10

(* A new block between neighbours keeps the invariant.                     *)
LEMMA PutKeeps ==
  ASSUME TagsInv, NEW prev, NEW next, NEW b, NEW size, PutIn(prev, next, b, size),
         fit' \in BT!FitModes
  PROVE  TagsInv'
<1> USE DEF Null, Meta, BT!Null, BT!Meta
<1>1. /\ b \in Nat /\ b >= Meta /\ b \notin Out
      /\ b + size <= TagsSize
      /\ prev # Null => prev \in Out /\ End(prev) + Meta <= b
      /\ next # Null => next \in Out /\ b + size + Meta <= next
      /\ Out' = Out \cup {b}
      /\ tag'[b] = [size |-> size, prev |-> prev, next |-> next]
      /\ \A x \in Out : /\ tag'[x].size = tag[x].size
                        /\ tag'[x].next = IF x = prev THEN b ELSE tag[x].next
                        /\ tag'[x].prev = IF x = next THEN b ELSE tag[x].prev
      /\ head' = IF prev = Null THEN b ELSE head
  BY PutInPlace
<1>2. /\ Neighbours(prev, next) /\ size \in Nat /\ TagsSize \in Nat
      /\ b = (IF prev = Null THEN 0 ELSE End(prev)) + Meta
      /\ \E rest \in Nat : /\ rest = Between(prev, next) - Meta - size
                           /\ rest = 0 \/ rest >= Meta
  BY SizesAssumption DEF PutIn
<1>3. /\ next # Null => tag[next].prev = prev
      /\ \A x \in Out : (prev # Null /\ x <= prev) \/ (next # Null /\ next <= x)
  BY <1>2, NeighboursMeet
<1>4. \A x \in Out : /\ x \in Nat /\ x >= Meta /\ tag[x].size \in Nat /\ End(x) <= TagsSize
                     /\ End(x) \in Nat /\ x <= End(x) /\ End(x)' = End(x)
                     /\ tag[x].prev \in Out \cup {Null} /\ tag[x].next \in Out \cup {Null}
  BY <1>1 DEF TagsInv, TagsTyped, End
<1>5. End(b)' = b + size
  BY <1>1 DEF End
<1>6. TagsTyped'
  <2>1. ASSUME NEW x \in Out
        PROVE  tag'[x] \in [size : Nat, prev : Int, next : Int]
    <3>1. tag[x] \in [size : Nat, prev : Int, next : Int]
      BY DEF TagsInv, TagsTyped
    <3>2. x \in DOMAIN tag \cup {b}
      BY DEF Out
    <3>3. tag' = BT!Inserted(b, size, prev, next)
      BY DEF PutIn
    <3>4. x # b
      BY <1>1
    <3> QED  BY <1>1, <3>1, <3>2, <3>3, <3>4 DEF BT!Inserted
  <2>2. tag'[b] \in [size : Nat, prev : Int, next : Int]
    BY <1>1, <1>2, <1>4
  <2>3. head' \in Out' \cup {Null}
    BY <1>1 DEF TagsInv, TagsTyped
  <2>4. tag'[b].prev \in Out' \cup {Null} /\ tag'[b].next \in Out' \cup {Null}
    BY <1>1
  <2>5. \A x \in Out : tag'[x].prev \in Out' \cup {Null} /\ tag'[x].next \in Out' \cup {Null}
    BY <1>1, <1>4
  <2> QED  BY <1>1, <1>4, <1>5, <2>1, <2>2, <2>3, <2>4, <2>5 DEF TagsTyped
<1>7. ASSUME NEW x \in Out
      PROVE  (x < b => End(x) + Meta <= b) /\ (b < x => b + size + Meta <= x)
  <2>1. prev # Null /\ x <= prev => End(x) <= End(prev)
    <3>1. prev # Null /\ x < prev => End(x) + Meta <= prev /\ prev <= End(prev)
      BY <1>1, <1>4 DEF TagsInv, Disjoint
    <3> QED  BY <1>1, <1>4, <3>1
  <2>2. prev # Null => prev <= End(prev) /\ End(prev) \in Nat /\ prev \in Nat
    BY <1>1, <1>4
  <2>3. next # Null => next \in Nat
    BY <1>1, <1>4
  <2>4. x \in Nat /\ End(x) \in Nat
    BY <1>4
  <2> QED  BY <1>1, <1>2, <1>3, <2>1, <2>2, <2>3, <2>4
<1>8. Disjoint'
  <2>1. \A x, y \in Out : x < y => End(x)' + Meta <= y
    BY <1>4 DEF TagsInv, Disjoint
  <2>2. ~(b < b)
    BY <1>1
  <2> QED  BY <1>1, <1>5, <1>7, <1>4, <2>1, <2>2 DEF Disjoint
<1>9. Forth'
  BY <1>1, <1>2, <1>3, <1>4 DEF TagsInv, Forth, Neighbours
<1>10. Back'
  BY <1>1, <1>2, <1>3, <1>4 DEF TagsInv, Back, Neighbours
<1>11. ASSUME NEW p \in Out' \cup {Null}, NEW n \in Out' \cup {Null}, Neighbours(p, n)'
       PROVE  Between(p, n)' = 0 \/ Between(p, n)' >= Meta
  <2>1. p \in Out \cup {Null, b} /\ n \in Out \cup {Null, b} /\ b # Null
    BY <1>1
  <2>2. n = IF p = Null THEN head' ELSE tag'[p].next
    BY <1>11 DEF Neighbours
  <2>3. Between(p, n)' = (IF n = Null THEN TagsSize ELSE n - Meta) -
                         (IF p = Null THEN 0 ELSE End(p)')
    BY DEF Between
  <2>4. /\ prev # Null => End(prev) \in Nat /\ End(prev)' = End(prev)
        /\ next # Null => next \in Nat
    BY <1>1, <1>4
  <2>5. CASE p = b
    <3>1. n = next
      BY <1>1, <2>1, <2>2, <2>5
    <3>2. Between(p, n)' = Between(prev, next) - Meta - size
      <4>1. Between(p, n)' = (IF next = Null THEN TagsSize ELSE next - Meta) - (b + size)
        BY <1>5, <2>1, <2>3, <2>5, <3>1
      <4>2. Between(prev, next) = (IF next = Null THEN TagsSize ELSE next - Meta) - (b - Meta)
        BY <1>2, <2>4 DEF Between
      <4> QED  BY <1>1, <1>2, <2>4, <4>1, <4>2
    <3> QED  BY <1>2, <3>2
  <2>6. CASE n = b
    <3>1. p = prev
      BY <1>1, <1>4, <2>1, <2>2, <2>6 DEF TagsInv, TagsTyped
    <3>2. Between(p, n)' = (b - Meta) - (IF prev = Null THEN 0 ELSE End(prev))
      BY <2>1, <2>3, <2>6, <2>4, <3>1
    <3> QED  BY <1>1, <1>2, <2>4, <3>2
  <2>7. CASE p # b /\ n # b
    <3>1. Neighbours(p, n)
      BY <1>1, <2>1, <2>2, <2>7 DEF Neighbours
    <3>2. Between(p, n)' = Between(p, n)
      BY <1>4, <2>1, <2>3, <2>7 DEF Between
    <3> QED  BY <2>1, <2>7, <3>1, <3>2 DEF TagsInv, Usable
  <2> QED  BY <2>5, <2>6, <2>7
<1>12. Usable'
  BY <1>11 DEF Usable
<1> QED  BY <1>6, <1>8, <1>9, <1>10, <1>12 DEF TagsInv

(* Giving a block back keeps the invariant: the gap it leaves is not       *)
(* smaller than the block's own tag.                                       *)
LEMMA RemoveKeeps ==
  ASSUME TagsInv, NEW b \in Out, tag' = BT!Removed(b),
         head' = IF tag[b].prev = Null THEN tag[b].next ELSE head,
         fit' \in BT!FitModes
  PROVE  TagsInv'
<1> USE DEF Null, Meta, BT!Null, BT!Meta
<1> DEFINE prev == tag[b].prev
           next == tag[b].next
<1>1. \A x \in Out : /\ x \in Nat /\ x >= Meta /\ tag[x].size \in Nat /\ End(x) <= TagsSize
                     /\ End(x) \in Nat /\ x <= End(x)
                     /\ tag[x].prev \in Out \cup {Null} /\ tag[x].next \in Out \cup {Null}
  BY DEF TagsInv, TagsTyped, End
<1>2. /\ prev \in Out \cup {Null} /\ next \in Out \cup {Null}
      /\ prev # Null => prev < b /\ prev \in Nat
      /\ next # Null => b < next /\ next \in Nat
      /\ \A x \in Out : x # b => (prev # Null /\ x <= prev) \/ (next # Null /\ next <= x)
  BY <1>1 DEF TagsInv, Forth, Back
<1>3. /\ prev # Null => tag[prev].next = b
      /\ next # Null => tag[next].prev = b
      /\ head = b <=> prev = Null
  BY <1>1, <1>2 DEF TagsInv, TagsTyped, Forth, Back
<1> HIDE DEF prev, next
<1>4. Out' = Out \ {b} /\ prev # b /\ next # b /\ (prev # Null => prev # next)
  BY <1>1, <1>2 DEF Out, BT!Removed
<1>5. \A x \in Out' : /\ tag'[x].size = tag[x].size
                      /\ tag'[x] \in [size : Nat, prev : Int, next : Int]
                      /\ tag'[x].next = IF x = prev THEN next ELSE tag[x].next
                      /\ tag'[x].prev = IF x = next THEN prev ELSE tag[x].prev
                      /\ End(x)' = End(x)
  <2> SUFFICES ASSUME NEW x \in Out'
               PROVE  /\ tag'[x].size = tag[x].size
                      /\ tag'[x] \in [size : Nat, prev : Int, next : Int]
                      /\ tag'[x].next = IF x = prev THEN next ELSE tag[x].next
                      /\ tag'[x].prev = IF x = next THEN prev ELSE tag[x].prev
    BY DEF End
  <2>1. tag[x] \in [size : Nat, prev : Int, next : Int] /\ x # Null /\ x \in Out
    BY <1>1, <1>4 DEF TagsInv, TagsTyped
  <2>2. tag'[x] = IF x = prev THEN [tag[x] EXCEPT !.next = next]
                  ELSE IF x = next THEN [tag[x] EXCEPT !.prev = prev]
                  ELSE tag[x]
    BY <1>4, <2>1 DEF Out, BT!Removed, prev, next
  <2>3. prev \in Int /\ next \in Int
    BY <1>2
  <2> QED  BY <1>4, <2>1, <2>2, <2>3
<1>6. head' = IF prev = Null THEN next ELSE head
  BY DEF prev, next
<1>7. TagsTyped'
  <2>1. \A x \in Out : x # b =>
          tag[x].next \in Out' \cup {Null, b} /\ tag[x].prev \in Out' \cup {Null, b}
    BY <1>1, <1>4
  <2>2. \A x \in Out : x # b => (tag[x].next = b => x = prev) /\ (tag[x].prev = b => x = next)
    <3> SUFFICES ASSUME NEW x \in Out, x # b
                 PROVE  (tag[x].next = b => x = prev) /\ (tag[x].prev = b => x = next)
      OBVIOUS
    <3>1. ASSUME tag[x].next = b  PROVE x = prev
      <4>1. x < b /\ \A y \in Out : y <= x \/ b <= y
        BY <1>1, <3>1 DEF TagsInv, Forth
      <4>2. prev # Null /\ prev \in Out /\ x <= prev /\ prev < b
        BY <1>1, <1>2, <4>1
      <4> QED  BY <1>1, <4>1, <4>2
    <3>2. ASSUME tag[x].prev = b  PROVE x = next
      <4>1. b < x /\ \A y \in Out : y <= b \/ x <= y
        BY <1>1, <3>2 DEF TagsInv, Back
      <4>2. next # Null /\ next \in Out /\ next <= x /\ b < next
        BY <1>1, <1>2, <4>1
      <4> QED  BY <1>1, <4>1, <4>2
    <3> QED  BY <3>1, <3>2
  <2>3. prev \in Out' \cup {Null} /\ next \in Out' \cup {Null}
    BY <1>2, <1>4
  <2>4. head' \in Out' \cup {Null}
    BY <1>3, <1>4, <1>6, <2>3 DEF TagsInv, TagsTyped
  <2> QED  BY <1>1, <1>4, <1>5, <2>1, <2>2, <2>3, <2>4 DEF TagsTyped
<1>8. Disjoint'
  BY <1>4, <1>5 DEF TagsInv, Disjoint
<1>9. Forth'
  BY <1>1, <1>2, <1>3, <1>4, <1>5, <1>6 DEF TagsInv, Forth
<1>10. Back'
  BY <1>1, <1>2, <1>3, <1>4, <1>5, <1>6 DEF TagsInv, Back
<1>11. ASSUME NEW p \in Out' \cup {Null}, NEW n \in Out' \cup {Null}, Neighbours(p, n)'
       PROVE  Between(p, n)' = 0 \/ Between(p, n)' >= Meta
  <2>1. n = IF p = Null THEN head' ELSE tag'[p].next
    BY <1>11 DEF Neighbours
  <2>2. Between(p, n)' = (IF n = Null THEN TagsSize ELSE n - Meta) -
                         (IF p = Null THEN 0 ELSE End(p))
    BY <1>5 DEF Between
  <2>3. CASE p = prev
    <3>1. n = next
      BY <1>4, <1>5, <1>6, <2>1, <2>3
    <3>2. Neighbours(prev, b) /\ Neighbours(b, next) /\ b # Null
      BY <1>1, <1>2, <1>3 DEF Neighbours, next
    <3>3. Between(prev, b) \in Nat /\ Between(b, next) \in Nat
      BY <3>2, NeighboursMeet
    <3>4. Between(p, n)' = Between(prev, b) + Meta + tag[b].size + Between(b, next)
      <4>1. prev # Null => End(prev) \in Nat
        BY <1>1, <1>2
      <4>2. TagsSize \in Nat /\ b \in Nat /\ tag[b].size \in Nat
        BY <1>1, SizesAssumption
      <4> QED  BY <1>2, <2>2, <2>3, <3>1, <3>2, <4>1, <4>2 DEF Between, End
    <3> QED  BY <1>1, <3>3, <3>4
  <2>4. CASE p # prev
    <3>1. Neighbours(p, n) /\ p \in Out \cup {Null} /\ n \in Out \cup {Null}
      BY <1>4, <1>5, <1>6, <2>1, <2>4 DEF Neighbours
    <3>2. Between(p, n)' = Between(p, n)
      BY <2>2 DEF Between
    <3> QED  BY <3>1, <3>2 DEF TagsInv, Usable
  <2> QED  BY <2>3, <2>4
<1>12. Usable'
  BY <1>11 DEF Usable
<1> QED  BY <1>7, <1>8, <1>9, <1>10, <1>12 DEF TagsInv

-----------------------------------------------------------------------------
(* BT!Blocks walks the whole list: an arena has no room for more blocks    *)
(* than it has words.                                                      *)
Nexts == [b \in Out |-> tag[b].next]

(* The list of the blocks of the boundary tags is a whole walk.            *)
LEMMA BlocksWalk ==
  ASSUME TagsInv
  PROVE  /\ Out \in SUBSET Nat /\ Chain(Out, head, Nexts)
         /\ Walk(BT!Blocks, Out, head, Nexts) /\ Ended(BT!Blocks, Nexts)
<1>1. TagsSize \in Nat /\ Out \in SUBSET (0 .. TagsSize) /\ Out \in SUBSET Nat
  <2>1. \A b \in Out : b \in Nat /\ tag[b].size \in Nat /\ b + tag[b].size <= TagsSize
    BY DEF TagsInv, TagsTyped, End
  <2> QED  BY <2>1, SizesAssumption
<1>2. Chain(Out, head, Nexts)
  BY DEF TagsInv, TagsTyped, Forth, Chain, Nexts
<1>3. PICK f : f = [m \in 0 .. TagsSize |->
                      IF m = 0 THEN Begun(head)
                      ELSE IF f[m - 1] = <<>> \/ tag[f[m - 1][Len(f[m - 1])]].next = Null
                      THEN f[m - 1]
                      ELSE Append(f[m - 1], tag[f[m - 1][Len(f[m - 1])]].next)]
               /\ BT!Blocks = f[TagsSize]
  <2> DEFINE F(f) == f = [m \in 0 .. TagsSize |->
                      IF m = 0 THEN Begun(head)
                      ELSE IF f[m - 1] = <<>> \/ tag[f[m - 1][Len(f[m - 1])]].next = Null
                      THEN f[m - 1]
                      ELSE Append(f[m - 1], tag[f[m - 1][Len(f[m - 1])]].next)]
             step == [l \in Seq(Out) |-> IF l = <<>> \/ tag[l[Len(l)]].next = Null THEN l
                                         ELSE Append(l, tag[l[Len(l)]].next)]
  <2>1. Begun(head) \in Seq(Out) /\ step \in [Seq(Out) -> Seq(Out)]
    <3>1. Begun(head) \in Seq(Out)
      BY DEF TagsInv, TagsTyped, Begun
    <3>2. ASSUME NEW l \in Seq(Out), l # <<>>, tag[l[Len(l)]].next # Null
          PROVE  Append(l, tag[l[Len(l)]].next) \in Seq(Out)
      <4>1. l[Len(l)] \in Out
        BY <3>2
      <4>2. tag[l[Len(l)]].next \in Out
        BY <3>2, <4>1 DEF TagsInv, TagsTyped
      <4> QED  BY <4>2
    <3> QED  BY <3>1, <3>2
  <2> HIDE DEF step
  <2>2. PICK f \in [0 .. TagsSize -> Seq(Out)] : Goes(f, TagsSize, Begun(head), step)
    BY <1>1, <2>1, LoopGoes
  <2>3. F(f)
    <3>1. ASSUME NEW m \in 0 .. TagsSize, m # 0
          PROVE  f[m] = IF f[m - 1] = <<>> \/ tag[f[m - 1][Len(f[m - 1])]].next = Null
                        THEN f[m - 1]
                        ELSE Append(f[m - 1], tag[f[m - 1][Len(f[m - 1])]].next)
      <4>1. f[m - 1] \in Seq(Out) /\ f[m] = step[f[m - 1]]
        BY <1>1, <2>2, <3>1 DEF Goes
      <4> QED  BY <4>1 DEF step
    <3>2. f[0] = Begun(head) /\ f = [m \in 0 .. TagsSize |-> f[m]]
      BY <1>1, <2>2 DEF Goes
    <3> QED  BY <3>1, <3>2
  <2>4. BT!Blocks = (CHOOSE g : F(g))[TagsSize]
    BY DEF BT!Blocks, Begun, Null
  <2> HIDE DEF F
  <2>5. F(CHOOSE g : F(g))
    BY <2>3
  <2> QED  BY <2>4, <2>5 DEF F
<1>4. f[0] = Begun(head)
  BY <1>1, <1>3
<1>5. ASSUME NEW m \in 1 .. TagsSize, f[m - 1] \in Seq(Out)
      PROVE  f[m] = Longer(f[m - 1], Nexts)
  <2> DEFINE l == f[m - 1]
  <2>1. f[m] = IF l = <<>> \/ tag[l[Len(l)]].next = Null THEN l
               ELSE Append(l, tag[l[Len(l)]].next)
    <3>1. m \in 0 .. TagsSize /\ m # 0
      BY <1>1
    <3> QED  BY <1>3, <3>1
  <2>2. l # <<>> => Nexts[l[Len(l)]] = tag[l[Len(l)]].next
    BY <1>5 DEF Nexts
  <2> HIDE DEF l
  <2>3. f[m] = Longer(l, Nexts)
    BY <2>1, <2>2 DEF Longer, Ended
  <2> QED  BY <2>3 DEF l
<1> QED  BY <1>1, <1>2, <1>3, <1>4, <1>5, LoopWalks

(* The list holds every block, its links back mirror those forth, and its  *)
(* places are between neighbours.                                          *)
Before(i) == IF i = 1 THEN Null ELSE BT!Blocks[i - 1]
After(i) == IF i > Len(BT!Blocks) THEN Null ELSE BT!Blocks[i]

(* It has every block once, in order, and what is next to each other in it *)
(* are neighbours.                                                         *)
LEMMA BlocksListed ==
  ASSUME TagsInv
  PROVE  /\ BT!Blocks \in Seq(Out)
         /\ \A x \in Out : \E i \in DOMAIN BT!Blocks : BT!Blocks[i] = x
         /\ \A i, j \in DOMAIN BT!Blocks : i < j => BT!Blocks[i] < BT!Blocks[j]
         /\ \A i \in 1 .. Len(BT!Blocks) + 1 : Neighbours(Before(i), After(i))
<1> USE DEF Null, Meta, BT!Null, BT!Meta
<1> DEFINE l == BT!Blocks
<1>1. Walk(l, Out, head, Nexts) /\ Ended(l, Nexts) /\ Chain(Out, head, Nexts)
      /\ Out \in SUBSET Nat
  BY BlocksWalk
<1> HIDE DEF l
<1>2. /\ l \in Seq(Out) /\ Len(l) \in Nat /\ DOMAIN l = 1 .. Len(l)
      /\ \A x \in Out : \E i \in DOMAIN l : l[i] = x
      /\ \A i, j \in DOMAIN l : i < j => l[i] < l[j]
      /\ head = IF l = <<>> THEN Null ELSE l[1]
      /\ \A i \in DOMAIN l : Nexts[l[i]] = IF i = Len(l) THEN Null ELSE l[i + 1]
  BY <1>1, WalkLists
<1>3. \A i \in DOMAIN l : tag[l[i]].next = IF i = Len(l) THEN Null ELSE l[i + 1]
  <2>1. \A i \in DOMAIN l : l[i] \in Out
    BY <1>2
  <2> QED  BY <1>2, <2>1 DEF Nexts
<1>4. ASSUME NEW i \in 1 .. Len(l) + 1
      PROVE  Neighbours(IF i = 1 THEN Null ELSE l[i - 1], IF i > Len(l) THEN Null ELSE l[i])
  <2>1. (IF i = 1 THEN Null ELSE l[i - 1]) \in Out \cup {Null}
        /\ (IF i > Len(l) THEN Null ELSE l[i]) \in Out \cup {Null}
    BY <1>2
  <2>2. CASE i = 1
    BY <1>2, <2>1, <2>2 DEF Neighbours
  <2>3. CASE i # 1
    <3>1. i - 1 \in DOMAIN l /\ l[i - 1] \in Out /\ l[i - 1] # Null
      <4>1. i - 1 \in DOMAIN l
        BY <1>2, <2>3
      <4>2. l[i - 1] \in Out
        BY <1>2, <4>1
      <4>3. \A x \in Out : x # Null
        BY <1>1
      <4> QED  BY <4>1, <4>2, <4>3
    <3>2. tag[l[i - 1]].next = IF i > Len(l) THEN Null ELSE l[i]
      <4>1. (i - 1 = Len(l) <=> i > Len(l)) /\ (i - 1) + 1 = i
        BY <1>2
      <4> QED  BY <1>3, <3>1, <4>1
    <3> QED  BY <2>1, <2>3, <3>1, <3>2 DEF Neighbours
  <2> QED  BY <2>2, <2>3
<1> QED  BY <1>2, <1>4 DEF l, Before, After

(* The gaps that allocate compares are those between neighbours.           *)
LEMMA GapsAreBetween ==
  ASSUME TagsInv, NEW i \in 1 .. Len(BT!Blocks) + 1
  PROVE  /\ Len(BT!Blocks) \in Nat
         /\ DOMAIN BT!Gaps(BT!Blocks) = 1 .. Len(BT!Blocks) + 1
         /\ BT!Gaps(BT!Blocks)[i] = Between(Before(i), After(i))
         /\ BT!GapStart(BT!Blocks, i) = IF Before(i) = Null THEN 0 ELSE End(Before(i))
<1> USE DEF Null, Meta, BT!Null, BT!Meta
<1>1. BT!Blocks \in Seq(Out) /\ Len(BT!Blocks) \in Nat
  BY BlocksListed
<1>2. \A x \in Out : x # Null
  BY DEF TagsInv, TagsTyped
<1>3. /\ i # 1 => BT!Blocks[i - 1] \in Out
      /\ ~(i > Len(BT!Blocks)) => BT!Blocks[i] \in Out
  BY <1>1
<1>4. (Before(i) = Null <=> i = 1) /\ (After(i) = Null <=> i > Len(BT!Blocks))
  BY <1>2, <1>3 DEF Before, After
<1>5. BT!GapStart(BT!Blocks, i) = IF Before(i) = Null THEN 0 ELSE End(Before(i))
  BY <1>4 DEF BT!GapStart, Before, End
<1>6. BT!GapEnd(BT!Blocks, i) = IF After(i) = Null THEN TagsSize ELSE After(i) - Meta
  BY <1>4 DEF BT!GapEnd, After
<1>7. BT!Gaps(BT!Blocks)[i] = BT!GapEnd(BT!Blocks, i) - BT!GapStart(BT!Blocks, i)
  BY <1>1 DEF BT!Gaps
<1>8. DOMAIN BT!Gaps(BT!Blocks) = 1 .. Len(BT!Blocks) + 1
  BY <1>1 DEF BT!Gaps
<1> QED  BY <1>1, <1>5, <1>6, <1>7, <1>8 DEF Between

(* The search of allocate ends, if it finds anything, with a place that is *)
(* large enough, in each of the fit modes.                                 *)
LEMMA ChoiceFits ==
  ASSUME NEW gaps, NEW most \in Nat, NEW need, NEW mode \in BT!FitModes,
         DOMAIN gaps \subseteq Nat,
         \A i \in DOMAIN gaps : gaps[i] \in Nat /\ gaps[i] <= most,
         BT!Fitting(gaps, need) # {}
  PROVE  BT!Choice(gaps, need, mode) \in BT!Fitting(gaps, need)
<1> DEFINE fits == BT!Fitting(gaps, need)
<1>1. fits \subseteq DOMAIN gaps /\ fits \subseteq Nat /\ fits # {}
  BY DEF BT!Fitting
<1> HIDE DEF fits
<1>2. ASSUME NEW S \in SUBSET fits, S # {}  PROVE BT!Min(S) \in S
  <2>1. \E x \in S : \A y \in S : x <= y
    BY <1>1, <1>2, LeastExists
  <2> QED  BY <2>1 DEF BT!Min
<1> DEFINE best == {i \in fits : \A j \in fits : gaps[i] <= gaps[j]}
           worst == {i \in fits : \A j \in fits : gaps[i] >= gaps[j]}
<1>3. best # {}
  <2> DEFINE T == {gaps[i] : i \in fits}
  <2>1. T \in SUBSET Nat /\ T # {}
    BY <1>1
  <2> HIDE DEF T
  <2>2. PICK g \in T : \A h \in T : g <= h
    BY <2>1, LeastExists
  <2>3. PICK i \in fits : g = gaps[i]
    BY DEF T
  <2>4. \A j \in fits : gaps[i] <= gaps[j]
    BY <2>2, <2>3 DEF T
  <2> QED  BY <2>4
<1>4. worst # {}
  <2> DEFINE T == {most - gaps[i] : i \in fits}
  <2>1. T \in SUBSET Nat /\ T # {}
    BY <1>1
  <2> HIDE DEF T
  <2>2. PICK g \in T : \A h \in T : g <= h
    BY <2>1, LeastExists
  <2>3. PICK i \in fits : g = most - gaps[i]
    BY DEF T
  <2>4. \A j \in fits : most - gaps[i] <= most - gaps[j]
    BY <2>2, <2>3 DEF T
  <2>5. \A j \in fits : gaps[i] >= gaps[j]
    BY <1>1, <2>4
  <2> QED  BY <2>5
<1>5. BT!Min(fits) \in fits /\ BT!Min(best) \in fits /\ BT!Min(worst) \in fits
  <2> HIDE DEF best, worst
  <2>1. BT!Min(fits) \in fits
    BY <1>1, <1>2
  <2>2. best \in SUBSET fits /\ worst \in SUBSET fits
    BY DEF best, worst
  <2>3. BT!Min(best) \in best /\ BT!Min(worst) \in worst
    BY <1>2, <1>3, <1>4, <2>2
  <2> QED  BY <2>1, <2>2, <2>3
<1>6. BT!Choice(gaps, need, mode) =
        BT!Min(CASE mode = "first_fit"     -> fits
                 [] mode = "the_best_fit"  -> best
                 [] mode = "the_worst_fit" -> worst)
  BY DEF BT!Choice, fits
<1> HIDE DEF best, worst
<1> QED  BY <1>5, <1>6 DEF BT!FitModes, fits

-----------------------------------------------------------------------------
(* Allocate puts a block between neighbours.                               *)
LEMMA AllocatePuts ==
  ASSUME TagsInv, NEW req \in 0 .. TagsMaxReq, BT!Allocate(req)
  PROVE  \E prev, next, b, size :
           PutIn(prev, next, b, size) /\ fit' = fit /\ avail' = avail - (size + Meta)
<1> USE DEF Null, Meta, BT!Null, BT!Meta
<1> DEFINE blocks == BT!Blocks
           gaps == BT!Gaps(blocks)
           need == req + Meta
           i == BT!Choice(gaps, need, fit)
           prev == Before(i)
           next == After(i)
           b == BT!GapStart(blocks, i) + Meta
           taken == IF BT!TakesWhole(need, gaps[i]) THEN gaps[i] ELSE need
           after == IF prev # Null THEN tag[prev].next ELSE head
<1>1. /\ BT!Fitting(gaps, need) # {} /\ fit' = fit /\ avail' = avail - taken
      /\ tag' = BT!Inserted(b, taken - Meta, IF i = 1 THEN Null ELSE blocks[i - 1],
                  IF (IF i = 1 THEN Null ELSE blocks[i - 1]) # Null
                  THEN tag[IF i = 1 THEN Null ELSE blocks[i - 1]].next ELSE head)
      /\ head' = IF head \in {Null, IF (IF i = 1 THEN Null ELSE blocks[i - 1]) # Null
                     THEN tag[IF i = 1 THEN Null ELSE blocks[i - 1]].next ELSE head}
                 THEN b ELSE head
  BY DEF BT!Allocate
<1>2. tag' = BT!Inserted(b, taken - Meta, prev, after)
      /\ head' = IF head \in {Null, after} THEN b ELSE head
  BY <1>1 DEF Before
<1>3. Len(blocks) \in Nat /\ DOMAIN gaps = 1 .. Len(blocks) + 1
      /\ \A j \in DOMAIN gaps : /\ gaps[j] = Between(Before(j), After(j))
                                /\ Neighbours(Before(j), After(j))
                                /\ gaps[j] \in Nat /\ gaps[j] <= TagsSize
  <2>1. Len(blocks) \in Nat /\ 1 \in 1 .. Len(blocks) + 1
    BY BlocksListed
  <2>2. DOMAIN gaps = 1 .. Len(blocks) + 1
    BY <2>1, GapsAreBetween
  <2>3. ASSUME NEW j \in 1 .. Len(blocks) + 1
        PROVE  /\ gaps[j] = Between(Before(j), After(j))
               /\ Neighbours(Before(j), After(j))
               /\ gaps[j] \in Nat /\ gaps[j] <= TagsSize
    <3>1. gaps[j] = Between(Before(j), After(j)) /\ Neighbours(Before(j), After(j))
      BY GapsAreBetween, BlocksListed
    <3> HIDE DEF gaps
    <3>2. Between(Before(j), After(j)) \in Nat /\ Between(Before(j), After(j)) <= TagsSize
      BY <3>1, NeighboursMeet
    <3> QED  BY <3>1, <3>2
  <2> QED  BY <2>1, <2>2, <2>3
<1>4. i \in BT!Fitting(gaps, need)
  <2> HIDE DEF gaps, need
  <2>1. fit \in BT!FitModes /\ TagsSize \in Nat
    BY SizesAssumption DEF TagsInv, TagsTyped
  <2>2. DOMAIN gaps \subseteq Nat
    BY <1>3
  <2>3. \A j \in DOMAIN gaps : gaps[j] \in Nat /\ gaps[j] <= TagsSize
    BY <1>3
  <2>4. BT!Fitting(gaps, need) # {}
    BY <1>1
  <2>5. BT!Choice(gaps, need, fit) \in BT!Fitting(gaps, need)
    BY <2>1, <2>2, <2>3, <2>4, ChoiceFits
  <2> QED  BY <2>5
<1> HIDE DEF i
<1>5. i \in 1 .. Len(blocks) + 1 /\ gaps[i] >= need
  BY <1>3, <1>4 DEF BT!Fitting
<1>6. b = (IF prev = Null THEN 0 ELSE End(prev)) + Meta
  BY <1>5, GapsAreBetween
<1>7. gaps[i] = Between(prev, next) /\ Neighbours(prev, next) /\ gaps[i] \in Nat
  BY <1>3, <1>5
<1>8. after = next
  BY <1>7 DEF Neighbours
<1> HIDE DEF gaps, b, prev, next, after
<1>9. taken - Meta \in Nat /\ \E rest \in Nat : /\ rest = gaps[i] - Meta - (taken - Meta)
                                                /\ rest = 0 \/ rest >= Meta
  <2>1. req \in Nat /\ TagsMaxReq \in Nat
    BY SizesAssumption
  <2>2. CASE gaps[i] - need < Meta
    <3>1. taken = gaps[i] /\ gaps[i] - Meta \in Nat
      BY <1>5, <1>7, <2>1, <2>2 DEF BT!TakesWhole
    <3>2. gaps[i] - Meta - (taken - Meta) = 0
      BY <1>7, <3>1
    <3> QED  BY <3>1, <3>2
  <2>3. CASE ~(gaps[i] - need < Meta)
    <3>1. taken = need
      BY <2>3 DEF BT!TakesWhole
    <3>2. gaps[i] - Meta - (taken - Meta) = gaps[i] - need /\ gaps[i] - need \in Nat
          /\ gaps[i] - need >= Meta
      BY <1>7, <2>1, <2>3, <3>1
    <3> QED  BY <2>1, <3>1, <3>2
  <2> QED  BY <2>2, <2>3
<1>10. PutIn(prev, next, b, taken - Meta)
  <2> HIDE DEF taken
  <2> QED  BY <1>2, <1>6, <1>7, <1>8, <1>9 DEF PutIn
<1>11. avail' = avail - ((taken - Meta) + Meta)
  <2>1. req \in Nat /\ gaps[i] \in Nat /\ need = req + Meta
    BY <1>7
  <2>2. taken \in Int
    BY <2>1
  <2> HIDE DEF taken
  <2> QED  BY <1>1, <2>2
<1> QED  BY <1>1, <1>10, <1>11

-----------------------------------------------------------------------------
Inv == variant \in Variants /\ (variant = "boundary_tags" => TagsInv)

(* The invariant of the boundary tags holds at the start, ...              *)
LEMMA InvInit == Init => Inv
<1> USE DEF Null, Meta, BT!Null, BT!Meta
<1> SUFFICES ASSUME Init, variant = "boundary_tags"  PROVE TagsInv
  BY DEF Init, Inv
<1>1. BT!Init
  BY DEF Init
<1>2. Out = {} /\ head = Null /\ fit \in BT!FitModes
  BY <1>1 DEF BT!Init, Out
<1>3. TagsSize \in Nat /\ TagsSize >= Meta
  BY SizesAssumption
<1>4. Usable
  BY <1>2, <1>3 DEF Usable, Between
<1> QED  BY <1>2, <1>4 DEF TagsInv, TagsTyped, Disjoint, Forth, Back

(* ... and is kept by every step.                                          *)
LEMMA InvStep == Inv /\ [Next]_vars => Inv'
<1> SUFFICES ASSUME Inv, [Next]_vars  PROVE Inv'
  OBVIOUS
<1>1. variant' = variant
  BY DEF Next, vars
<1>2. ASSUME variant = "boundary_tags"  PROVE TagsInv'
  <2>1. TagsInv
    BY <1>2 DEF Inv
  <2>2. BT!Next \/ UNCHANGED <<tag, head, fit>>
    BY <1>2 DEF Next, vars
  <2>3. ASSUME NEW req \in 0 .. TagsMaxReq, BT!Allocate(req)  PROVE TagsInv'
    <3>1. PICK prev, next, b, size : PutIn(prev, next, b, size) /\ fit' = fit
      BY <2>1, <2>3, AllocatePuts
    <3>2. fit' \in BT!FitModes
      BY <2>1, <3>1 DEF TagsInv, TagsTyped
    <3> QED  BY <2>1, <3>1, <3>2, PutKeeps
  <2>4. ASSUME NEW b \in Out, BT!Deallocate(b)  PROVE TagsInv'
    <3>1. /\ tag' = BT!Removed(b)
          /\ head' = IF tag[b].prev = Null THEN tag[b].next ELSE head
          /\ fit' \in BT!FitModes
      BY <2>1, <2>4 DEF BT!Deallocate, TagsInv, TagsTyped, Null
    <3> QED  BY <2>1, <3>1, RemoveKeeps
  <2>5. ASSUME UNCHANGED <<tag, head>>, fit' \in BT!FitModes  PROVE TagsInv'
    BY <2>1, <2>5 DEF TagsInv, TagsTyped, Disjoint, Forth, Back, Usable, Neighbours,
                      Between, End, Out
  <2>6. CASE BT!SetFitMode
    BY <2>5, <2>6 DEF BT!SetFitMode
  <2>7. CASE UNCHANGED <<tag, head, fit>>
    BY <2>1, <2>5, <2>7 DEF TagsInv, TagsTyped
  <2> QED  BY <2>2, <2>3, <2>4, <2>6, <2>7 DEF BT!Next, Out
<1> QED  BY <1>1, <1>2 DEF Inv

(* After any sequence of calls the list of the boundary tags holds every   *)
(* block handed out once, and its links back mirror those forth, for an    *)
(* arena and requests of any size.                                         *)
THEOREM TagsStayLinked == Spec => []Linked
<1> USE DEF Null, BT!Null
<1>1. ASSUME TagsInv  PROVE BT!Linked
  <2> DEFINE l == BT!Blocks
  <2>1. /\ l \in Seq(Out) /\ Len(l) \in Nat
        /\ \A x \in Out : \E i \in DOMAIN l : l[i] = x
        /\ \A i, j \in DOMAIN l : i < j => l[i] < l[j]
        /\ \A i \in 1 .. Len(l) + 1 : Neighbours(Before(i), After(i))
    BY <1>1, BlocksListed
  <2>2. ASSUME NEW i \in DOMAIN l
        PROVE  tag[l[i]].prev = IF i = 1 THEN Null ELSE l[i - 1]
    <3>1. i \in 1 .. Len(l) + 1 /\ After(i) = l[i] /\ l[i] \in Out
      BY <2>1 DEF After
    <3>2. l[i] # Null
      BY <1>1, <3>1 DEF TagsInv, TagsTyped
    <3>3. tag[After(i)].prev = Before(i)
      BY <1>1, <2>1, <3>1, <3>2, NeighboursMeet
    <3> QED  BY <3>1, <3>3 DEF Before
  <2> HIDE DEF l
  <2>3. {l[i] : i \in DOMAIN l} = Out
    BY <2>1
  <2>4. Len(l) = Cardinality(Out)
    <3> DEFINE f == [i \in 1 .. Len(l) |-> l[i]]
    <3>1. \A i, j \in 1 .. Len(l) : i # j => l[i] # l[j]
      <4>1. \A x \in Out : x \in Nat
        BY <1>1 DEF TagsInv, TagsTyped
      <4>2. \A i \in DOMAIN l : l[i] \in Nat
        BY <2>1, <4>1
      <4>3. ASSUME NEW i \in 1 .. Len(l), NEW j \in 1 .. Len(l), i # j  PROVE l[i] # l[j]
        BY <2>1, <4>2, <4>3
      <4> QED  BY <4>3
    <3>2. f \in Bijection(1 .. Len(l), Out)
      <4>1. f \in [1 .. Len(l) -> Out]
        BY <2>1
      <4>2. \A x \in Out : \E i \in 1 .. Len(l) : f[i] = x
        BY <2>1
      <4> QED  BY <3>1, <4>1, <4>2 DEF Bijection, Injection, IsInjective, Surjection
    <3>3. ExistsBijection(1 .. Len(l), Out)
      BY <3>2 DEF ExistsBijection
    <3>4. IsFiniteSet(1 .. Len(l)) /\ Cardinality(1 .. Len(l)) = Len(l)
      <4>1. Len(l) \in Nat /\ 1 \in Int /\ Len(l) \in Int
        BY <2>1
      <4>2. IsFiniteSet(1 .. Len(l))
            /\ Cardinality(1 .. Len(l)) = IF 1 > Len(l) THEN 0 ELSE Len(l) - 1 + 1
        BY <4>1, FS_Interval
      <4> QED  BY <4>1, <4>2
    <3> QED  BY <3>3, <3>4, FS_Bijection
  <2>5. Len(l) = BT!Cardinality(DOMAIN tag)
    BY <2>4 DEF Out, Cardinality, BT!Cardinality
  <2> QED  BY <2>2, <2>3, <2>5 DEF BT!Linked, l, Out
<1>2. Inv => Linked
  BY <1>1 DEF Inv, Linked
<1> QED  BY <1>2, InvInit, InvStep, PTL DEF Spec

(* No free words between two blocks are too few to be given out again, for *)
(* an arena and requests of any size.                                      *)
THEOREM TagsLeaveNoSlivers == Spec => []NoSlivers
<1>1. ASSUME TagsInv  PROVE BT!NoSlivers
  <2>1. ASSUME NEW i \in 1 .. Len(BT!Blocks) + 1
        PROVE  BT!Gaps(BT!Blocks)[i] = 0 \/ BT!Gaps(BT!Blocks)[i] >= BT!Meta
    <3>1. BT!Gaps(BT!Blocks)[i] = Between(Before(i), After(i))
          /\ Neighbours(Before(i), After(i))
      BY <1>1, GapsAreBetween, BlocksListed
    <3>2. Before(i) \in Out \cup {Null} /\ After(i) \in Out \cup {Null}
      BY <3>1 DEF Neighbours
    <3> QED  BY <1>1, <3>1, <3>2 DEF TagsInv, Usable, Meta
  <2>2. DOMAIN BT!Gaps(BT!Blocks) = 1 .. Len(BT!Blocks) + 1
    <3>1. Len(BT!Blocks) \in Nat
      BY <1>1, BlocksListed
    <3>2. 1 \in 1 .. Len(BT!Blocks) + 1
      BY <3>1
    <3> QED  BY <1>1, <3>2, GapsAreBetween
  <2> QED  BY <2>1, <2>2 DEF BT!NoSlivers
<1>2. Inv => NoSlivers
  BY <1>1 DEF Inv, NoSlivers
<1> QED  BY <1>2, InvInit, InvStep, PTL DEF Spec

-----------------------------------------------------------------------------
(* The places of the blocks, each with its tag.                            *)
Places == [a \in {b - Meta : b \in Out} |-> tag[a + Meta].size + Meta]

WithPlace(a, n) == [b \in DOMAIN Places \cup {a} |-> IF b = a THEN n ELSE Places[b]]

(* What the boundary tags grant are those places.                          *)
LEMMA PlacesGranted ==
  variant = "boundary_tags" => Granted = Places
BY DEF Granted, Places, Meta, Out

(* To allocate is to grant a place that overlaps no other.                 *)
LEMMA AllocateGrants ==
  ASSUME TagsInv, NEW prev, NEW next, NEW b, NEW size, PutIn(prev, next, b, size)
  PROVE  /\ size + Meta \in 1 .. TagsSize /\ b - Meta \in 0 .. TagsSize - (size + Meta)
         /\ \A a \in DOMAIN Places : A!Apart(b - Meta, size + Meta, a, Places[a])
         /\ Places' = WithPlace(b - Meta, size + Meta)
<1> USE DEF Null, Meta, BT!Null, BT!Meta
<1>1. /\ b \in Nat /\ b >= Meta /\ b \notin Out
      /\ b + size <= TagsSize
      /\ prev # Null => prev \in Out /\ End(prev) + Meta <= b
      /\ next # Null => next \in Out /\ b + size + Meta <= next
      /\ Out' = Out \cup {b}
      /\ tag'[b] = [size |-> size, prev |-> prev, next |-> next]
      /\ \A x \in Out : tag'[x].size = tag[x].size
  BY PutInPlace
<1>2. size \in Nat /\ TagsSize \in Nat /\ Neighbours(prev, next)
  BY SizesAssumption DEF PutIn
<1>3. \A x \in Out : x \in Nat /\ tag[x].size \in Nat /\ End(x) \in Nat /\ x <= End(x)
                     /\ End(x) = x + tag[x].size
  BY DEF TagsInv, TagsTyped, End
<1>4. ASSUME NEW x \in Out  PROVE End(x) + Meta <= b \/ b + size + Meta <= x
  <2>1. (prev # Null /\ x <= prev) \/ (next # Null /\ next <= x)
    BY <1>2, NeighboursMeet
  <2>2. prev # Null /\ x < prev => End(x) <= prev /\ prev <= End(prev)
    BY <1>1, <1>3 DEF TagsInv, Disjoint
  <2> QED  BY <1>1, <1>2, <1>3, <2>1, <2>2
<1>5. ASSUME NEW a \in DOMAIN Places
      PROVE  A!Apart(b - Meta, size + Meta, a, Places[a])
  <2>1. PICK x \in Out : a = x - Meta
    BY DEF Places
  <2>2. Places[a] = tag[x].size + Meta
    BY <1>3, <2>1 DEF Places
  <2> QED  BY <1>1, <1>2, <1>3, <1>4, <2>1, <2>2 DEF A!Apart
<1>6. Places' = WithPlace(b - Meta, size + Meta)
  <2>1. DOMAIN Places = {x - Meta : x \in Out}
    BY DEF Places
  <2>2. {x - Meta : x \in Out'} = DOMAIN Places \cup {b - Meta}
    BY <1>1, <2>1
  <2>3. ASSUME NEW a \in DOMAIN Places \cup {b - Meta}
        PROVE  tag'[a + Meta].size + Meta = IF a = b - Meta THEN size + Meta ELSE Places[a]
    <3>1. CASE a = b - Meta
      BY <1>1, <3>1
    <3>2. CASE a # b - Meta
      <4>1. PICK x \in Out : a = x - Meta
        BY <2>1, <3>2
      <4>2. a + Meta = x /\ Places[a] = tag[x].size + Meta
        BY <1>3, <4>1 DEF Places
      <4> QED  BY <1>1, <3>2, <4>2
    <3> QED  BY <3>1, <3>2
  <2>4. Places' = [a \in {x - Meta : x \in Out'} |-> tag'[a + Meta].size + Meta]
    BY DEF Places
  <2> QED  BY <2>2, <2>3, <2>4 DEF WithPlace
<1> QED  BY <1>1, <1>2, <1>5, <1>6

(* To deallocate is to give a place back, and changes no other.            *)
LEMMA DeallocateGivesBack ==
  ASSUME TagsInv, NEW b \in Out, BT!Deallocate(b)
  PROVE  /\ b - Meta \in DOMAIN Places
         /\ Places' = [a \in DOMAIN Places \ {b - Meta} |-> Places[a]]
<1> USE DEF Null, Meta, BT!Null, BT!Meta
<1>1. \A x \in Out : x \in Nat /\ tag[x] \in [size : Nat, prev : Int, next : Int]
  BY DEF TagsInv, TagsTyped
<1>2. Out' = Out \ {b} /\ \A x \in Out' : tag'[x].size = tag[x].size
  <2>1. tag' = BT!Removed(b)
    BY DEF BT!Deallocate
  <2>2. Out' = Out \ {b}
    BY <2>1 DEF BT!Removed, Out
  <2>3. ASSUME NEW x \in Out'  PROVE tag'[x].size = tag[x].size
    <3>1. x \in DOMAIN tag \ {b} /\ x \in Out
      BY <2>2 DEF Out
    <3> QED  BY <1>1, <2>1, <3>1 DEF BT!Removed
  <2> QED  BY <2>2, <2>3
<1>3. DOMAIN Places = {x - Meta : x \in Out}
  BY DEF Places
<1>4. {x - Meta : x \in Out'} = DOMAIN Places \ {b - Meta}
  BY <1>1, <1>2, <1>3
<1>5. ASSUME NEW a \in DOMAIN Places \ {b - Meta}
      PROVE  tag'[a + Meta].size + Meta = Places[a]
  <2>1. PICK x \in Out' : a = x - Meta
    BY <1>4
  <2>2. x \in Out /\ a + Meta = x
    BY <1>1, <1>2, <2>1
  <2> QED  BY <1>2, <2>1, <2>2 DEF Places
<1>6. Places' = [a \in {x - Meta : x \in Out'} |-> tag'[a + Meta].size + Meta]
  BY DEF Places
<1> QED  BY <1>3, <1>4, <1>5, <1>6

(* Whatever the fit mode and however it changes, the boundary tags hand    *)
(* out places that lie in the arena and do not overlap, for an arena and   *)
(* requests of any size.                                                   *)
THEOREM TagsImplementArena ==
  Spec /\ variant = "boundary_tags" => ImplementsArena
<1> DEFINE Tags == variant = "boundary_tags"
           Words == CASE variant = "sorted_list"   -> ListSize
                      [] variant = "boundary_tags" -> TagsSize
                      [] variant = "buddy_system"  -> BS!Size
<1>1. Init /\ Tags => A!Init
  <2> SUFFICES ASSUME Init, Tags  PROVE A!Init
    OBVIOUS
  <2>1. Out = {} /\ TagsSize \in Nat
    BY SizesAssumption DEF Init, BT!Init, Out
  <2>2. Granted = Places
    BY PlacesGranted
  <2>3. Places = [b \in {} |-> 0]
    BY <2>1 DEF Places
  <2> QED  BY <2>1, <2>2, <2>3 DEF A!Init
<1>2. Tags /\ [Next]_vars => Tags'
  BY DEF Next, vars
<1>3. Inv /\ Tags /\ [Next]_vars => [A!Next]_<<Words, Granted>>
  <2> SUFFICES ASSUME Inv, Tags, [Next]_vars  PROVE [A!Next]_<<Words, Granted>>
    OBVIOUS
  <2>1. TagsInv /\ Tags' /\ Words = TagsSize /\ Words' = TagsSize
    BY <1>2 DEF Inv
  <2>2. Granted = Places /\ Granted' = Places'
    BY <2>1 DEF Granted, Places, Meta, Out
  <2>3. BT!Next \/ UNCHANGED tag
    BY DEF Next, vars
  <2> HIDE DEF Words
  <2>4. ASSUME NEW req \in 0 .. TagsMaxReq, BT!Allocate(req)  PROVE A!Next
    <3>1. PICK prev, next, b, size : PutIn(prev, next, b, size)
      BY <2>1, <2>4, AllocatePuts
    <3> DEFINE a == b - Meta
               n == size + Meta
    <3>2. /\ n \in 1 .. TagsSize /\ a \in 0 .. TagsSize - n
          /\ \A c \in DOMAIN Places : A!Apart(a, n, c, Places[c])
          /\ Places' = WithPlace(a, n)
      BY <2>1, <3>1, AllocateGrants
    <3> HIDE DEF a, n
    <3>3. A!Grant(a, n)
      BY <2>1, <2>2, <3>2 DEF A!Grant, Words, WithPlace
    <3>4. a \in 0 .. TagsSize
      BY <3>2, SizesAssumption
    <3> QED  BY <2>1, <3>2, <3>3, <3>4 DEF A!Next, Words
  <2>5. ASSUME NEW b \in Out, BT!Deallocate(b)  PROVE A!Next
    <3> DEFINE a == b - Meta
    <3>1. /\ a \in DOMAIN Places
          /\ Places' = [c \in DOMAIN Places \ {a} |-> Places[c]]
      BY <2>1, <2>5, DeallocateGivesBack
    <3> HIDE DEF a
    <3>2. A!GiveBack(a)
      BY <2>1, <2>2, <3>1 DEF A!GiveBack, Words
    <3> QED  BY <2>2, <3>1, <3>2 DEF A!Next
  <2>6. ASSUME UNCHANGED tag  PROVE UNCHANGED <<Words, Granted>>
    <3>1. Places' = Places
      BY <2>6 DEF Places, Out
    <3> QED  BY <2>1, <2>2, <3>1
  <2> QED  BY <2>3, <2>4, <2>5, <2>6 DEF BT!Next, BT!SetFitMode, Out
<1> QED  BY <1>1, <1>2, <1>3, InvInit, InvStep, PTL DEF Spec, ImplementsArena, A!Spec

-----------------------------------------------------------------------------
(* The words of an arena of size n that none of the places G has.          *)
Spare(G, n) == {w \in 0 .. n - 1 : \A a \in DOMAIN G : w \notin a .. a + G[a] - 1}

(* How many spare words there can be.                                      *)
LEMMA SpareCounts ==
  ASSUME NEW G, NEW n \in Nat
  PROVE  /\ IsFiniteSet(Spare(G, n)) /\ Cardinality(Spare(G, n)) \in 0 .. n
         /\ DOMAIN G = {} => Cardinality(Spare(G, n)) = n
<1>1. IsFiniteSet(0 .. n - 1) /\ Cardinality(0 .. n - 1) = n
  BY FS_Interval
<1>2. Spare(G, n) \in SUBSET (0 .. n - 1)
  BY DEF Spare
<1>3. /\ IsFiniteSet(Spare(G, n)) /\ Cardinality(Spare(G, n)) <= n
      /\ Cardinality(Spare(G, n)) \in Nat
  BY <1>1, <1>2, FS_Subset, FS_CardinalityType
<1>4. DOMAIN G = {} => Spare(G, n) = 0 .. n - 1
  BY DEF Spare
<1> QED  BY <1>1, <1>3, <1>4

(* A place that is granted takes as many spare words as it has.            *)
LEMMA GrantSpares ==
  ASSUME NEW G, NEW H, NEW n \in Nat, NEW s \in 1 .. n, NEW a \in 0 .. n - s,
         \A b \in DOMAIN G : b \in Nat /\ G[b] \in Nat /\ A!Apart(a, s, b, G[b]),
         DOMAIN H = DOMAIN G \cup {a}, H[a] = s, \A b \in DOMAIN G : H[b] = G[b]
  PROVE  Cardinality(Spare(H, n)) = Cardinality(Spare(G, n)) - s
<1> DEFINE I == a .. a + s - 1
<1>1. a \in Nat /\ s \in Nat /\ s >= 1 /\ a + s <= n
  OBVIOUS
<1>2. Cardinality(I) = s
  <2>1. a + s - 1 \in Int /\ ~(a > a + s - 1) /\ (a + s - 1) - a + 1 = s
    BY <1>1
  <2> QED  BY <1>1, <2>1, FS_Interval
<1>3. I \subseteq Spare(G, n)
  <2>1. ASSUME NEW w \in I, NEW b \in DOMAIN G  PROVE w \notin b .. b + G[b] - 1
    <3>1. a + s <= b \/ b + G[b] <= a
      BY DEF A!Apart
    <3>2. b \in Nat /\ G[b] \in Nat /\ w \in Nat /\ a <= w /\ w < a + s
      BY <1>1
    <3> QED  BY <1>1, <3>1, <3>2
  <2>2. \A w \in I : w \in 0 .. n - 1
    BY <1>1
  <2> QED  BY <2>1, <2>2 DEF Spare
<1>4. Spare(H, n) = Spare(G, n) \ I
  BY DEF Spare
<1> HIDE DEF I
<1>5. Spare(G, n) \cap I = I
  BY <1>3
<1>6. PICK S : S = Spare(G, n)
  OBVIOUS
<1>7. IsFiniteSet(S)
  BY <1>6, SpareCounts
<1>8. Cardinality(S \ I) = Cardinality(S) - Cardinality(S \cap I)
  BY <1>7, FS_Difference
<1> QED  BY <1>2, <1>4, <1>5, <1>6, <1>8

-----------------------------------------------------------------------------
(* The available size of the boundary tags is the spare words.             *)
TagsExact == avail = Cardinality(Spare(Places, TagsSize))

(* The places of the blocks lie in the arena, ...                          *)
LEMMA PlacesTyped ==
  ASSUME TagsInv
  PROVE  \A a \in DOMAIN Places : a \in Nat /\ Places[a] \in Nat /\ Places[a] >= 1
                                  /\ a + Places[a] <= TagsSize
<1> USE DEF Meta, BT!Meta
<1>1. ASSUME NEW a \in DOMAIN Places
      PROVE  a \in Nat /\ Places[a] \in Nat /\ Places[a] >= 1 /\ a + Places[a] <= TagsSize
  <2>1. PICK b \in Out : a = b - Meta
    BY <1>1 DEF Places
  <2>2. b \in Nat /\ b >= Meta /\ tag[b].size \in Nat /\ b + tag[b].size <= TagsSize
    BY <2>1 DEF TagsInv, TagsTyped, End
  <2>3. Places[a] = tag[b].size + Meta
    <3>1. a + Meta = b
      BY <2>1, <2>2
    <3> QED  BY <1>1, <3>1 DEF Places
  <2> QED  BY <2>1, <2>2, <2>3, SizesAssumption
<1> QED  BY <1>1

(* ... and no two of them overlap.                                         *)
LEMMA TagsPlacesApart ==
  ASSUME TagsInv, NEW a \in DOMAIN Places, NEW b \in DOMAIN Places, a # b
  PROVE  A!Apart(a, Places[a], b, Places[b])
<1> USE DEF Meta, BT!Meta
<1>1. PICK x \in Out, y \in Out : a = x - Meta /\ b = y - Meta
  BY DEF Places
<1>2. /\ x \in Nat /\ y \in Nat /\ tag[x].size \in Nat /\ tag[y].size \in Nat
      /\ End(x) = x + tag[x].size /\ End(y) = y + tag[y].size
  BY <1>1 DEF TagsInv, TagsTyped, End
<1>3. Places[a] = tag[x].size + Meta /\ Places[b] = tag[y].size + Meta
  <2>1. a + Meta = x /\ b + Meta = y
    BY <1>1, <1>2
  <2> QED  BY <2>1 DEF Places
<1>4. End(x) + Meta <= y \/ End(y) + Meta <= x
  <2>1. x < y \/ y < x
    BY <1>1, <1>2
  <2> QED  BY <2>1 DEF TagsInv, Disjoint
<1> QED  BY <1>1, <1>2, <1>3, <1>4 DEF A!Apart

(* Every call changes the available size and the spare words alike.        *)
LEMMA TagsExactStep ==
  ASSUME TagsInv, TagsExact, BT!Next \/ UNCHANGED <<tag, head, avail, fit>>
  PROVE  TagsExact'
<1>1. TagsSize \in Nat
  BY SizesAssumption
<1>2. ASSUME NEW req \in 0 .. TagsMaxReq, BT!Allocate(req)  PROVE TagsExact'
  <2>1. PICK prev, next, b, size : PutIn(prev, next, b, size) /\ avail' = avail - (size + Meta)
    BY <1>2, AllocatePuts
  <2>2. PICK a, s : a = b - Meta /\ s = size + Meta
    OBVIOUS
  <2>3. /\ s \in 1 .. TagsSize /\ a \in 0 .. TagsSize - s
        /\ \A c \in DOMAIN Places : A!Apart(a, s, c, Places[c])
        /\ Places' = WithPlace(a, s)
    BY <2>1, <2>2, AllocateGrants
  <2>4. /\ DOMAIN Places' = DOMAIN Places \cup {a} /\ Places'[a] = s
        /\ \A c \in DOMAIN Places : Places'[c] = Places[c]
    <3>1. a \notin DOMAIN Places
      <4>1. \A c \in DOMAIN Places : c \in Nat /\ Places[c] \in Nat /\ Places[c] >= 1
        BY PlacesTyped
      <4> QED  BY <2>3, <4>1 DEF A!Apart
    <3> QED  BY <2>3, <3>1 DEF WithPlace
  <2>5. Cardinality(Spare(Places', TagsSize)) = Cardinality(Spare(Places, TagsSize)) - s
    BY <1>1, <2>3, <2>4, PlacesTyped, GrantSpares
  <2> QED  BY <2>1, <2>2, <2>5 DEF TagsExact
<1>3. ASSUME NEW b \in Out, BT!Deallocate(b)  PROVE TagsExact'
  <2>1. PICK a, s : a = b - Meta /\ s = Places[a]
    OBVIOUS
  <2>2. a \in DOMAIN Places /\ Places' = [c \in DOMAIN Places \ {a} |-> Places[c]]
    BY <1>3, <2>1, DeallocateGivesBack
  <2>3. avail' = avail + s
    <3>1. b \in Nat
      BY <1>3 DEF TagsInv, TagsTyped
    <3>2. a + Meta = b
      BY <2>1, <3>1 DEF Meta, BT!Meta
    <3>3. s = tag[b].size + Meta /\ tag[b].size \in Nat
      BY <1>3, <2>1, <2>2, <3>2 DEF Places, TagsInv, TagsTyped
    <3> QED  BY <1>3, <3>3 DEF BT!Deallocate, BT!GivenBack, Meta, BT!Meta
  <2>4. /\ s \in 1 .. TagsSize /\ a \in 0 .. TagsSize - s
        /\ \A c \in DOMAIN Places : c \in Nat /\ Places[c] \in Nat
    BY <1>1, <2>1, <2>2, PlacesTyped
  <2>5. \A c \in DOMAIN Places' : A!Apart(a, s, c, Places'[c])
    BY <2>1, <2>2, TagsPlacesApart
  <2>6. Cardinality(Spare(Places, TagsSize)) = Cardinality(Spare(Places', TagsSize)) - s
    <3> DEFINE G == Places'
    <3>1. /\ DOMAIN G = DOMAIN Places \ {a} /\ \A c \in DOMAIN G : Places[c] = G[c]
      BY <2>2
    <3>2. \A c \in DOMAIN G : c \in Nat /\ G[c] \in Nat /\ A!Apart(a, s, c, G[c])
      BY <2>4, <2>5, <3>1
    <3>3. DOMAIN Places = DOMAIN G \cup {a}
      BY <2>2, <3>1
    <3> HIDE DEF G
    <3>4. PICK H : H = Places
      OBVIOUS
    <3>5. DOMAIN H = DOMAIN G \cup {a} /\ H[a] = s /\ \A c \in DOMAIN G : H[c] = G[c]
      BY <2>1, <3>1, <3>3, <3>4
    <3>6. s \in 1 .. TagsSize /\ a \in 0 .. TagsSize - s
      BY <2>4
    <3>7. Cardinality(Spare(H, TagsSize)) = Cardinality(Spare(G, TagsSize)) - s
      BY <1>1, <3>2, <3>5, <3>6, GrantSpares
    <3> QED  BY <3>4, <3>7 DEF G
  <2>7. Cardinality(Spare(Places, TagsSize)) \in Nat /\ Cardinality(Spare(Places', TagsSize)) \in Nat
    BY <1>1, SpareCounts
  <2> QED  BY <2>3, <2>4, <2>6, <2>7 DEF TagsExact
<1>4. ASSUME UNCHANGED <<tag, avail>>  PROVE TagsExact'
  BY <1>4 DEF TagsExact, Places, Out
<1> QED  BY <1>2, <1>3, <1>4 DEF BT!Next, BT!SetFitMode, Out

-----------------------------------------------------------------------------
(* The sorted list.  F is the set of the blocks that are linked as free.   *)
ListNext(a) == mem[a + 1]
ListEnd(a) == a + mem[a]

ListTyped(F) ==
  /\ mem \in [SL!Addr -> Int]
  /\ F \subseteq SL!Addr /\ held \subseteq SL!Addr /\ F \cap held = {}
  /\ \A a \in F \cup held : mem[a] >= SL!Meta /\ ListEnd(a) <= ListSize
  /\ fit \in SL!FitModes

(* Each block begins where another ends, but for the first.                *)
ListTiles(F) ==
  /\ \A a, b \in F \cup held : a < b => ListEnd(a) <= b
  /\ 0 \in F \cup held
  /\ \A a \in F \cup held : ListEnd(a) = ListSize \/ ListEnd(a) \in F \cup held

ListLinks(F) ==
  /\ IF head = Null THEN F = {} ELSE head \in F /\ \A x \in F : head <= x
  /\ \A a \in F : IF ListNext(a) = Null THEN \A x \in F : x <= a
                  ELSE /\ ListNext(a) \in F /\ a < ListNext(a)
                       /\ \A x \in F : x <= a \/ ListNext(a) <= x

(* Free neighbours are one block, and the allocator's address is in the    *)
(* blocks handed out and nowhere else.                                     *)
ListMerged(F) == \A a \in F : ListEnd(a) \notin F
ListMarked == \A a \in SL!Addr \ {0} : mem[a] = SL!This <=> a - 1 \in held

ListInv(F) ==
  ListTyped(F) /\ ListTiles(F) /\ ListLinks(F) /\ ListMerged(F) /\ ListMarked

(* The words of different blocks are different.                            *)
LEMMA WordsApart ==
  ASSUME NEW F, ListTyped(F), ListTiles(F), NEW a \in F \cup held, NEW b \in F \cup held, a # b
  PROVE  /\ a \in Nat /\ a + 1 \in SL!Addr /\ mem[a] \in Nat /\ ListEnd(a) \in Nat
         /\ a + 2 <= ListEnd(a) /\ ListEnd(a) <= ListSize
         /\ b \in Nat /\ mem[b] \in Nat /\ ListEnd(b) \in Nat /\ b + 2 <= ListEnd(b)
         /\ ListEnd(a) <= b \/ ListEnd(b) <= a
<1>1. ListSize \in Nat
  BY SizesAssumption
<1>2. ASSUME NEW x \in F \cup held
      PROVE  /\ x \in Nat /\ mem[x] \in Nat /\ mem[x] >= 2 /\ x + 1 \in SL!Addr
             /\ ListEnd(x) \in Nat /\ x + 2 <= ListEnd(x) /\ ListEnd(x) <= ListSize
  <2>1. x \in SL!Addr /\ mem[x] \in Int /\ mem[x] >= 2 /\ x + mem[x] <= ListSize
    BY DEF ListTyped, ListEnd, SL!Meta
  <2> QED  BY <1>1, <2>1 DEF SL!Addr, ListEnd
<1>3. ListEnd(a) <= b \/ ListEnd(b) <= a
  BY <1>2 DEF ListTiles
<1> QED  BY <1>2, <1>3

(* allocate takes the free block at target, whole or the first size words, *)
(* from between the free blocks prev and next.                             *)
Takes(F, target, size, whole, prev) ==
  LET next == IF whole THEN ListNext(target) ELSE target + size
  IN  /\ target \in F /\ size \in Nat /\ size >= SL!Meta
      /\ IF prev = Null THEN head = target ELSE prev \in F /\ ListNext(prev) = target
      /\ IF whole THEN size = mem[target] ELSE size + SL!Meta <= mem[target]
      /\ mem' \in [SL!Addr -> Int]
      /\ mem'[target] = size /\ mem'[target + 1] = SL!This
      /\ ~whole => /\ mem'[target + size] = mem[target] - size
                   /\ mem'[target + size + 1] = ListNext(target)
      /\ prev # Null => mem'[prev + 1] = next
      /\ \A x \in SL!Addr :
           /\ x # target /\ x # target + 1 /\ (prev # Null => x # prev + 1)
           /\ ~whole => x # target + size /\ x # target + size + 1
           => mem'[x] = mem[x]
      /\ head' = IF prev = Null THEN next ELSE head
      /\ held' = held \cup {target}
      /\ fit' = fit

Left(F, target, size, whole) ==
  IF whole THEN F \ {target} ELSE (F \ {target}) \cup {target + size}

(* Taking a block keeps the invariant of the sorted list.                  *)
LEMMA TakeKeeps ==
  ASSUME NEW F, NEW G, ListInv(F), NEW target, NEW size, NEW whole \in BOOLEAN, NEW prev,
         Takes(F, target, size, whole, prev), G = Left(F, target, size, whole)
  PROVE  ListInv(G)'
<1> USE DEF Null, BT!Null, SL!Meta, SL!This
<1> DEFINE rest == target + size
           next == IF whole THEN ListNext(target) ELSE rest
           B == F \cup held
<1>1. ListTyped(F) /\ ListTiles(F) /\ ListLinks(F) /\ ListMerged(F) /\ ListMarked
  BY DEF ListInv
<1>2. ListSize \in Nat /\ SL!Addr = 0 .. ListSize - 1
  BY SizesAssumption DEF SL!Addr
<1>3. \A x \in B : /\ x \in Nat /\ mem[x] \in Nat /\ mem[x] >= 2 /\ x + 1 \in SL!Addr
                   /\ x \in SL!Addr
                   /\ ListEnd(x) = x + mem[x] /\ ListEnd(x) <= ListSize
  BY <1>1, <1>2 DEF ListTyped, ListEnd
<1>4. \A x, y \in B : x # y => ListEnd(x) <= y \/ ListEnd(y) <= x
  BY <1>1, <1>3 DEF ListTiles
<1>5. /\ target \in F /\ target \in B /\ target \notin held /\ size \in Nat /\ size >= 2
      /\ whole => size = mem[target]
      /\ ~whole => size + 2 <= mem[target]
      /\ prev # Null => prev \in F /\ prev \in B /\ prev < target
      /\ held' = held \cup {target}
  <2>1. /\ target \in F /\ size \in Nat /\ size >= 2 /\ held' = held \cup {target}
        /\ whole => size = mem[target]
        /\ ~whole => size + 2 <= mem[target]
        /\ prev # Null => prev \in F /\ ListNext(prev) = target
    BY DEF Takes
  <2>2. target \in B /\ target \notin held /\ target # Null
    BY <1>1, <1>3, <2>1 DEF ListTyped
  <2>3. prev # Null => prev < target
    BY <1>1, <2>1, <2>2 DEF ListLinks
  <2> QED  BY <2>1, <2>2, <2>3
<1>6. ~whole => rest \in SL!Addr /\ rest + 1 \in SL!Addr /\ rest \notin B
                /\ rest + 2 <= ListEnd(target)
  <2> SUFFICES ASSUME ~whole
               PROVE  rest \in SL!Addr /\ rest + 1 \in SL!Addr /\ rest \notin B
                      /\ rest + 2 <= ListEnd(target)
    OBVIOUS
  <2>1. rest \in Nat /\ rest + 2 <= ListEnd(target) /\ ListEnd(target) <= ListSize
        /\ target + 2 <= rest
    BY <1>3, <1>5
  <2>2. rest \in SL!Addr /\ rest + 1 \in SL!Addr
    <3>1. ListEnd(target) \in Nat
      BY <1>3, <1>5
    <3>2. rest + 1 \in Nat /\ rest + 1 <= ListSize - 1
      BY <1>2, <2>1, <3>1
    <3> QED  BY <1>2, <2>1, <3>2
  <2>3. ASSUME rest \in B  PROVE FALSE
    <3>1. rest # target /\ target \in Nat
      BY <1>3, <1>5, <2>1
    <3>2. ListEnd(rest) <= target \/ ListEnd(target) <= rest
      BY <1>4, <1>5, <2>3, <3>1
    <3>3. ListEnd(rest) \in Nat /\ ListEnd(rest) >= rest /\ ListEnd(target) \in Nat
      BY <1>3, <1>5, <2>3
    <3> QED  BY <2>1, <3>1, <3>2, <3>3
  <2> QED  BY <2>1, <2>2, <2>3
(* The words of the other blocks stay as they are.                         *)
<1>7. ASSUME NEW x \in B, x # target
      PROVE  mem'[x] = mem[x] /\ (x # prev => mem'[x + 1] = mem[x + 1])
  <2>1. x # target + 1 /\ x + 1 # target /\ x + 1 # target + 1
        /\ (~whole => x # rest /\ x # rest + 1 /\ x + 1 # rest /\ x + 1 # rest + 1)
    BY <1>3, <1>4, <1>5, <1>7
  <2>2. prev # Null => x # prev + 1 /\ (x # prev => x + 1 # prev + 1)
    BY <1>3, <1>4, <1>5, <1>7
  <2> QED  BY <1>3, <1>7, <2>1, <2>2 DEF Takes
<1>8. /\ mem'[target] = size /\ mem'[target + 1] = SL!This
      /\ ~whole => mem'[rest] = mem[target] - size /\ mem'[rest + 1] = ListNext(target)
      /\ prev # Null => mem'[prev + 1] = next
      /\ head' = IF prev = Null THEN next ELSE head
  BY DEF Takes
<1>9. G = IF whole THEN F \ {target} ELSE (F \ {target}) \cup {rest}
  BY DEF Left
<1>10. G \cup held' = IF whole THEN B ELSE B \cup {rest}
  BY <1>5, <1>9
<1>11. \A x \in B : x # target => ListEnd(x)' = ListEnd(x)
  BY <1>7 DEF ListEnd
<1>12. ListEnd(target)' = rest /\ (~whole => ListEnd(rest)' = ListEnd(target))
  BY <1>3, <1>5, <1>8 DEF ListEnd
<1>13. ListTyped(G)'
  <2>1. mem' \in [SL!Addr -> Int] /\ fit' \in SL!FitModes
    BY <1>1 DEF ListTyped, Takes
  <2>2. G \subseteq SL!Addr /\ held' \subseteq SL!Addr
    BY <1>1, <1>3, <1>5, <1>6, <1>9 DEF ListTyped
  <2>3. G \cap held' = {}
    BY <1>1, <1>3, <1>5, <1>6, <1>9 DEF ListTyped
  <2>4. \A x \in B : x # target => mem'[x] >= 2 /\ ListEnd(x)' <= ListSize
    BY <1>3, <1>7, <1>11
  <2>5. mem'[target] >= 2 /\ ListEnd(target)' <= ListSize
    <3>1. rest <= ListSize
      BY <1>2, <1>3, <1>5
    <3> QED  BY <1>5, <1>8, <1>12, <3>1
  <2>6. ~whole => mem'[rest] >= 2 /\ ListEnd(rest)' <= ListSize
    BY <1>3, <1>5, <1>8, <1>12
  <2>7. \A x \in G \cup held' : mem'[x] >= 2 /\ ListEnd(x)' <= ListSize
    BY <1>10, <2>4, <2>5, <2>6
  <2> QED  BY <2>1, <2>2, <2>3, <2>7 DEF ListTyped
<1>14. ListTiles(G)'
  <2>1. ASSUME NEW x \in G \cup held', NEW y \in G \cup held', x < y
        PROVE  ListEnd(x)' <= y
    BY <1>3, <1>4, <1>5, <1>10, <1>11, <1>12, <2>1
  <2>2. 0 \in G \cup held'
    BY <1>1, <1>10 DEF ListTiles
  <2>3. \A x \in G \cup held' : ListEnd(x)' = ListSize \/ ListEnd(x)' \in G \cup held'
    BY <1>1, <1>3, <1>5, <1>10, <1>11, <1>12 DEF ListTiles
  <2> QED  BY <2>1, <2>2, <2>3 DEF ListTiles
<1>15. ListLinks(G)'
  <2> DEFINE after == ListNext(target)
  <2>1. /\ IF after = Null THEN \A x \in F : x <= target
           ELSE after \in F /\ target < after /\ (\A x \in F : x <= target \/ after <= x)
        /\ ~whole => (after # Null => rest < after)
    <3>1. IF after = Null THEN \A x \in F : x <= target
          ELSE after \in F /\ target < after /\ (\A x \in F : x <= target \/ after <= x)
      BY <1>1, <1>5 DEF ListLinks
    <3>2. ~whole /\ after # Null => ListEnd(target) <= after
      BY <1>3, <1>4, <1>5, <3>1
    <3> QED  BY <1>3, <1>5, <1>6, <3>1, <3>2
  <2>2. IF prev = Null THEN \A x \in F : target <= x
        ELSE \A x \in F : x <= prev \/ target <= x
    BY <1>1, <1>3, <1>5 DEF ListLinks, Takes
  <2>3. ASSUME NEW x \in F, x # target, x # prev
        PROVE  /\ ListNext(x)' = ListNext(x)
               /\ IF ListNext(x) = Null THEN \A y \in F : y <= x
                  ELSE ListNext(x) \in F /\ x < ListNext(x)
                       /\ (\A y \in F : y <= x \/ ListNext(x) <= y)
               /\ ListNext(x) # target
    <3>1. ListNext(x)' = ListNext(x)
      BY <1>7, <2>3 DEF ListNext
    <3>2. IF ListNext(x) = Null THEN \A y \in F : y <= x
          ELSE ListNext(x) \in F /\ x < ListNext(x)
               /\ (\A y \in F : y <= x \/ ListNext(x) <= y)
      BY <1>1 DEF ListLinks
    <3>3. ListNext(x) # target
      BY <1>3, <1>5, <2>2, <2>3, <3>2
    <3> QED  BY <3>1, <3>2, <3>3
  <2>4. prev # Null => ListNext(prev)' = next
    BY <1>8 DEF ListNext
  <2>5. ~whole => ListNext(rest)' = after
    BY <1>8 DEF ListNext
  <2>6. prev = Null => head = target
    BY DEF Takes
  <2>7. \A x \in F : x \in Nat
    BY <1>3
  <2> HIDE DEF after
  <2>8. CASE whole
    <3>1. next = after /\ G = F \ {target}
      BY <1>9, <2>8 DEF after
    <3> HIDE DEF next
    <3>2. IF head' = Null THEN G = {} ELSE head' \in G /\ \A x \in G : head' <= x
      BY <1>1, <1>5, <1>8, <2>1, <2>2, <2>6, <2>7, <3>1 DEF ListLinks
    <3>3. ASSUME NEW a \in G
          PROVE  IF ListNext(a)' = Null THEN \A x \in G : x <= a
                 ELSE ListNext(a)' \in G /\ a < ListNext(a)'
                      /\ (\A x \in G : x <= a \/ ListNext(a)' <= x)
      <4>1. CASE a = prev
        BY <1>5, <2>1, <2>2, <2>4, <2>7, <3>1, <4>1
      <4>2. CASE a # prev
        BY <2>3, <3>1, <4>2
      <4> QED  BY <4>1, <4>2
    <3> QED  BY <3>2, <3>3 DEF ListLinks
  <2>9. CASE ~whole
    <3>1. next = rest /\ G = (F \ {target}) \cup {rest} /\ rest \in Nat /\ target < rest
          /\ rest # Null
      BY <1>5, <1>9, <2>7, <2>9
    <3> HIDE DEF next
    <3>2. IF head' = Null THEN G = {} ELSE head' \in G /\ \A x \in G : head' <= x
      BY <1>1, <1>5, <1>8, <2>1, <2>2, <2>6, <2>7, <2>9, <3>1 DEF ListLinks
    <3> HIDE DEF rest
    <3>3. ASSUME NEW a \in G
          PROVE  IF ListNext(a)' = Null THEN \A x \in G : x <= a
                 ELSE ListNext(a)' \in G /\ a < ListNext(a)'
                      /\ (\A x \in G : x <= a \/ ListNext(a)' <= x)
      <4>1. CASE a = rest
        <5>1. ListNext(a)' = after
          BY <2>5, <2>9, <4>1
        <5> QED  BY <1>5, <2>1, <2>7, <2>9, <3>1, <4>1, <5>1
      <4>2. CASE a = prev /\ a # rest
        <5>1. prev # Null /\ a \in F
          BY <2>7, <3>1, <4>2
        <5> QED  BY <1>5, <2>1, <2>2, <2>4, <2>7, <2>9, <3>1, <4>2, <5>1
      <4>3. CASE a # prev /\ a # rest
        <5>1. a \in F /\ a # target
          BY <3>1, <4>3
        <5>2. /\ ListNext(a)' = ListNext(a) /\ ListNext(a) # target
              /\ IF ListNext(a) = Null THEN \A y \in F : y <= a
                 ELSE ListNext(a) \in F /\ a < ListNext(a)
                      /\ (\A y \in F : y <= a \/ ListNext(a) <= y)
          BY <2>3, <4>3, <5>1
        <5>3. target \in F /\ (a < target => ListNext(a) # Null /\ ListNext(a) < target)
          BY <1>5, <2>7, <5>1, <5>2
        <5>4. a > target => rest < a
          BY <1>5, <2>1, <2>7, <2>9, <3>1, <5>1
        <5> QED  BY <2>7, <3>1, <5>1, <5>2, <5>3, <5>4
      <4> QED  BY <4>1, <4>2, <4>3
    <3> QED  BY <3>2, <3>3 DEF ListLinks
  <2> QED  BY <2>8, <2>9
<1>16. ListMerged(G)'
  BY <1>1, <1>3, <1>4, <1>5, <1>6, <1>9, <1>11, <1>12 DEF ListMerged
<1>17. ListMarked'
  <2> SUFFICES ASSUME NEW x \in SL!Addr, x # 0
               PROVE  mem'[x] = SL!This <=> x - 1 \in held'
    BY DEF ListMarked
  <2>0. x \in Nat /\ target \in Nat /\ (prev # Null => prev \in Nat)
    BY <1>2, <1>3, <1>5
  <2>1. \A y \in B : y # target => y < target \/ ListEnd(target) <= y
    BY <1>3, <1>4, <1>5
  <2>2. ListNext(target) # SL!This
    <3>1. ListNext(target) = Null \/ ListNext(target) \in B
      BY <1>1, <1>5 DEF ListLinks
    <3> QED  BY <1>3, <3>1
  <2>3. CASE x = target
    <3>1. target - 1 \notin B
      <4>1. ASSUME target - 1 \in B  PROVE FALSE
        <5>1. ListEnd(target - 1) <= target \/ ListEnd(target) <= target - 1
          BY <1>4, <1>5, <2>0, <4>1
        <5>2. ListEnd(target - 1) >= target - 1 + 2 /\ ListEnd(target) >= target + 2
              /\ ListEnd(target) \in Nat /\ ListEnd(target - 1) \in Nat
          BY <1>3, <1>5, <2>0, <4>1
        <5> QED  BY <2>0, <5>1, <5>2
      <4> QED  BY <4>1
    <3>2. mem'[x] # SL!This /\ target - 1 # target
      BY <1>5, <1>8, <2>0, <2>3
    <3> QED  BY <1>5, <2>3, <3>1, <3>2
  <2>4. CASE x = target + 1
    <3>1. mem'[x] = SL!This /\ x - 1 = target
      BY <1>8, <2>0, <2>4
    <3> QED  BY <1>5, <3>1
  <2>5. CASE ~whole /\ x = rest
    <3>1. rest - 1 \notin B /\ rest - 1 # target
      BY <1>3, <1>5, <1>6, <2>0, <2>1, <2>5
    <3>2. mem'[x] # SL!This
      BY <1>3, <1>5, <1>8, <2>5
    <3> QED  BY <1>5, <2>5, <3>1, <3>2
  <2>6. CASE ~whole /\ x = rest + 1
    <3>1. x - 1 = rest /\ rest # target /\ rest \notin B
      BY <1>5, <1>6, <2>0, <2>6
    <3>2. mem'[x] # SL!This
      BY <1>8, <2>2, <2>6
    <3> QED  BY <1>5, <3>1, <3>2
  <2>7. CASE prev # Null /\ x = prev + 1
    <3>1. x - 1 = prev /\ prev # target /\ prev \notin held
      BY <1>1, <1>5, <2>0, <2>7 DEF ListTyped
    <3>2. mem'[x] # SL!This
      BY <1>5, <1>8, <2>0, <2>2, <2>7
    <3> QED  BY <1>5, <3>1, <3>2
  <2>8. CASE /\ x # target /\ x # target + 1 /\ (prev # Null => x # prev + 1)
             /\ ~whole => x # rest /\ x # rest + 1
    <3>1. mem'[x] = mem[x]
      BY <2>8 DEF Takes
    <3>2. x - 1 # target
      BY <2>0, <2>8
    <3> QED  BY <1>1, <1>5, <3>1, <3>2 DEF ListMarked
  <2> QED  BY <2>3, <2>4, <2>5, <2>6, <2>7, <2>8
<1> QED  BY <1>13, <1>14, <1>15, <1>16, <1>17 DEF ListInv

(* deallocate links the block at a between the free blocks prev and next,  *)
(* the nearest on either side, or makes one block of it and those it meets.*)
JoinsNext(a, next) == next # Null /\ ListEnd(a) = next
JoinsPrev(a, prev) == prev # Null /\ ListEnd(prev) = a

JoinedSize(a, next) == IF JoinsNext(a, next) THEN mem[a] + mem[next] ELSE mem[a]
JoinedNext(a, next) == IF JoinsNext(a, next) THEN ListNext(next) ELSE next

Gives(F, a, prev, next) ==
  /\ a \in held /\ prev \in F \cup {Null} /\ next \in F \cup {Null}
  /\ prev # Null => prev < a
  /\ next # Null => a < next
  /\ \A x \in F : (prev # Null /\ x <= prev) \/ (next # Null /\ next <= x)
  /\ mem' \in [SL!Addr -> Int]
  /\ mem'[a + 1] = JoinedNext(a, next)
  /\ IF JoinsPrev(a, prev)
     THEN mem'[prev] = mem[prev] + JoinedSize(a, next)
          /\ mem'[prev + 1] = JoinedNext(a, next)
     ELSE mem'[a] = JoinedSize(a, next) /\ (prev # Null => mem'[prev + 1] = a)
  /\ mem'[a] # SL!This
  /\ \A x \in SL!Addr :
       /\ x # a /\ x # a + 1 /\ (prev # Null => x # prev + 1)
       /\ JoinsPrev(a, prev) => x # prev
       => mem'[x] = mem[x]
  /\ head' = IF prev = Null THEN a ELSE head
  /\ held' = held \ {a}
  /\ fit' = fit

Joined(F, a, prev, next) ==
  (IF JoinsPrev(a, prev) THEN F ELSE F \cup {a}) \
  (IF JoinsNext(a, next) THEN {next} ELSE {})

(* Giving a block back keeps it too, with each way of merging.             *)
LEMMA GiveKeeps ==
  ASSUME NEW F, NEW G, ListInv(F), NEW a, NEW prev, NEW next, Gives(F, a, prev, next),
         G = Joined(F, a, prev, next)
  PROVE  ListInv(G)'
<1> USE DEF Null, BT!Null, SL!Meta, SL!This
<1> DEFINE B == F \cup held
           jn == JoinsNext(a, next)
           jp == JoinsPrev(a, prev)
           size == JoinedSize(a, next)
           link == JoinedNext(a, next)
(* The block that a is in then.                                            *)
<1>0. PICK cur : cur = IF jp THEN prev ELSE a
  OBVIOUS
<1>1. ListTyped(F) /\ ListTiles(F) /\ ListLinks(F) /\ ListMerged(F) /\ ListMarked
  BY DEF ListInv
<1>2. ListSize \in Nat /\ SL!Addr = 0 .. ListSize - 1
  BY SizesAssumption DEF SL!Addr
<1>3. \A x \in B : /\ x \in Nat /\ mem[x] \in Nat /\ mem[x] >= 2 /\ x + 1 \in SL!Addr
                   /\ x \in SL!Addr /\ ListEnd(x) \in Nat
                   /\ ListEnd(x) = x + mem[x] /\ ListEnd(x) <= ListSize
  BY <1>1, <1>2 DEF ListTyped, ListEnd
<1>4. \A x, y \in B : x # y => ListEnd(x) <= y \/ ListEnd(y) <= x
  BY <1>1, <1>3 DEF ListTiles
<1>5. /\ a \in held /\ a \notin F /\ a \in B /\ held' = held \ {a}
      /\ prev # Null => prev \in F /\ prev < a /\ prev \notin held /\ prev \in B
      /\ next # Null => next \in F /\ a < next /\ next \notin held /\ next \in B
      /\ \A x \in F : (prev # Null /\ x <= prev) \/ (next # Null /\ next <= x)
      /\ \A x \in F : x \in B
      /\ jn => next # Null /\ ListEnd(a) = next
      /\ jp => prev # Null /\ ListEnd(prev) = a
  BY <1>1 DEF Gives, ListTyped, JoinsNext, JoinsPrev
<1>6. /\ size = IF jn THEN mem[a] + mem[next] ELSE mem[a]
      /\ link = IF jn THEN ListNext(next) ELSE next
      /\ mem'[a + 1] = link /\ mem'[a] # SL!This
      /\ mem'[cur] = IF jp THEN mem[prev] + size ELSE size
      /\ mem'[cur + 1] = link
      /\ ~jp /\ prev # Null => mem'[prev + 1] = a
      /\ head' = IF prev = Null THEN a ELSE head
  BY <1>0 DEF Gives, JoinedSize, JoinedNext
<1>7. G = (IF jp THEN F ELSE F \cup {a}) \ (IF jn THEN {next} ELSE {})
  BY DEF Joined
<1>8. ASSUME NEW x \in SL!Addr, x # a, x # a + 1, prev # Null => x # prev + 1, jp => x # prev
      PROVE  mem'[x] = mem[x]
  BY <1>8 DEF Gives
<1> HIDE DEF jn, jp, size, link
<1>9. ASSUME NEW x \in B, x # a
      PROVE  /\ ~(jp /\ x = prev) => mem'[x] = mem[x]
             /\ x # prev => mem'[x + 1] = mem[x + 1]
  <2>1. x # a + 1 /\ x + 1 # a /\ x + 1 # a + 1
    BY <1>3, <1>4, <1>5, <1>9
  <2>2. prev # Null => x # prev + 1 /\ (x # prev => x + 1 # prev + 1 /\ x + 1 # prev)
    BY <1>3, <1>4, <1>5, <1>9
  <2>3. x \in SL!Addr /\ x + 1 \in SL!Addr
    BY <1>3
  <2>4. ~(jp /\ x = prev) => mem'[x] = mem[x]
    BY <1>8, <1>9, <2>1, <2>2, <2>3
  <2>5. x # prev => mem'[x + 1] = mem[x + 1]
    BY <1>5, <1>8, <1>9, <2>1, <2>2, <2>3
  <2> QED  BY <2>4, <2>5
<1>10. cur \in G /\ cur \in B /\ cur # next /\ cur = IF jp THEN prev ELSE a
  BY <1>0, <1>3, <1>5, <1>7
<1>11. /\ ListEnd(cur)' = IF jn THEN ListEnd(next) ELSE ListEnd(a)
       /\ mem'[cur] \in Nat /\ mem'[cur] >= 2
  BY <1>0, <1>3, <1>5, <1>6, <1>10 DEF ListEnd
<1>12. \A x \in B : x # a /\ x # cur => mem'[x] = mem[x] /\ ListEnd(x)' = ListEnd(x)
  BY <1>0, <1>9, <1>10 DEF ListEnd
<1>13. \A x : x \in G \cup held' <=> x = cur \/ (x \in B /\ x # a /\ (jn => x # next))
  <2>1. \A x : x \in G <=> (x \in F \/ (~jp /\ x = a)) /\ (jn => x # next)
    BY <1>7
  <2>2. jn => a # next
    BY <1>3, <1>5
  <2> QED  BY <1>5, <1>10, <2>1, <2>2
<1>14. ListTyped(G)'
  <2>1. mem' \in [SL!Addr -> Int] /\ fit' \in SL!FitModes
    BY <1>1 DEF ListTyped, Gives
  <2>2. G \subseteq SL!Addr /\ held' \subseteq SL!Addr /\ G \cap held' = {}
    BY <1>1, <1>3, <1>5, <1>7 DEF ListTyped
  <2>3. \A x \in G \cup held' : mem'[x] >= 2 /\ ListEnd(x)' <= ListSize
    BY <1>3, <1>5, <1>11, <1>12, <1>13
  <2> QED  BY <2>1, <2>2, <2>3 DEF ListTyped
<1>15. ListTiles(G)'
  <2>1. ASSUME NEW x \in G \cup held', NEW y \in G \cup held', x < y
        PROVE  ListEnd(x)' <= y
    <3>1. x \in B /\ y \in B /\ (jn => x # next /\ y # next)
          /\ (x # cur => x # a) /\ (y # cur => y # a)
      BY <1>10, <1>13
    <3>2. CASE x = cur
      <4>1. y # a
        BY <1>3, <1>5, <1>10, <2>1, <3>1, <3>2
      <4>2. ListEnd(a) <= y
        BY <1>3, <1>4, <1>5, <1>10, <2>1, <3>1, <3>2, <4>1
      <4>3. jn => ListEnd(next) <= y
        BY <1>3, <1>4, <1>5, <3>1, <4>2
      <4> QED  BY <1>11, <3>2, <4>2, <4>3
    <3>3. CASE x # cur
      BY <1>1, <1>12, <2>1, <3>1, <3>3 DEF ListTiles
    <3> QED  BY <3>2, <3>3
  <2>2. 0 \in G \cup held'
    <3>1. 0 = a => ~jp
      BY <1>3, <1>5
    <3>2. jn => next # 0
      BY <1>3, <1>5
    <3> QED  BY <1>1, <1>10, <1>13, <3>1, <3>2 DEF ListTiles
  <2>3. ASSUME NEW x \in G \cup held'
        PROVE  ListEnd(x)' = ListSize \/ ListEnd(x)' \in G \cup held'
    <3>1. \A y \in B : ListEnd(y) = ListSize \/ ListEnd(y) \in B
      BY <1>1 DEF ListTiles
    <3>2. CASE x = cur
      <4>1. ListEnd(x)' = ListSize \/ (ListEnd(x)' \in B /\ ListEnd(x)' # a
                                       /\ (jn => ListEnd(x)' # next))
        BY <1>3, <1>5, <1>11, <3>1, <3>2
      <4> QED  BY <1>13, <4>1
    <3>3. CASE x # cur
      <4>1. x \in B /\ x # a /\ (jn => x # next) /\ ListEnd(x)' = ListEnd(x)
        BY <1>10, <1>12, <1>13, <3>3
      <4>2. jn => ListEnd(x) # next
        BY <1>3, <1>4, <1>5, <4>1
      <4>3. jp => ListEnd(x) # a
        BY <1>3, <1>4, <1>5, <1>10, <3>3, <4>1
      <4> QED  BY <1>10, <1>13, <3>1, <4>1, <4>2, <4>3
    <3> QED  BY <3>2, <3>3
  <2> QED  BY <2>1, <2>2, <2>3 DEF ListTiles
<1>16. ListLinks(G)'
  <2>1. \A x : x \in G <=> (x \in F \/ (~jp /\ x = a)) /\ (jn => x # next)
    BY <1>7
  <2>2. \A x \in F : x \in Nat
    BY <1>3
  <2>11. /\ prev # Null => prev \in F /\ prev \in Nat /\ prev < a
         /\ next # Null => next \in F /\ next \in Nat /\ a < next
    BY <1>3, <1>5
  <2>12. \A x \in F : (prev # Null /\ x <= prev) \/ (next # Null /\ next <= x)
    BY <1>5
  <2>13. (jn => next # Null) /\ (jp => prev # Null) /\ a \notin F
    BY <1>5
  <2>3. a \in Nat /\ a # Null
    BY <1>3, <1>5
  <2>4. \A x \in F : IF ListNext(x) = Null THEN \A y \in F : y <= x
                     ELSE /\ ListNext(x) \in F /\ x < ListNext(x)
                          /\ \A y \in F : y <= x \/ ListNext(x) <= y
    BY <1>1 DEF ListLinks
  <2>5. IF head' = Null THEN G = {} ELSE head' \in G /\ \A x \in G : head' <= x
    <3>1. CASE prev = Null
      <4>1. head' = a /\ a \in G
        BY <1>5, <1>6, <1>10, <3>1
      <4>2. \A x \in F : a <= x
        BY <2>2, <2>3, <2>11, <2>12, <3>1
      <4> QED  BY <2>1, <2>3, <4>1, <4>2
    <3>2. CASE prev # Null
      <4>1. head' = head /\ head \in F /\ head # Null /\ \A x \in F : head <= x
        BY <1>1, <1>5, <1>6, <3>2 DEF ListLinks
      <4>2. head <= prev /\ head < a /\ head \in Nat /\ (next # Null => head < next)
        BY <2>2, <2>3, <2>11, <3>2, <4>1
      <4>3. jn => head # next
        BY <2>11, <2>13, <4>2
      <4>4. head' \in G
        BY <2>1, <4>1, <4>3
      <4>5. ASSUME NEW x \in G  PROVE head' <= x
        <5>1. x \in F \/ x = a
          BY <2>1
        <5>2. head <= a
          BY <2>3, <4>2
        <5> QED  BY <4>1, <5>1, <5>2
      <4> QED  BY <4>1, <4>4, <4>5
    <3> QED  BY <3>1, <3>2
  <2>6. ListNext(cur)' = link /\ (~jp /\ prev # Null => ListNext(prev)' = a)
    BY <1>6 DEF ListNext
  <2>7. IF link = Null THEN \A x \in G : x <= cur
        ELSE link \in G /\ cur < link /\ (\A x \in G : x <= cur \/ link <= x)
    <3>1. prev # Null => prev <= cur /\ cur \in Nat
      BY <1>5, <1>10, <2>2, <2>3
    <3>2. cur \in Nat /\ cur <= a
      BY <1>5, <1>10, <2>2, <2>3
    <3>3. CASE jn
      <4>1. next \in F /\ next \in Nat /\ a < next /\ link = ListNext(next)
        BY <1>5, <1>6, <2>2, <3>3
      <4>2. \A x \in G : x <= cur \/ (x \in F /\ x \in Nat /\ next < x)
        BY <1>5, <1>10, <2>1, <2>2, <2>3, <3>1, <3>2, <3>3, <4>1
      <4>3. IF link = Null THEN \A y \in F : y <= next
            ELSE link \in F /\ next < link /\ (\A y \in F : y <= next \/ link <= y)
        BY <2>4, <4>1
      <4>4. CASE link = Null
        BY <4>1, <4>2, <4>3, <4>4
      <4>5. CASE link # Null
        <5>1. link \in F /\ link \in Nat /\ next < link
          BY <2>2, <4>3, <4>5
        <5>2. link \in G /\ cur < link
          BY <2>1, <2>3, <3>2, <4>1, <5>1
        <5>3. ASSUME NEW x \in G  PROVE x <= cur \/ link <= x
          BY <4>1, <4>2, <4>3, <4>5
        <5> QED  BY <4>5, <5>2, <5>3
      <4> QED  BY <4>4, <4>5
    <3>4. CASE ~jn
      <4>1. link = next
        BY <1>6, <3>4
      <4>2. CASE next = Null
        <5>1. \A x \in F : x <= cur
          BY <1>5, <2>2, <3>1, <4>2
        <5> QED  BY <1>10, <2>1, <2>3, <4>1, <4>2, <5>1, <3>2
      <4>3. CASE next # Null
        <5>1. next \in F /\ next \in Nat /\ a < next
          BY <1>5, <2>2, <4>3
        <5>2. next \in G /\ cur < next
          BY <2>1, <2>3, <3>2, <3>4, <5>1
        <5>3. \A x \in F : x <= cur \/ next <= x
          BY <1>5, <2>2, <3>1
        <5> QED  BY <1>10, <2>1, <3>2, <4>1, <4>3, <5>2, <5>3
      <4> QED  BY <4>2, <4>3
    <3> QED  BY <3>3, <3>4
  <2>8. ASSUME ~jp, prev # Null
        PROVE  a \in G /\ prev < a /\ \A x \in G : x <= prev \/ a <= x
    <3>1. a \in G /\ prev < a
      BY <1>5, <1>10, <2>8
    <3>2. \A x \in F : x <= prev \/ a <= x
      BY <2>2, <2>3, <2>8, <2>11, <2>12
    <3> QED  BY <2>1, <2>3, <3>1, <3>2
  <2>9. ASSUME NEW x \in G, x # cur, x # prev
        PROVE  /\ ListNext(x)' = ListNext(x)
               /\ IF ListNext(x) = Null THEN \A y \in G : y <= x
                  ELSE /\ ListNext(x) \in G /\ x < ListNext(x)
                       /\ \A y \in G : y <= x \/ ListNext(x) <= y
    <3>1. x \in F /\ x # a /\ x \in Nat /\ (jn => x # next)
      BY <1>5, <1>10, <2>1, <2>2, <2>9
    <3>2. ListNext(x)' = ListNext(x)
      BY <1>5, <1>9, <2>9, <3>1 DEF ListNext
    <3>3. (prev # Null /\ x < prev) \/ (next # Null /\ next <= x)
      BY <2>2, <2>9, <2>11, <2>12, <3>1
    <3>4. CASE ListNext(x) = Null
      <4>1. \A y \in F : y <= x
        BY <2>4, <3>1, <3>4
      <4>2. a < x
        BY <2>2, <2>3, <2>11, <3>1, <3>3, <4>1
      <4> QED  BY <2>1, <2>3, <3>1, <3>2, <3>4, <4>1, <4>2
    <3>5. CASE ListNext(x) # Null
      <4>1. ListNext(x) \in F /\ x < ListNext(x) /\ ListNext(x) \in Nat
            /\ \A y \in F : y <= x \/ ListNext(x) <= y
        BY <2>2, <2>4, <3>1, <3>5
      <4>2. prev # Null /\ x < prev => ListNext(x) <= prev /\ prev < a /\ prev \in Nat
        BY <2>2, <2>11, <3>1, <4>1
      <4>3. next # Null /\ next <= x => a < x /\ next \in Nat
        BY <2>2, <2>3, <2>11, <3>1
      <4>4. a <= x \/ ListNext(x) <= a
        BY <2>3, <3>1, <3>3, <4>1, <4>2, <4>3
      <4>5. jn => ListNext(x) # next
        BY <2>2, <2>3, <2>11, <2>13, <3>1, <3>3, <4>1, <4>2, <4>3
      <4> QED  BY <2>1, <3>2, <3>5, <4>1, <4>4, <4>5
    <3> QED  BY <3>4, <3>5
  <2>10. ASSUME NEW x \in G
         PROVE  IF ListNext(x)' = Null THEN \A y \in G : y <= x
                ELSE /\ ListNext(x)' \in G /\ x < ListNext(x)'
                     /\ \A y \in G : y <= x \/ ListNext(x)' <= y
    <3>1. CASE x = cur
      BY <2>6, <2>7, <3>1
    <3>2. CASE x # cur /\ x = prev
      <4>1. ~jp /\ prev # Null
        <5>1. x # Null
          BY <2>1, <2>2, <2>3
        <5> QED  BY <1>10, <3>2, <5>1
      <4> QED  BY <2>3, <2>6, <2>8, <3>2, <4>1
    <3>3. CASE x # cur /\ x # prev
      BY <2>9, <3>3
    <3> QED  BY <3>1, <3>2, <3>3
  <2> QED  BY <2>5, <2>10 DEF ListLinks
<1>17. ListMerged(G)'
  <2> SUFFICES ASSUME NEW x \in G  PROVE ListEnd(x)' \notin G
    BY DEF ListMerged
  <2>1. \A y \in F : ListEnd(y) \notin F
    BY <1>1 DEF ListMerged
  <2>2. CASE x = cur
    <3>1. ASSUME ~jn, ListEnd(a) \in G  PROVE FALSE
      <4>1. ListEnd(a) \in F /\ ListEnd(a) > a
        BY <1>3, <1>5, <1>7, <3>1
      <4>2. next # Null /\ next <= ListEnd(a)
        BY <1>3, <1>5, <4>1
      <4>3. ListEnd(a) <= next
        BY <1>3, <1>4, <1>5, <4>2
      <4>4. ListEnd(a) = next
        BY <1>3, <1>5, <4>2, <4>3
      <4> QED  BY <3>1, <4>2, <4>4 DEF jn, JoinsNext
    <3>2. ASSUME jn, ListEnd(next) \in G  PROVE FALSE
      BY <1>3, <1>5, <1>7, <2>1, <3>2
    <3> QED  BY <1>11, <2>2, <3>1, <3>2
  <2>3. CASE x # cur
    <3>1. x \in F /\ x # a /\ ListEnd(x)' = ListEnd(x) /\ (jp => x # prev)
      BY <1>5, <1>7, <1>10, <1>12, <2>3
    <3>2. ASSUME ListEnd(x) = a, ~jp  PROVE FALSE
      <4>1. x < a
        BY <1>3, <1>5, <3>1, <3>2
      <4>2. prev # Null /\ x <= prev
        BY <1>3, <1>5, <3>1, <4>1
      <4>3. x = prev
        BY <1>3, <1>4, <1>5, <3>1, <3>2, <4>2
      <4> QED  BY <3>2, <4>2, <4>3 DEF jp, JoinsPrev
    <3> QED  BY <1>5, <1>7, <2>1, <3>1, <3>2
  <2> QED  BY <2>2, <2>3
<1>18. ListMarked'
  <2> SUFFICES ASSUME NEW x \in SL!Addr, x # 0
               PROVE  mem'[x] = SL!This <=> x - 1 \in held'
    BY DEF ListMarked
  <2>1. x \in Nat /\ a \in Nat /\ (prev # Null => prev \in Nat)
    BY <1>2, <1>3, <1>5
  <2>2. link # SL!This
    <3>1. link = Null \/ link \in F
      BY <1>1, <1>5, <1>6 DEF ListLinks
    <3> QED  BY <1>3, <3>1
  <2>3. ASSUME NEW y \in B  PROVE y - 1 \notin B
    <3>1. ASSUME y - 1 \in B  PROVE FALSE
      <4>1. y \in Nat /\ y - 1 \in Nat
        BY <1>3, <3>1
      <4>2. ListEnd(y - 1) <= y \/ ListEnd(y) <= y - 1
        BY <1>4, <3>1, <4>1
      <4>3. ListEnd(y - 1) >= y - 1 + 2 /\ ListEnd(y) >= y + 2
            /\ ListEnd(y) \in Nat /\ ListEnd(y - 1) \in Nat
        BY <1>3, <3>1
      <4> QED  BY <4>1, <4>2, <4>3
    <3> QED  BY <3>1
  <2>4. CASE x = a
    <3>1. a - 1 \notin held
      BY <1>5, <2>3
    <3> QED  BY <1>5, <1>6, <2>4, <3>1
  <2>5. CASE x = a + 1
    <3>1. x - 1 = a
      BY <2>1, <2>5
    <3> QED  BY <1>5, <1>6, <2>2, <2>5, <3>1
  <2>6. CASE prev # Null /\ x = prev + 1
    <3>1. x - 1 = prev /\ prev \notin held
      BY <1>5, <2>1, <2>6
    <3>2. mem'[x] = link \/ mem'[x] = a
      BY <1>6, <1>10, <2>6
    <3> QED  BY <1>5, <2>1, <2>2, <3>1, <3>2
  <2>7. CASE jp /\ x = prev
    <3>1. prev - 1 \notin held
      BY <1>5, <2>3, <2>7
    <3>2. mem'[x] # SL!This
      BY <1>10, <1>11, <2>7
    <3> QED  BY <1>5, <2>7, <3>1, <3>2
  <2>8. CASE x # a /\ x # a + 1 /\ (prev # Null => x # prev + 1) /\ (jp => x # prev)
    <3>1. mem'[x] = mem[x] /\ x - 1 # a
      BY <1>8, <2>1, <2>8
    <3> QED  BY <1>1, <1>5, <3>1 DEF ListMarked
  <2> QED  BY <2>4, <2>5, <2>6, <2>7, <2>8
<1> QED  BY <1>14, <1>15, <1>16, <1>17, <1>18 DEF ListInv

-----------------------------------------------------------------------------
(* FreeList walks the whole list.                                          *)
Links(F) == [a \in F |-> ListNext(a)]

(* The list of the free blocks is a whole walk.                            *)
LEMMA FreeWalk ==
  ASSUME NEW F, ListInv(F)
  PROVE  /\ F \in SUBSET Nat /\ Chain(F, head, Links(F))
         /\ Walk(SL!FreeList, F, head, Links(F)) /\ Ended(SL!FreeList, Links(F))
<1>1. ListSize \in Nat /\ F \in SUBSET (0 .. ListSize) /\ F \in SUBSET Nat
  BY SizesAssumption DEF ListInv, ListTyped, SL!Addr
<1>2. Chain(F, head, Links(F))
  BY DEF ListInv, ListTyped, ListLinks, Chain, Links
<1>3. \A a \in F : ListNext(a) \in F \cup {Null}
  BY DEF ListInv, ListLinks
<1>4. Begun(head) \in Seq(F)
  BY DEF ListInv, ListLinks, Begun
<1>5. PICK f : f = [m \in 0 .. ListSize |->
                      IF m = 0 THEN Begun(head)
                      ELSE IF f[m - 1] = <<>> \/ ListNext(f[m - 1][Len(f[m - 1])]) = Null
                      THEN f[m - 1]
                      ELSE Append(f[m - 1], ListNext(f[m - 1][Len(f[m - 1])]))]
               /\ SL!FreeList = f[ListSize]
  <2> DEFINE D(f) == f = [m \in 0 .. ListSize |->
                      IF m = 0 THEN Begun(head)
                      ELSE IF f[m - 1] = <<>> \/ ListNext(f[m - 1][Len(f[m - 1])]) = Null
                      THEN f[m - 1]
                      ELSE Append(f[m - 1], ListNext(f[m - 1][Len(f[m - 1])]))]
             step == [l \in Seq(F) |-> IF l = <<>> \/ ListNext(l[Len(l)]) = Null THEN l
                                       ELSE Append(l, ListNext(l[Len(l)]))]
  <2>1. step \in [Seq(F) -> Seq(F)]
    <3>1. ASSUME NEW l \in Seq(F), l # <<>>, ListNext(l[Len(l)]) # Null
          PROVE  Append(l, ListNext(l[Len(l)])) \in Seq(F)
      <4>1. l[Len(l)] \in F
        BY <3>1
      <4>2. ListNext(l[Len(l)]) \in F
        BY <1>3, <3>1, <4>1
      <4> QED  BY <4>2
    <3> QED  BY <3>1
  <2> HIDE DEF step
  <2>2. PICK f \in [0 .. ListSize -> Seq(F)] : Goes(f, ListSize, Begun(head), step)
    BY <1>1, <1>4, <2>1, LoopGoes
  <2>3. D(f)
    <3>1. ASSUME NEW m \in 0 .. ListSize, m # 0
          PROVE  f[m] = IF f[m - 1] = <<>> \/ ListNext(f[m - 1][Len(f[m - 1])]) = Null
                        THEN f[m - 1]
                        ELSE Append(f[m - 1], ListNext(f[m - 1][Len(f[m - 1])]))
      <4>1. f[m - 1] \in Seq(F) /\ f[m] = step[f[m - 1]]
        BY <1>1, <2>2, <3>1 DEF Goes
      <4> QED  BY <4>1 DEF step
    <3>2. f[0] = Begun(head) /\ f = [m \in 0 .. ListSize |-> f[m]]
      BY <1>1, <2>2 DEF Goes
    <3> QED  BY <3>1, <3>2
  <2>4. SL!FreeList = (CHOOSE g : D(g))[ListSize]
    BY DEF SL!FreeList, SL!NextBlock, ListNext, Begun, Null, BT!Null, SL!Null
  <2> HIDE DEF D
  <2>5. D(CHOOSE g : D(g))
    BY <2>3
  <2> QED  BY <2>4, <2>5 DEF D
<1>6. f[0] = Begun(head)
  BY <1>1, <1>5
<1>7. ASSUME NEW m \in 1 .. ListSize, f[m - 1] \in Seq(F)
      PROVE  f[m] = Longer(f[m - 1], Links(F))
  <2> DEFINE l == f[m - 1]
  <2>1. f[m] = IF l = <<>> \/ ListNext(l[Len(l)]) = Null THEN l
               ELSE Append(l, ListNext(l[Len(l)]))
    <3>1. m \in 0 .. ListSize /\ m # 0
      BY <1>1
    <3> QED  BY <1>5, <3>1
  <2>2. l # <<>> => Links(F)[l[Len(l)]] = ListNext(l[Len(l)])
    BY <1>7 DEF Links
  <2> HIDE DEF l
  <2>3. f[m] = Longer(l, Links(F))
    BY <2>1, <2>2 DEF Longer, Ended
  <2> QED  BY <2>3 DEF l
<1> QED  BY <1>1, <1>2, <1>5, <1>6, <1>7, LoopWalks

(* It has every free block, and each one leads to the next.                *)
LEMMA FreeListed ==
  ASSUME NEW F, ListInv(F)
  PROVE  /\ SL!FreeList \in Seq(F) /\ Len(SL!FreeList) \in Nat
         /\ DOMAIN SL!FreeList = 1 .. Len(SL!FreeList)
         /\ SL!Free = F
         /\ head = IF SL!FreeList = <<>> THEN Null ELSE SL!FreeList[1]
         /\ \A i \in DOMAIN SL!FreeList :
              ListNext(SL!FreeList[i]) =
                IF i = Len(SL!FreeList) THEN Null ELSE SL!FreeList[i + 1]
<1> DEFINE l == SL!FreeList
<1>0. PICK link : link = Links(F)
  OBVIOUS
<1>1. /\ F \in SUBSET Nat /\ Chain(F, head, link)
      /\ Walk(l, F, head, link) /\ Ended(l, link)
  BY <1>0, FreeWalk
<1> HIDE DEF l
<1>2. /\ l \in Seq(F) /\ Len(l) \in Nat /\ DOMAIN l = 1 .. Len(l)
      /\ \A x \in F : \E i \in DOMAIN l : l[i] = x
      /\ \A i, j \in DOMAIN l : i < j => l[i] < l[j]
      /\ head = IF l = <<>> THEN Null ELSE l[1]
      /\ \A i \in DOMAIN l : link[l[i]] = IF i = Len(l) THEN Null ELSE l[i + 1]
  BY <1>1, WalkLists DEF Null, BT!Null
<1>3. \A i \in DOMAIN l : l[i] \in F
  BY <1>2
<1>4. SL!Free = F
  <2>1. SL!Free = {l[i] : i \in DOMAIN l}
    BY DEF SL!Free, l
  <2> QED  BY <1>2, <1>3, <2>1
<1>5. \A i \in DOMAIN l : ListNext(l[i]) = IF i = Len(l) THEN Null ELSE l[i + 1]
  BY <1>0, <1>2, <1>3 DEF Links
<1> QED  BY <1>2, <1>4, <1>5 DEF l

(* The greatest member, where no member is above n.                        *)
LEMMA GreatestExists ==
  ASSUME NEW n \in Nat, NEW S \in SUBSET (0 .. n), S # {}
  PROVE  \E k \in S : \A l \in S : k >= l
<1> DEFINE T == {n - k : k \in S}
<1>1. T \in SUBSET Nat /\ T # {}
  <2>1. \A k \in S : n - k \in Nat
    <3>1. \A k \in S : k \in 0 .. n
      OBVIOUS
    <3> QED  BY <3>1
  <2>2. T \in SUBSET Nat
    BY <2>1
  <2> QED  BY <2>2
<1> HIDE DEF T
<1>2. PICK t \in T : \A u \in T : t <= u
  BY <1>1, LeastExists
<1>3. PICK k \in S : t = n - k
  BY DEF T
<1>4. \A l \in S : n - k <= n - l
  BY <1>2, <1>3 DEF T
<1>5. \A l \in S : k >= l
  BY <1>4
<1> QED  BY <1>5

-----------------------------------------------------------------------------
(* Allocate takes a block from the list that is large enough.              *)
LEMMA AllocateTakes ==
  ASSUME NEW F, ListInv(F), NEW req \in 0 .. ListMaxReq, SL!Allocate(req)
  PROVE  \E target, size, prev : \E whole \in BOOLEAN :
           Takes(F, target, size, whole, prev) /\ avail' = avail - size
<1> USE DEF Null, BT!Null, SL!Null, SL!Meta, SL!This
<1> DEFINE l == SL!FreeList
           free == [i \in DOMAIN l |-> SL!BlockSize(l[i])]
           need == req + 2
           i == SL!Choice(free, need, fit)
           target == l[i]
           prev == IF i = 1 THEN Null ELSE l[i - 1]
           whole == SL!TakesWhole(need, mem[target])
           size == IF whole THEN mem[target] ELSE need
           next == IF whole THEN ListNext(target) ELSE target + need
           split == IF whole THEN mem
                    ELSE [mem EXCEPT ![target + need] = mem[target] - need,
                                     ![target + need + 1] = ListNext(target)]
           linked == IF i = 1 THEN split ELSE [split EXCEPT ![l[i - 1] + 1] = next]
<1>1. /\ SL!Fitting(free, need) # {}
      /\ mem' = [linked EXCEPT ![target] = size, ![target + 1] = SL!This]
      /\ head' = IF i = 1 THEN next ELSE head
      /\ held' = held \cup {target}
      /\ fit' = fit /\ avail' = avail - size
  BY DEF SL!Allocate, SL!BlockSize, SL!NextBlock, SL!Taken, ListNext
<1>2. /\ l \in Seq(F) /\ Len(l) \in Nat /\ DOMAIN l = 1 .. Len(l)
      /\ head = IF l = <<>> THEN Null ELSE l[1]
      /\ \A j \in DOMAIN l : ListNext(l[j]) = IF j = Len(l) THEN Null ELSE l[j + 1]
  BY FreeListed
<1>3. ListTyped(F) /\ ListTiles(F) /\ ListLinks(F)
  BY DEF ListInv
<1>4. ListSize \in Nat /\ SL!Addr = 0 .. ListSize - 1 /\ req \in Nat /\ need \in Nat
  BY SizesAssumption DEF SL!Addr
<1>5. \A x \in F : /\ x \in Nat /\ mem[x] \in Nat /\ mem[x] >= 2
                   /\ x + mem[x] <= ListSize /\ x \in SL!Addr /\ x + 1 \in SL!Addr
                   /\ ListNext(x) \in F \cup {Null} /\ ListNext(x) \in Int
  <2>1. \A x \in F : x \in SL!Addr /\ mem[x] \in Int /\ mem[x] >= 2 /\ x + mem[x] <= ListSize
    BY <1>3 DEF ListTyped, ListEnd
  <2>2. \A x \in F : ListNext(x) \in F \cup {Null}
    BY <1>3 DEF ListLinks
  <2> QED  BY <1>4, <2>1, <2>2
<1>6. i \in SL!Fitting(free, need)
  <2>1. SL!Choice(free, need, fit) = BT!Choice(free, need, fit)
    BY DEF SL!Choice, BT!Choice, SL!Fitting, BT!Fitting, SL!Min, BT!Min
  <2>2. SL!Fitting(free, need) = BT!Fitting(free, need)
    BY DEF SL!Fitting, BT!Fitting
  <2>3. fit \in BT!FitModes
    BY <1>3 DEF ListTyped, SL!FitModes, BT!FitModes
  <2>4. DOMAIN free \subseteq Nat
    BY <1>2
  <2>5. \A j \in DOMAIN free : free[j] \in Nat /\ free[j] <= ListSize
    <3>1. \A j \in DOMAIN l : l[j] \in F
      BY <1>2
    <3>2. \A j \in DOMAIN l : mem[l[j]] \in Nat /\ mem[l[j]] <= ListSize
      BY <1>4, <1>5, <3>1
    <3> QED  BY <3>2 DEF SL!BlockSize
  <2> HIDE DEF free, need
  <2>6. BT!Choice(free, need, fit) \in BT!Fitting(free, need)
    BY <1>1, <1>4, <2>2, <2>3, <2>4, <2>5, ChoiceFits
  <2> QED  BY <2>1, <2>2, <2>6
<1> HIDE DEF i
<1>7. i \in DOMAIN l /\ target \in F /\ mem[target] >= need
  <2>1. i \in DOMAIN l /\ free[i] >= need
    BY <1>6 DEF SL!Fitting
  <2> QED  BY <1>2, <2>1 DEF SL!BlockSize
<1>8. IF prev = Null THEN i = 1 /\ head = target
      ELSE i # 1 /\ prev \in F /\ ListNext(prev) = target
  <2>1. CASE i = 1
    BY <1>2, <1>7, <2>1
  <2>2. CASE i # 1
    <3>1. i - 1 \in DOMAIN l /\ i - 1 # Len(l) /\ (i - 1) + 1 = i
      BY <1>2, <1>7, <2>2
    <3>2. prev \in F /\ ListNext(prev) = target
      BY <1>2, <2>2, <3>1
    <3> QED  BY <1>5, <2>2, <3>2
  <2> QED  BY <2>1, <2>2
<1>9. linked = IF prev = Null THEN split ELSE [split EXCEPT ![prev + 1] = next]
  BY <1>8
<1>10. head' = IF prev = Null THEN next ELSE head
  BY <1>1, <1>8
<1> HIDE DEF l, free, target, prev
<1>11. whole \in BOOLEAN /\ (IF whole THEN size = mem[target] ELSE size + 2 <= mem[target])
       /\ size \in Nat /\ size >= 2
  BY <1>4, <1>5, <1>7 DEF SL!TakesWhole
<1>12. ~whole => target + need \in SL!Addr /\ target + need + 1 \in SL!Addr
                 /\ need >= 2 /\ size = need
  <2> SUFFICES ASSUME ~whole
               PROVE  target + need \in SL!Addr /\ target + need + 1 \in SL!Addr
                      /\ need >= 2 /\ size = need
    OBVIOUS
  <2>1. size = need /\ need >= 2 /\ need + 2 <= mem[target]
    BY <1>4, <1>11
  <2>2. target + mem[target] <= ListSize /\ target \in Nat /\ mem[target] \in Nat
    BY <1>5, <1>7
  <2> HIDE DEF need, whole, size
  <2> QED  BY <1>4, <2>1, <2>2
<1> HIDE DEF whole, size, need
<1>13. prev # Null => prev \in Nat /\ prev + 1 \in SL!Addr /\ prev + 2 <= target
  <2> SUFFICES ASSUME prev # Null
               PROVE  prev \in Nat /\ prev + 1 \in SL!Addr /\ prev + 2 <= target
    OBVIOUS
  <2>1. prev \in F /\ prev \in Nat /\ prev + 1 \in SL!Addr /\ target \in Nat
        /\ mem[prev] \in Nat /\ mem[prev] >= 2
    BY <1>5, <1>7, <1>8
  <2>2. prev < target
    BY <1>3, <1>8, <2>1 DEF ListLinks
  <2>3. prev + mem[prev] <= target
    BY <1>3, <1>7, <2>1, <2>2 DEF ListTiles, ListEnd
  <2> QED  BY <2>1, <2>3
<1>14. target \in Nat /\ target \in SL!Addr /\ target + 1 \in SL!Addr /\ mem[target] \in Nat
       /\ ListNext(target) \in Int
  BY <1>5, <1>7
<1>15. mem \in [SL!Addr -> Int] /\ \A x \in SL!Addr : x \in Int
  BY <1>3, <1>4 DEF ListTyped
<1>16. next \in Int /\ (~whole => mem[target] - need \in Int)
  BY <1>4, <1>14 DEF need
<1>17. next = IF whole THEN ListNext(target) ELSE target + size
  BY <1>12
<1> HIDE DEF next
<1>18. split \in [SL!Addr -> Int] /\ linked \in [SL!Addr -> Int]
  BY <1>9, <1>14, <1>15, <1>16
<1>19. /\ ~whole => split[target + need] = mem[target] - need
                    /\ split[target + need + 1] = ListNext(target)
       /\ \A x \in SL!Addr : (~whole => x # target + need /\ x # target + need + 1)
                             => split[x] = mem[x]
  <2>1. CASE whole
    BY <2>1
  <2>2. CASE ~whole
    <3>1. target + need # target + need + 1
      BY <1>12, <1>15, <2>2
    <3> QED  BY <1>12, <1>15, <2>2, <3>1
  <2> QED  BY <2>1, <2>2
<1> HIDE DEF split
<1>20. /\ prev # Null => linked[prev + 1] = next
       /\ \A x \in SL!Addr : (prev # Null => x # prev + 1) => linked[x] = split[x]
  BY <1>9, <1>13, <1>18
<1> HIDE DEF linked
<1>21. /\ mem' \in [SL!Addr -> Int]
       /\ mem'[target] = size /\ mem'[target + 1] = -2
       /\ \A x \in SL!Addr : x # target /\ x # target + 1 => mem'[x] = linked[x]
  BY <1>1, <1>11, <1>14, <1>18
<1>22. prev # Null => mem'[prev + 1] = next
  BY <1>13, <1>14, <1>20, <1>21
<1>23. ~whole => mem'[target + size] = mem[target] - size
                 /\ mem'[target + size + 1] = ListNext(target)
  <2> SUFFICES ASSUME ~whole
               PROVE  mem'[target + size] = mem[target] - size
                      /\ mem'[target + size + 1] = ListNext(target)
    OBVIOUS
  <2>1. need \in Nat /\ need >= 2 /\ size = need
        /\ target + need \in SL!Addr /\ target + need + 1 \in SL!Addr
    BY <1>4, <1>12 DEF need
  <2>2. target + need # target /\ target + need # target + 1
        /\ target + need + 1 # target /\ target + need + 1 # target + 1
        /\ (prev # Null => target + need # prev + 1 /\ target + need + 1 # prev + 1)
    BY <1>13, <1>14, <2>1
  <2> QED  BY <1>19, <1>20, <1>21, <2>1, <2>2
<1>24. \A x \in SL!Addr :
         /\ x # target /\ x # target + 1 /\ (prev # Null => x # prev + 1)
         /\ ~whole => x # target + size /\ x # target + size + 1
         => mem'[x] = mem[x]
  BY <1>12, <1>19, <1>20, <1>21
<1>25. Takes(F, target, size, whole, prev)
  BY <1>1, <1>7, <1>8, <1>10, <1>11, <1>17, <1>21, <1>22, <1>23, <1>24 DEF Takes
<1> QED  BY <1>1, <1>11, <1>25

(* Deallocate puts a block that is handed out back between its nearest     *)
(* neighbours in the list.                                                 *)
LEMMA DeallocateGives ==
  ASSUME NEW F, ListInv(F), NEW a \in 0 .. ListSize - SL!Meta, SL!Deallocate(a)
  PROVE  \E prev, next : Gives(F, a, prev, next)
<1> USE DEF Null, BT!Null, SL!Null, SL!Meta, SL!This
<1> DEFINE before == {f \in F : f < a + 2}
           after == F \ before
           next == IF after = {} THEN Null ELSE SL!Min(after)
           merged == SL!Released(a, next)
           prev == IF before = {} THEN Null ELSE SL!Max(before)
<1>1. ListTyped(F) /\ ListTiles(F) /\ ListLinks(F) /\ ListMarked
  BY DEF ListInv
<1>2. ListSize \in Nat /\ SL!Addr = 0 .. ListSize - 1 /\ a \in Nat
  BY SizesAssumption DEF SL!Addr
<1>3. a \in held
  <2>1. a + 1 \in SL!Addr \ {0} /\ mem[a + 1] = SL!This
    BY <1>2 DEF SL!Deallocate, SL!Accepts
  <2>2. (a + 1) - 1 = a
    BY <1>2
  <2> QED  BY <1>1, <2>1, <2>2 DEF ListMarked
<1>4. SL!Free = F
  BY FreeListed
<1>5. /\ mem' = IF before = {} THEN merged
                ELSE IF SL!Max(before) + merged[SL!Max(before)] = a
                THEN [merged EXCEPT ![SL!Max(before)] = @ + merged[a],
                                    ![SL!Max(before) + 1] = merged[a + 1]]
                ELSE [merged EXCEPT ![SL!Max(before) + 1] = a]
      /\ head' = IF before = {} THEN a ELSE head
      /\ held' = held \ {a} /\ fit' = fit
  BY <1>4 DEF SL!Deallocate
<1>6. \A x \in F \cup held : /\ x \in Nat /\ mem[x] \in Nat /\ mem[x] >= 2
                             /\ x \in SL!Addr /\ x + 1 \in SL!Addr
                             /\ ListEnd(x) \in Nat /\ ListEnd(x) = x + mem[x]
  BY <1>1, <1>2 DEF ListTyped, ListEnd
<1>7. \A x \in F : x \in Nat /\ (x + 2 <= a \/ a + 2 <= x)
  <2> SUFFICES ASSUME NEW x \in F  PROVE x \in Nat /\ (x + 2 <= a \/ a + 2 <= x)
    OBVIOUS
  <2>1. x # a /\ x \in Nat /\ mem[x] \in Nat /\ mem[a] \in Nat /\ mem[x] >= 2 /\ mem[a] >= 2
    BY <1>1, <1>3, <1>6 DEF ListTyped
  <2>2. ListEnd(x) <= a \/ ListEnd(a) <= x
    BY <1>1, <1>2, <1>3, <2>1 DEF ListTiles
  <2> QED  BY <1>2, <2>1, <2>2 DEF ListEnd
<1>8. before \in SUBSET (0 .. a + 2) /\ after \in SUBSET Nat /\ a + 2 \in Nat
  BY <1>2, <1>7
<1>9. prev # Null => prev \in F /\ prev + 2 <= a /\ (\A x \in before : x <= prev)
  <2> SUFFICES ASSUME prev # Null
               PROVE  prev \in F /\ prev + 2 <= a /\ (\A x \in before : x <= prev)
    OBVIOUS
  <2>1. before # {} /\ prev = SL!Max(before)
    OBVIOUS
  <2>2. \E k \in before : \A l \in before : k >= l
    <3> HIDE DEF before
    <3> QED  BY <1>8, <2>1, GreatestExists
  <2>3. prev \in before /\ \A l \in before : prev >= l
    <3> HIDE DEF before, prev
    <3> QED  BY <2>1, <2>2 DEF SL!Max
  <2>4. \A l \in before : l \in Nat /\ prev \in Nat
    BY <1>7, <2>3
  <2> HIDE DEF prev
  <2>5. \A x \in before : x <= prev
    BY <2>3, <2>4
  <2> QED  BY <1>2, <1>7, <2>3, <2>5
<1>10. next # Null => next \in F /\ a + 2 <= next /\ (\A x \in after : next <= x)
  <2> SUFFICES ASSUME next # Null
               PROVE  next \in F /\ a + 2 <= next /\ (\A x \in after : next <= x)
    OBVIOUS
  <2>1. after # {} /\ next = SL!Min(after)
    OBVIOUS
  <2>2. \E k \in after : \A l \in after : k <= l
    <3> HIDE DEF after
    <3> QED  BY <1>8, <2>1, LeastExists
  <2>3. next \in after /\ \A l \in after : next <= l
    <3> HIDE DEF after, next
    <3> QED  BY <2>1, <2>2 DEF SL!Min
  <2> HIDE DEF next
  <2>4. a + 2 <= next
    BY <1>2, <1>7, <2>3
  <2> QED  BY <2>3, <2>4
<1>11. (before # {} => prev # Null /\ prev = SL!Max(before)) /\ (before = {} => prev = Null)
  <2>1. ASSUME before # {}  PROVE prev # Null
    <3>1. \E k \in before : \A l \in before : k >= l
      <4> HIDE DEF before
      <4> QED  BY <1>8, <2>1, GreatestExists
    <3>2. SL!Max(before) \in before
      <4> HIDE DEF before
      <4> QED  BY <3>1 DEF SL!Max
    <3>3. \A x \in before : x # Null
      BY <1>7
    <3> QED  BY <2>1, <3>2, <3>3
  <2> QED  BY <2>1
<1>12. \A x \in F : (prev # Null /\ x <= prev) \/ (next # Null /\ next <= x)
  <2> SUFFICES ASSUME NEW x \in F
               PROVE  (prev # Null /\ x <= prev) \/ (next # Null /\ next <= x)
    OBVIOUS
  <2>1. CASE x \in before
    <3>1. before # {}
      BY <2>1
    <3> HIDE DEF before, prev
    <3> QED  BY <1>9, <1>11, <2>1, <3>1
  <2>2. CASE x \in after
    <3>1. next # Null
      <4>1. \E k \in after : \A l \in after : k <= l
        <5> HIDE DEF after
        <5> QED  BY <1>8, <2>2, LeastExists
      <4>2. SL!Min(after) \in after
        <5> HIDE DEF after
        <5> QED  BY <4>1 DEF SL!Min
      <4> QED  BY <1>7, <2>2, <4>2
    <3> HIDE DEF after, next
    <3> QED  BY <1>10, <2>2, <3>1
  <2> QED  BY <2>1, <2>2
<1>13. /\ mem' = IF prev = Null THEN merged
                 ELSE IF prev + merged[prev] = a
                 THEN [merged EXCEPT ![prev] = @ + merged[a], ![prev + 1] = merged[a + 1]]
                 ELSE [merged EXCEPT ![prev + 1] = a]
       /\ head' = IF prev = Null THEN a ELSE head
  <2> HIDE DEF before, prev, merged
  <2> QED  BY <1>5, <1>11
<1> HIDE DEF before, after, prev, next
<1>14. /\ a \in SL!Addr /\ a + 1 \in SL!Addr /\ a \in F \cup held /\ mem[a] \in Nat /\ mem[a] >= 2
       /\ prev # Null => /\ prev \in Nat /\ prev \in SL!Addr /\ prev + 1 \in SL!Addr
                         /\ mem[prev] \in Nat /\ prev \in F
       /\ next # Null => /\ next \in Nat /\ mem[next] \in Nat /\ next \in F
                         /\ ListNext(next) \in Int
  <2>1. \A x \in F : ListNext(x) \in F \cup {Null}
    BY <1>1 DEF ListLinks
  <2> QED  BY <1>3, <1>6, <1>7, <1>9, <1>10, <2>1
<1>15. /\ JoinedSize(a, next) \in Nat /\ JoinedSize(a, next) >= 2
       /\ JoinedNext(a, next) \in Int
  <2>1. next \in Int
    BY <1>14 DEF next
  <2> QED  BY <1>14, <2>1 DEF JoinedSize, JoinedNext, JoinsNext
<1>16. mem \in [SL!Addr -> Int] /\ a # a + 1
  BY <1>1, <1>2 DEF ListTyped
<1>17. /\ merged \in [SL!Addr -> Int]
       /\ merged[a] = JoinedSize(a, next) /\ merged[a + 1] = JoinedNext(a, next)
       /\ \A x \in SL!Addr : x # a /\ x # a + 1 => merged[x] = mem[x]
  <2>1. CASE JoinsNext(a, next)
    <3>1. merged = [mem EXCEPT ![a] = mem[a] + mem[next], ![a + 1] = ListNext(next)]
      BY <2>1, <1>14, <1>16 DEF SL!Released, SL!BlockSize, SL!NextBlock, JoinsNext, ListEnd, ListNext
    <3> HIDE DEF merged
    <3>2. next # Null
      BY <2>1 DEF JoinsNext
    <3>3. mem[a] + mem[next] = JoinedSize(a, next) /\ ListNext(next) = JoinedNext(a, next)
      BY <2>1 DEF JoinedSize, JoinedNext
    <3> QED  BY <1>14, <1>15, <1>16, <3>1, <3>3
  <2>2. CASE ~JoinsNext(a, next)
    <3>1. merged = [mem EXCEPT ![a + 1] = next]
      BY <2>2 DEF SL!Released, SL!BlockSize, JoinsNext, ListEnd
    <3> HIDE DEF merged
    <3>2. mem[a] = JoinedSize(a, next) /\ next = JoinedNext(a, next)
      BY <2>2 DEF JoinedSize, JoinedNext
    <3> QED  BY <1>14, <1>15, <1>16, <3>1, <3>2
  <2> QED  BY <2>1, <2>2
<1> HIDE DEF merged
<1>18. prev # Null => /\ prev # a /\ prev # a + 1 /\ prev + 1 # a /\ prev + 1 # a + 1
                      /\ prev # prev + 1 /\ merged[prev] = mem[prev]
  <2> SUFFICES ASSUME prev # Null
               PROVE  /\ prev # a /\ prev # a + 1 /\ prev + 1 # a /\ prev + 1 # a + 1
                      /\ prev # prev + 1 /\ merged[prev] = mem[prev]
    OBVIOUS
  <2>1. prev \in Nat /\ prev + 2 <= a
    BY <1>9, <1>14
  <2>2. prev # a /\ prev # a + 1 /\ prev + 1 # a /\ prev + 1 # a + 1 /\ prev # prev + 1
    BY <1>2, <2>1
  <2> QED  BY <1>14, <1>17, <2>2
<1>19. JoinsPrev(a, prev) <=> prev # Null /\ prev + merged[prev] = a
  BY <1>18 DEF JoinsPrev, ListEnd
<1>20. /\ mem' \in [SL!Addr -> Int]
       /\ mem'[a] = JoinedSize(a, next) /\ mem'[a + 1] = JoinedNext(a, next)
       /\ IF JoinsPrev(a, prev)
          THEN mem'[prev] = mem[prev] + JoinedSize(a, next)
               /\ mem'[prev + 1] = JoinedNext(a, next)
          ELSE prev # Null => mem'[prev + 1] = a
       /\ \A x \in SL!Addr :
            /\ x # a /\ x # a + 1 /\ (prev # Null => x # prev + 1)
            /\ JoinsPrev(a, prev) => x # prev
            => mem'[x] = mem[x]
  <2>1. CASE prev = Null
    <3>1. mem' = merged /\ ~JoinsPrev(a, prev)
      BY <1>13, <2>1 DEF JoinsPrev
    <3> QED  BY <1>17, <2>1, <3>1
  <2>2. CASE JoinsPrev(a, prev)
    <3>1. prev # Null
      BY <2>2 DEF JoinsPrev
    <3>2. mem' = [merged EXCEPT ![prev] = merged[prev] + merged[a],
                                ![prev + 1] = merged[a + 1]]
      BY <1>13, <1>14, <1>17, <1>19, <2>2, <3>1
    <3> QED  BY <1>14, <1>15, <1>17, <1>18, <2>2, <3>1, <3>2
  <2>3. CASE prev # Null /\ ~JoinsPrev(a, prev)
    <3>1. mem' = [merged EXCEPT ![prev + 1] = a]
      BY <1>13, <1>19, <2>3
    <3> QED  BY <1>2, <1>14, <1>17, <1>18, <2>3, <3>1
  <2> QED  BY <2>1, <2>2, <2>3
<1>21. Gives(F, a, prev, next)
  <2>1. prev \in F \cup {Null} /\ (prev # Null => prev < a)
    BY <1>2, <1>9, <1>14
  <2>2. next \in F \cup {Null} /\ (next # Null => a < next)
    BY <1>2, <1>10, <1>14
  <2>3. mem'[a] # -2
    BY <1>15, <1>20
  <2> QED  BY <1>3, <1>5, <1>12, <1>13, <1>20, <2>1, <2>2, <2>3 DEF Gives
<1> QED  BY <1>21

-----------------------------------------------------------------------------
(* The blocks of B up to the one at x, as far as create_blocks_info gets.  *)
UpTo(B, x) == {y \in B : y <= x}

(* The greatest block up to one is that one.                               *)
LEMMA GreatestOfUpTo ==
  ASSUME NEW B \in SUBSET Int, NEW x \in B
  PROVE  SL!Max(UpTo(B, x)) = x
<1>1. x \in UpTo(B, x) /\ \A y \in UpTo(B, x) : x >= y
  BY DEF UpTo
<1>2. \A k \in UpTo(B, x) : k \in Int
  BY DEF UpTo
<1>3. SL!Max(UpTo(B, x)) \in UpTo(B, x) /\ SL!Max(UpTo(B, x)) >= x
  <2>1. SL!Max(UpTo(B, x)) \in UpTo(B, x)
        /\ \A y \in UpTo(B, x) : SL!Max(UpTo(B, x)) >= y
    BY <1>1 DEF SL!Max
  <2> QED  BY <1>1, <2>1
<1>4. SL!Max(UpTo(B, x)) <= x /\ SL!Max(UpTo(B, x)) \in Int
  BY <1>2, <1>3 DEF UpTo
<1> QED  BY <1>3, <1>4

(* Going from block to block by their sizes meets them all, and the last   *)
(* one ends where the arena does.                                          *)
LEMMA BlocksAreAll ==
  ASSUME NEW F, ListInv(F)
  PROVE  \E x \in F \cup held : /\ SL!Blocks = UpTo(F \cup held, x)
                                /\ F \cup held = UpTo(F \cup held, x)
                                /\ ListEnd(x) = ListSize
<1> USE DEF SL!Meta
<1>0. PICK B : B = F \cup held
  OBVIOUS
<1>1. ListSize \in Nat
  BY SizesAssumption
<1>2. \A x \in B : /\ x \in Nat /\ mem[x] \in Nat /\ mem[x] >= 2 /\ ListEnd(x) \in Nat
                   /\ ListEnd(x) = x + mem[x] /\ ListEnd(x) <= ListSize
  BY <1>0, <1>1 DEF ListInv, ListTyped, ListEnd, SL!Addr
<1>3. /\ 0 \in B
      /\ \A x, y \in B : x < y => ListEnd(x) <= y
      /\ \A x \in B : ListEnd(x) = ListSize \/ ListEnd(x) \in B
  BY <1>0 DEF ListInv, ListTiles
<1>4. B \in SUBSET Nat /\ B \in SUBSET Int /\ \A x \in B : SL!Max(UpTo(B, x)) = x
  BY <1>2, GreatestOfUpTo
<1> DEFINE X == {UpTo(B, x) : x \in B}
           Go(U) == IF SL!Max(U) + mem[SL!Max(U)] >= ListSize \/ mem[SL!Max(U)] < 2 THEN U
                    ELSE U \cup {SL!Max(U) + mem[SL!Max(U)]}
           step == [U \in X |-> Go(U)]
(* One more block is reached, unless the last one was.                     *)
<1>5. ASSUME NEW x \in B
      PROVE  /\ ListEnd(x) = ListSize => Go(UpTo(B, x)) = UpTo(B, x)
             /\ ListEnd(x) # ListSize => ListEnd(x) \in B
                                         /\ Go(UpTo(B, x)) = UpTo(B, ListEnd(x))
  <2>1. Go(UpTo(B, x)) = IF ListEnd(x) >= ListSize THEN UpTo(B, x)
                         ELSE UpTo(B, x) \cup {ListEnd(x)}
    <3>1. SL!Max(UpTo(B, x)) = x /\ mem[x] \in Nat /\ mem[x] >= 2 /\ ListEnd(x) = x + mem[x]
      BY <1>2, <1>4
    <3>2. ~(mem[x] < 2)
      BY <3>1
    <3> QED  BY <3>1, <3>2
  <2>2. CASE ListEnd(x) = ListSize
    BY <1>1, <2>1, <2>2
  <2>3. CASE ListEnd(x) # ListSize
    <3>1. ListEnd(x) \in B /\ ListEnd(x) \in Nat /\ ~(ListEnd(x) >= ListSize)
          /\ x \in Nat /\ x < ListEnd(x)
      BY <1>1, <1>2, <1>3, <2>3
    <3>2. \A y \in B : y <= ListEnd(x) <=> y <= x \/ y = ListEnd(x)
      BY <1>2, <1>3, <3>1
    <3>3. UpTo(B, ListEnd(x)) = UpTo(B, x) \cup {ListEnd(x)}
      BY <3>1, <3>2 DEF UpTo
    <3> HIDE DEF Go
    <3> QED  BY <2>1, <2>3, <3>1, <3>3
  <2> QED  BY <2>2, <2>3
<1>6. UpTo(B, 0) = {0} /\ {0} \in X
  <2>1. UpTo(B, 0) = {0}
    BY <1>2, <1>3 DEF UpTo
  <2> QED  BY <1>3, <2>1
<1>7. step \in [X -> X]
  <2> HIDE DEF Go
  <2>1. ASSUME NEW U \in X  PROVE Go(U) \in X
    <3>1. PICK x \in B : U = UpTo(B, x)
      OBVIOUS
    <3> QED  BY <1>5, <3>1
  <2> QED  BY <2>1
<1>8. PICK f \in [0 .. ListSize -> X] : /\ Goes(f, ListSize, {0}, step)
                                        /\ SL!Blocks = f[ListSize]
  <2> DEFINE D(f) == f = [m \in 0 .. ListSize |-> IF m = 0 THEN {0} ELSE Go(f[m - 1])]
  <2>1. PICK f \in [0 .. ListSize -> X] : Goes(f, ListSize, {0}, step)
    <3> HIDE DEF X, step
    <3> QED  BY <1>1, <1>6, <1>7, LoopGoes
  <2>2. ASSUME NEW g, D(g)  PROVE g = f
    <3> DEFINE Bad == {m \in 0 .. ListSize : g[m] # f[m]}
    <3>1. ASSUME Bad # {}  PROVE FALSE
      <4>1. Bad \in SUBSET Nat
        OBVIOUS
      <4> HIDE DEF Bad
      <4>2. PICK b \in Bad : \A m \in Bad : b <= m
        BY <3>1, <4>1, LeastExists
      <4>3. b \in 0 .. ListSize /\ g[b] # f[b]
        BY DEF Bad
      <4>4. g[b] = IF b = 0 THEN {0} ELSE Go(g[b - 1])
        <5> HIDE DEF Go
        <5> QED  BY <2>2, <4>3
      <4>5. CASE b = 0
        BY <1>1, <2>1, <4>3, <4>4, <4>5 DEF Goes
      <4>6. CASE b # 0
        <5>1. b - 1 \in 0 .. ListSize /\ ~(b <= b - 1)
          BY <1>1, <4>3, <4>6
        <5>2. g[b - 1] = f[b - 1]
          BY <4>2, <5>1 DEF Bad
        <5>3. f[b] = step[f[b - 1]] /\ f[b - 1] \in X
          BY <2>1, <4>3, <4>6, <5>1 DEF Goes
        <5>4. f[b] = Go(f[b - 1])
          <6> HIDE DEF X, Go
          <6> QED  BY <5>3
        <5> HIDE DEF Go
        <5> QED  BY <4>3, <4>4, <4>6, <5>2, <5>4
      <4> QED  BY <4>5, <4>6
    <3> HIDE DEF Go
    <3>2. g = [m \in 0 .. ListSize |-> g[m]]
      BY <2>2
    <3> HIDE DEF D
    <3> QED  BY <2>1, <3>1, <3>2
  <2>3. D(f)
    <3>1. ASSUME NEW m \in 0 .. ListSize
          PROVE  f[m] = IF m = 0 THEN {0} ELSE Go(f[m - 1])
      <4>1. CASE m = 0
        BY <2>1, <4>1 DEF Goes
      <4>2. CASE m # 0
        <5>1. m - 1 \in 0 .. ListSize
          BY <1>1, <4>2
        <5>2. f[m] = step[f[m - 1]] /\ f[m - 1] \in X
          BY <2>1, <4>2, <5>1 DEF Goes
        <5> HIDE DEF X, Go
        <5> QED  BY <4>2, <5>2
      <4> QED  BY <4>1, <4>2
    <3> HIDE DEF Go, X
    <3>2. f = [m \in 0 .. ListSize |-> f[m]]
      BY <2>1
    <3> QED  BY <3>1, <3>2
  <2>4. SL!Blocks = (CHOOSE g : D(g))[ListSize]
    BY DEF SL!Blocks, SL!BlockSize
  <2> HIDE DEF D
  <2>5. D(CHOOSE g : D(g))
    BY <2>3
  <2>6. (CHOOSE g : D(g)) = f
    BY <2>2, <2>5
  <2> QED  BY <2>1, <2>4, <2>6
<1> DEFINE Good(m) == \E x \in B : f[m] = UpTo(B, x) /\ (ListEnd(x) = ListSize \/ x >= m)
           Bad == {m \in 0 .. ListSize : ~Good(m)}
<1>9. ASSUME Bad # {}  PROVE FALSE
  <2> HIDE DEF Go
  <2>1. Bad \in SUBSET Nat
    OBVIOUS
  <2> HIDE DEF Bad
  <2>2. PICK b \in Bad : \A m \in Bad : b <= m
    BY <1>9, <2>1, LeastExists
  <2>3. b \in 0 .. ListSize /\ ~Good(b)
    BY DEF Bad
  <2>4. CASE b = 0
    <3>1. f[0] = UpTo(B, 0)
      <4> HIDE DEF X, step
      <4>1. 0 \in 0 .. ListSize
        BY <1>1
      <4>2. f[0] = {0}
        BY <1>8, <4>1 DEF Goes
      <4> QED  BY <1>6, <4>2
    <3> QED  BY <1>3, <2>3, <2>4, <3>1
  <2>5. CASE b # 0
    <3>1. b - 1 \in 0 .. ListSize /\ ~(b <= b - 1) /\ b \in Nat
      BY <1>1, <2>3, <2>5
    <3>2. Good(b - 1)
      BY <2>2, <3>1 DEF Bad
    <3>3. PICK x \in B : f[b - 1] = UpTo(B, x) /\ (ListEnd(x) = ListSize \/ x >= b - 1)
      BY <3>2
    <3>4. f[b] = step[f[b - 1]]
      BY <1>8, <2>3, <2>5 DEF Goes
    <3>5. f[b] = Go(UpTo(B, x))
      BY <3>3, <3>4
    <3>6. CASE ListEnd(x) = ListSize
      BY <1>5, <2>3, <3>5, <3>6
    <3>7. CASE ListEnd(x) # ListSize
      <4>1. ListEnd(x) \in B /\ f[b] = UpTo(B, ListEnd(x))
        BY <1>5, <3>5, <3>7
      <4>2. ListEnd(x) >= b
        <5>1. x >= b - 1 /\ ListEnd(x) >= x + 2 /\ x \in Nat /\ ListEnd(x) \in Nat
          <6>1. x \in Nat /\ mem[x] \in Nat /\ mem[x] >= 2 /\ ListEnd(x) = x + mem[x]
            BY <1>2
          <6>2. x >= b - 1
            BY <3>3, <3>7
          <6> QED  BY <6>1, <6>2
        <5> QED  BY <3>1, <5>1
      <4> QED  BY <2>3, <4>1, <4>2
    <3> QED  BY <3>6, <3>7
  <2> QED  BY <2>4, <2>5
<1>10. PICK x \in B : f[ListSize] = UpTo(B, x) /\ (ListEnd(x) = ListSize \/ x >= ListSize)
  <2>1. ListSize \in 0 .. ListSize
    BY <1>1
  <2> QED  BY <1>9, <2>1
<1>11. ListEnd(x) = ListSize /\ x \in Nat /\ x < ListSize
  <2>1. x \in Nat /\ mem[x] \in Nat /\ mem[x] >= 2 /\ ListEnd(x) = x + mem[x]
        /\ ListEnd(x) <= ListSize
    BY <1>2
  <2>2. x < ListSize
    BY <1>1, <2>1
  <2>3. ~(x >= ListSize)
    BY <1>1, <2>1, <2>2
  <2> QED  BY <1>10, <2>1, <2>2, <2>3
<1>12. B = UpTo(B, x)
  <2>1. \A y \in B : y <= x
    <3> SUFFICES ASSUME NEW y \in B, x < y  PROVE FALSE
      BY <1>2, <1>11
    <3>1. ListEnd(x) <= y
      BY <1>3
    <3>2. y \in Nat /\ mem[y] \in Nat /\ mem[y] >= 2 /\ ListEnd(y) = y + mem[y]
          /\ ListEnd(y) <= ListSize
      BY <1>2
    <3> QED  BY <1>1, <1>11, <3>1, <3>2
  <2> QED  BY <2>1 DEF UpTo
<1> QED  BY <1>0, <1>8, <1>10, <1>11, <1>12

-----------------------------------------------------------------------------
ListsInv == variant \in Variants /\ (variant = "sorted_list" => \E F : ListInv(F))

(* The invariant of the sorted list holds at the start, ...                *)
LEMMA ListsInvInit == Init => ListsInv
<1> USE DEF Null, BT!Null, SL!Null, SL!Meta, SL!This, SL!Junk
<1> SUFFICES ASSUME Init, variant = "sorted_list"  PROVE ListInv({0})
  BY DEF Init, ListsInv
<1>1. /\ mem = [a \in SL!Addr |-> IF a = 0 THEN ListSize ELSE IF a = 1 THEN Null ELSE SL!Junk]
      /\ head = 0 /\ held = {} /\ fit \in SL!FitModes
  BY DEF Init, SL!Init
<1>2. ListSize \in Nat /\ ListSize >= 2 /\ SL!Addr = 0 .. ListSize - 1
  BY SizesAssumption DEF SL!Addr
<1>3. /\ mem \in [SL!Addr -> Int] /\ 0 \in SL!Addr /\ 1 \in SL!Addr
      /\ mem[0] = ListSize /\ mem[1] = -1
      /\ \A a \in SL!Addr : a # 0 => mem[a] # -2
  BY <1>1, <1>2
<1>4. ListTyped({0}) /\ ListTiles({0})
  BY <1>1, <1>2, <1>3 DEF ListTyped, ListTiles, ListEnd
<1>5. ListLinks({0})
  BY <1>1, <1>3 DEF ListLinks, ListNext
<1>6. ListMerged({0})
  BY <1>2, <1>3 DEF ListMerged, ListEnd
<1>7. ListMarked
  BY <1>1, <1>3 DEF ListMarked
<1> QED  BY <1>4, <1>5, <1>6, <1>7 DEF ListInv

(* ... and is kept by every step.                                          *)
LEMMA ListsInvStep == ListsInv /\ [Next]_vars => ListsInv'
<1> SUFFICES ASSUME ListsInv, [Next]_vars  PROVE ListsInv'
  OBVIOUS
<1>1. variant' = variant
  BY DEF Next, vars
<1>2. ASSUME variant = "sorted_list"  PROVE \E F : ListInv(F)'
  <2>1. PICK F : ListInv(F)
    BY <1>2 DEF ListsInv
  <2>2. SL!Next \/ UNCHANGED <<mem, head, fit, held>>
    BY <1>2 DEF Next, vars
  <2>3. ASSUME NEW req \in 0 .. ListMaxReq, SL!Allocate(req)  PROVE \E G : ListInv(G)'
    <3>1. PICK target, size, prev : \E whole \in BOOLEAN :
                                      Takes(F, target, size, whole, prev)
      BY <2>1, <2>3, AllocateTakes
    <3>2. PICK whole \in BOOLEAN : Takes(F, target, size, whole, prev)
      BY <3>1
    <3>3. PICK G : G = Left(F, target, size, whole)
      OBVIOUS
    <3>4. ListInv(G)'
      BY <2>1, <3>2, <3>3, TakeKeeps
    <3> QED  BY <3>4
  <2>4. ASSUME NEW a \in 0 .. ListSize - SL!Meta, SL!Deallocate(a)
        PROVE  \E G : ListInv(G)'
    <3>1. PICK prev, next : Gives(F, a, prev, next)
      BY <2>1, <2>4, DeallocateGives
    <3>2. PICK G : G = Joined(F, a, prev, next)
      OBVIOUS
    <3>3. ListInv(G)'
      BY <2>1, <3>1, <3>2, GiveKeeps
    <3> QED  BY <3>3
  <2>5. ASSUME UNCHANGED <<mem, head, held>>, fit' \in SL!FitModes
        PROVE  ListInv(F)'
    BY <2>1, <2>5 DEF ListInv, ListTyped, ListTiles, ListLinks, ListMerged, ListMarked,
                      ListEnd, ListNext
  <2>6. CASE SL!SetFitMode
    BY <2>5, <2>6 DEF SL!SetFitMode
  <2>7. CASE UNCHANGED <<mem, head, fit, held>>
    BY <2>1, <2>5, <2>7 DEF ListInv, ListTyped
  <2> QED  BY <2>2, <2>3, <2>4, <2>6, <2>7 DEF SL!Next
<1> QED  BY <1>1, <1>2 DEF ListsInv

(* After any sequence of calls every word of the sorted list's arena is in *)
(* exactly one block, and that is either linked as free or handed out, for *)
(* an arena and requests of any size.                                      *)
THEOREM ListStaysTiled == Spec => []Tiled
<1>1. ASSUME NEW F, ListInv(F)  PROVE SL!Tiled
  <2>1. PICK x \in F \cup held : /\ SL!Blocks = UpTo(F \cup held, x)
                                 /\ F \cup held = UpTo(F \cup held, x)
                                 /\ ListEnd(x) = ListSize
    BY <1>1, BlocksAreAll
  <2>2. F \cup held \in SUBSET Int /\ F \cap held = {}
    BY <1>1 DEF ListInv, ListTyped, SL!Addr
  <2>3. SL!Max(SL!Blocks) = x
    BY <2>1, <2>2, GreatestOfUpTo
  <2>4. SL!Free = F
    BY <1>1, FreeListed
  <2> QED  BY <2>1, <2>2, <2>3, <2>4 DEF SL!Tiled, SL!BlockSize, ListEnd
<1>2. ListsInv => Tiled
  BY <1>1 DEF ListsInv, Tiled
<1> QED  BY <1>2, ListsInvInit, ListsInvStep, PTL DEF Spec

(* No two blocks of the sorted list's free list meet, so that what is free *)
(* in one run can be handed out in one, for an arena of any size.          *)
THEOREM ListStaysCoalesced == Spec => []Coalesced
<1> USE DEF Null, BT!Null
<1>1. ASSUME NEW F, ListInv(F)  PROVE SL!Coalesced
  <2> DEFINE l == SL!FreeList
  <2>1. /\ l \in Seq(F) /\ Len(l) \in Nat /\ DOMAIN l = 1 .. Len(l)
        /\ \A i \in DOMAIN l : ListNext(l[i]) = IF i = Len(l) THEN Null ELSE l[i + 1]
    BY <1>1, FreeListed
  <2>2. \A x \in F : x \in Nat /\ mem[x] \in Int /\ ListEnd(x) = x + mem[x]
    BY <1>1 DEF ListInv, ListTyped, SL!Addr, ListEnd
  <2> HIDE DEF l
  <2>3. ASSUME NEW i \in 1 .. Len(l) - 1
        PROVE  l[i] + SL!BlockSize(l[i]) < l[i + 1]
    <3>1. i \in DOMAIN l /\ i + 1 \in DOMAIN l /\ i # Len(l)
      <4>1. PICK n \in Nat : n = Len(l) /\ DOMAIN l = 1 .. n
        BY <2>1
      <4>2. i \in 1 .. n - 1
        BY <4>1
      <4>3. i \in 1 .. n /\ i + 1 \in 1 .. n /\ i # n
        BY ONLY <4>2, n \in Nat
      <4> QED  BY <4>1, <4>3
    <3>2. l[i] \in F /\ l[i + 1] \in F /\ ListNext(l[i]) = l[i + 1]
      BY <2>1, <3>1
    <3>3. l[i + 1] # Null
      BY <2>2, <3>2
    <3>4. l[i] < l[i + 1]
      BY <1>1, <3>2, <3>3 DEF ListInv, ListLinks
    <3>5. ListEnd(l[i]) <= l[i + 1] /\ ListEnd(l[i]) # l[i + 1]
      BY <1>1, <3>2, <3>4 DEF ListInv, ListTiles, ListMerged
    <3> QED  BY <2>2, <3>2, <3>5 DEF SL!BlockSize
  <2> QED  BY <2>3 DEF SL!Coalesced, l
<1>2. ListsInv => Coalesced
  BY <1>1 DEF ListsInv, Coalesced
<1> QED  BY <1>2, ListsInvInit, ListsInvStep, PTL DEF Spec

(* The word that deallocate tests holds the allocator's address in blocks  *)
(* that are handed out and nowhere else, so that a block given back twice  *)
(* is refused, for an arena and requests of any size.                      *)
THEOREM ListRefusesStale == Spec => []StaleRefused
<1>1. ListsInv => StaleRefused
  BY DEF ListsInv, ListInv, ListMarked, StaleRefused, SL!StaleRefused
<1> QED  BY <1>1, ListsInvInit, ListsInvStep, PTL DEF Spec

-----------------------------------------------------------------------------
(* The blocks handed out, with their sizes.                                *)
Owned == [a \in held |-> mem[a]]

WithOwned(a, n) == [b \in DOMAIN Owned \cup {a} |-> IF b = a THEN n ELSE Owned[b]]

(* To take a block is to grant a place that overlaps no other.             *)
LEMMA TakeGrants ==
  ASSUME NEW F, ListInv(F), NEW target, NEW size, NEW whole \in BOOLEAN, NEW prev,
         Takes(F, target, size, whole, prev)
  PROVE  /\ size \in 1 .. ListSize /\ target \in 0 .. ListSize - size
         /\ \A a \in DOMAIN Owned : A!Apart(target, size, a, Owned[a])
         /\ Owned' = WithOwned(target, size)
<1> USE DEF Null, BT!Null, SL!Meta
<1>1. /\ target \in F /\ size \in Nat /\ size >= 2 /\ held' = held \cup {target}
      /\ IF whole THEN size = mem[target] ELSE size + 2 <= mem[target]
      /\ mem'[target] = size
  BY DEF Takes
<1>2. ListTyped(F) /\ ListTiles(F)
  BY DEF ListInv
<1>3. target \in Nat /\ mem[target] \in Nat /\ target + mem[target] <= ListSize
  <2>1. target \in Nat /\ mem[target] \in Int /\ mem[target] >= 2
        /\ target + mem[target] <= ListSize
    BY <1>1, <1>2 DEF ListTyped, SL!Addr, ListEnd
  <2> QED  BY <2>1
<1>4. ListSize \in Nat
  BY SizesAssumption
<1>5. target + size <= ListSize
  BY <1>1, <1>3, <1>4
<1>6. ASSUME NEW a \in held
      PROVE  mem'[a] = mem[a] /\ A!Apart(target, size, a, mem[a])
  <2>1. a # target /\ a \in F \cup held /\ target \in F \cup held
    BY <1>1, <1>2 DEF ListTyped
  <2>2. /\ a \in Nat /\ a + 1 \in SL!Addr /\ mem[a] \in Nat /\ ListEnd(a) \in Nat
        /\ a + 2 <= ListEnd(a) /\ ListEnd(target) \in Nat /\ target + 2 <= ListEnd(target)
        /\ ListEnd(a) <= target \/ ListEnd(target) <= a
    BY <1>2, <2>1, WordsApart
  <2>3. ListEnd(a) = a + mem[a] /\ ListEnd(target) = target + mem[target]
    BY DEF ListEnd
  <2>4. A!Apart(target, size, a, mem[a])
    BY <1>1, <1>3, <2>2, <2>3 DEF A!Apart
  <2>5. mem'[a] = mem[a]
    <3>1. a \in SL!Addr /\ a # target + 1
      BY <1>2, <1>3, <2>1, <2>2, <2>3 DEF ListTyped
    <3>2. prev # Null => a # prev + 1
      <4> SUFFICES ASSUME prev # Null  PROVE a # prev + 1
        OBVIOUS
      <4>1. prev \in F
        BY DEF Takes
      <4>2. prev # a /\ prev \in F \cup held
        BY <1>2, <4>1 DEF ListTyped
      <4>3. /\ prev \in Nat /\ ListEnd(prev) \in Nat /\ prev + 2 <= ListEnd(prev)
            /\ ListEnd(a) <= prev \/ ListEnd(prev) <= a
        BY <1>2, <2>1, <4>2, WordsApart
      <4> QED  BY <2>2, <4>3
    <3>3. ~whole => a # target + size /\ a # target + size + 1
      BY <1>1, <1>3, <2>2, <2>3
    <3> QED  BY <2>1, <3>1, <3>2, <3>3 DEF Takes
  <2> QED  BY <2>4, <2>5
<1>7. Owned' = WithOwned(target, size)
  <2>1. DOMAIN Owned = held
    BY DEF Owned
  <2>2. Owned' = [a \in held' |-> mem'[a]]
    BY DEF Owned
  <2>3. \A a \in held \cup {target} :
          mem'[a] = IF a = target THEN size ELSE Owned[a]
    BY <1>1, <1>6 DEF Owned
  <2> QED  BY <1>1, <2>1, <2>2, <2>3 DEF WithOwned
<1>8. \A a \in DOMAIN Owned : A!Apart(target, size, a, Owned[a])
  BY <1>6 DEF Owned
<1>9. size \in 1 .. ListSize /\ target \in 0 .. ListSize - size
  BY <1>1, <1>3, <1>4, <1>5
<1> QED  BY <1>7, <1>8, <1>9

(* To give a block back is to give that place back.                        *)
LEMMA GiveReturns ==
  ASSUME NEW F, ListInv(F), NEW a, NEW prev, NEW next, Gives(F, a, prev, next)
  PROVE  /\ a \in DOMAIN Owned
         /\ Owned' = [b \in DOMAIN Owned \ {a} |-> Owned[b]]
<1> USE DEF Null, BT!Null
<1>1. /\ a \in held /\ held' = held \ {a}
      /\ prev # Null => prev \in F
      /\ JoinsPrev(a, prev) => prev # Null
  BY DEF Gives, JoinsPrev
<1>2. ListTyped(F) /\ ListTiles(F)
  BY DEF ListInv
<1>3. ASSUME NEW b \in held, b # a  PROVE mem'[b] = mem[b]
  <2>1. /\ a \in Nat /\ b \in Nat /\ b + 1 \in SL!Addr
        /\ ListEnd(a) \in Nat /\ ListEnd(b) \in Nat
        /\ a + 2 <= ListEnd(a) /\ b + 2 <= ListEnd(b)
        /\ ListEnd(a) <= b \/ ListEnd(b) <= a
    BY <1>1, <1>2, <1>3, WordsApart
  <2>2. b \in SL!Addr /\ b # a + 1
    BY <1>2, <2>1 DEF ListTyped
  <2>3. prev # Null => b # prev /\ b # prev + 1
    <3> SUFFICES ASSUME prev # Null  PROVE b # prev /\ b # prev + 1
      OBVIOUS
    <3>1. prev # b /\ prev \in F \cup held /\ b \in F \cup held
      BY <1>1, <1>2 DEF ListTyped
    <3>2. /\ prev \in Nat /\ ListEnd(prev) \in Nat /\ prev + 2 <= ListEnd(prev)
          /\ ListEnd(b) <= prev \/ ListEnd(prev) <= b
      BY <1>2, <3>1, WordsApart
    <3> QED  BY <2>1, <3>1, <3>2
  <2> QED  BY <1>1, <1>3, <2>2, <2>3 DEF Gives
<1>4. Owned' = [b \in held' |-> mem'[b]]
  BY DEF Owned
<1> QED  BY <1>1, <1>3, <1>4 DEF Owned

(* Whatever the fit mode and however it changes, the sorted list hands out *)
(* places that lie in the arena and do not overlap, for an arena and       *)
(* requests of any size.                                                   *)
THEOREM ListImplementsArena ==
  Spec /\ variant = "sorted_list" => ImplementsArena
<1> DEFINE Lists == variant = "sorted_list"
           Words == CASE variant = "sorted_list"   -> ListSize
                      [] variant = "boundary_tags" -> TagsSize
                      [] variant = "buddy_system"  -> BS!Size
<1>1. Init /\ Lists => A!Init
  <2> SUFFICES ASSUME Init, Lists  PROVE A!Init
    OBVIOUS
  <2>1. held = {} /\ ListSize \in Nat
    BY SizesAssumption DEF Init, SL!Init
  <2>2. Granted = Owned
    BY DEF Granted, Owned
  <2>3. Owned = [b \in {} |-> 0]
    BY <2>1 DEF Owned
  <2> QED  BY <2>1, <2>2, <2>3 DEF A!Init
<1>2. Lists /\ [Next]_vars => Lists'
  BY DEF Next, vars
<1>3. ListsInv /\ Lists /\ [Next]_vars => [A!Next]_<<Words, Granted>>
  <2> SUFFICES ASSUME ListsInv, Lists, [Next]_vars  PROVE [A!Next]_<<Words, Granted>>
    OBVIOUS
  <2>1. Lists' /\ Words = ListSize /\ Words' = ListSize
    BY <1>2
  <2>2. Granted = Owned /\ Granted' = Owned'
    BY <2>1 DEF Granted, Owned
  <2>3. SL!Next \/ UNCHANGED <<mem, held>>
    BY DEF Next, vars
  <2>4. PICK F : ListInv(F)
    BY DEF ListsInv
  <2> HIDE DEF Words
  <2>5. ASSUME NEW req \in 0 .. ListMaxReq, SL!Allocate(req)  PROVE A!Next
    <3>1. PICK target, size, prev : \E whole \in BOOLEAN :
                                      Takes(F, target, size, whole, prev)
      BY <2>4, <2>5, AllocateTakes
    <3>2. PICK whole \in BOOLEAN : Takes(F, target, size, whole, prev)
      BY <3>1
    <3>5. /\ size \in 1 .. ListSize /\ target \in 0 .. ListSize - size
          /\ \A a \in DOMAIN Owned : A!Apart(target, size, a, Owned[a])
          /\ Owned' = WithOwned(target, size)
      BY <2>4, <3>2, TakeGrants
    <3>6. A!Grant(target, size)
      BY <2>1, <2>2, <3>5 DEF A!Grant, Words, WithOwned
    <3>7. target \in 0 .. ListSize
      BY <3>5, SizesAssumption
    <3> QED  BY <2>1, <3>5, <3>6, <3>7 DEF A!Next, Words
  <2>6. ASSUME NEW a \in 0 .. ListSize - SL!Meta, SL!Deallocate(a)  PROVE A!Next
    <3>1. PICK prev, next : Gives(F, a, prev, next)
      BY <2>4, <2>6, DeallocateGives
    <3>2. /\ a \in DOMAIN Owned
          /\ Owned' = [b \in DOMAIN Owned \ {a} |-> Owned[b]]
      BY <2>4, <3>1, GiveReturns
    <3>3. A!GiveBack(a)
      BY <2>1, <2>2, <3>2 DEF A!GiveBack, Words
    <3> QED  BY <2>2, <3>2, <3>3 DEF A!Next
  <2>7. ASSUME UNCHANGED <<mem, held>>  PROVE UNCHANGED <<Words, Granted>>
    <3>1. Owned' = Owned
      BY <2>7 DEF Owned
    <3> QED  BY <2>1, <2>2, <3>1
  <2> QED  BY <2>3, <2>5, <2>6, <2>7 DEF SL!Next, SL!SetFitMode
<1> QED  BY <1>1, <1>2, <1>3, ListsInvInit, ListsInvStep, PTL
         DEF Spec, ImplementsArena, A!Spec

-----------------------------------------------------------------------------
(* The free space of the sorted list is the spare words.                   *)
ListExact == avail = Cardinality(Spare(Owned, ListSize))

(* The blocks handed out lie in the arena, and no two of them overlap.     *)
LEMMA OwnedTyped ==
  ASSUME NEW F, ListInv(F)
  PROVE  /\ \A a \in DOMAIN Owned : a \in Nat /\ Owned[a] \in Nat /\ Owned[a] >= 1
                                    /\ a + Owned[a] <= ListSize
         /\ \A a, b \in DOMAIN Owned : a # b => A!Apart(a, Owned[a], b, Owned[b])
<1>1. ListTyped(F) /\ ListTiles(F)
  BY DEF ListInv
<1>2. DOMAIN Owned = held /\ \A a \in held : Owned[a] = mem[a] /\ ListEnd(a) = a + mem[a]
  BY DEF Owned, ListEnd
<1>3. ASSUME NEW a \in held
      PROVE  a \in Nat /\ mem[a] \in Nat /\ mem[a] >= 1 /\ ListEnd(a) <= ListSize
  <2>1. a \in SL!Addr /\ mem[a] \in Int /\ mem[a] >= 2 /\ ListEnd(a) <= ListSize
    BY <1>1 DEF ListTyped, SL!Meta
  <2> QED  BY <2>1 DEF SL!Addr
<1>4. ASSUME NEW a \in held, NEW b \in held, a # b
      PROVE  ListEnd(a) <= b \/ ListEnd(b) <= a
  BY <1>1, <1>4, WordsApart
<1> QED  BY <1>2, <1>3, <1>4 DEF A!Apart

(* Every call changes the free space and the spare words alike.            *)
LEMMA ListExactStep ==
  ASSUME NEW F, ListInv(F), ListExact, SL!Next \/ UNCHANGED <<mem, head, avail, fit, held>>
  PROVE  ListExact'
<1>1. ListSize \in Nat
  BY SizesAssumption
<1>2. ASSUME NEW req \in 0 .. ListMaxReq, SL!Allocate(req)  PROVE ListExact'
  <2>1. PICK a, s, prev : \E whole \in BOOLEAN :
               Takes(F, a, s, whole, prev) /\ avail' = avail - s
    BY <1>2, AllocateTakes
  <2>2. PICK whole \in BOOLEAN : Takes(F, a, s, whole, prev) /\ avail' = avail - s
    BY <2>1
  <2>3. /\ s \in 1 .. ListSize /\ a \in 0 .. ListSize - s
        /\ \A c \in DOMAIN Owned : A!Apart(a, s, c, Owned[c])
        /\ Owned' = WithOwned(a, s)
    BY <2>2, TakeGrants
  <2>4. \A c \in DOMAIN Owned : c \in Nat /\ Owned[c] \in Nat /\ Owned[c] >= 1
    BY OwnedTyped
  <2>5. /\ DOMAIN Owned' = DOMAIN Owned \cup {a} /\ Owned'[a] = s
        /\ \A c \in DOMAIN Owned : Owned'[c] = Owned[c]
    <3>1. a \notin DOMAIN Owned
      BY <2>3, <2>4 DEF A!Apart
    <3> QED  BY <2>3, <3>1 DEF WithOwned
  <2>6. Cardinality(Spare(Owned', ListSize)) = Cardinality(Spare(Owned, ListSize)) - s
    BY <1>1, <2>3, <2>4, <2>5, GrantSpares
  <2> QED  BY <2>2, <2>6 DEF ListExact
<1>3. ASSUME NEW a \in 0 .. ListSize - SL!Meta, SL!Deallocate(a)  PROVE ListExact'
  <2>1. PICK prev, next : Gives(F, a, prev, next)
    BY <1>3, DeallocateGives
  <2>2. a \in DOMAIN Owned /\ Owned' = [c \in DOMAIN Owned \ {a} |-> Owned[c]]
    BY <2>1, GiveReturns
  <2>3. PICK s : s = Owned[a]
    OBVIOUS
  <2>4. avail' = avail + s
    BY <1>3, <2>2, <2>3 DEF SL!Deallocate, SL!BlockSize, Owned
  <2>5. /\ s \in 1 .. ListSize /\ a \in 0 .. ListSize - s
        /\ \A c \in DOMAIN Owned : c \in Nat /\ Owned[c] \in Nat
    BY <1>1, <2>2, <2>3, OwnedTyped
  <2>6. Cardinality(Spare(Owned, ListSize)) = Cardinality(Spare(Owned', ListSize)) - s
    <3> DEFINE G == Owned'
    <3>1. DOMAIN G = DOMAIN Owned \ {a} /\ \A c \in DOMAIN G : Owned[c] = G[c]
      BY <2>2
    <3>2. \A c \in DOMAIN G : c \in Nat /\ G[c] \in Nat /\ A!Apart(a, s, c, G[c])
      BY <2>2, <2>3, <2>5, <3>1, OwnedTyped
    <3> HIDE DEF G
    <3>3. PICK H : H = Owned
      OBVIOUS
    <3>4. DOMAIN H = DOMAIN G \cup {a} /\ H[a] = s /\ \A c \in DOMAIN G : H[c] = G[c]
      BY <2>2, <2>3, <3>1, <3>3
    <3>5. s \in 1 .. ListSize /\ a \in 0 .. ListSize - s
      BY <2>5
    <3>6. Cardinality(Spare(H, ListSize)) = Cardinality(Spare(G, ListSize)) - s
      BY <1>1, <3>2, <3>4, <3>5, GrantSpares
    <3> QED  BY <3>3, <3>6 DEF G
  <2>7. Cardinality(Spare(Owned, ListSize)) \in Nat /\ Cardinality(Spare(Owned', ListSize)) \in Nat
    BY <1>1, SpareCounts
  <2> QED  BY <2>4, <2>5, <2>6, <2>7 DEF ListExact
<1>4. ASSUME UNCHANGED <<mem, held, avail>>  PROVE ListExact'
  BY <1>4 DEF ListExact, Owned
<1> QED  BY <1>2, <1>3, <1>4 DEF SL!Next, SL!SetFitMode

(* A word that no block handed out has is in a free block.                 *)
LEMMA SpareIsFree ==
  ASSUME NEW F, ListInv(F)
  PROVE  Spare(Owned, ListSize) =
           {w \in SL!Addr : \E a \in F : w \in a .. a + SL!BlockSize(a) - 1}
<1>1. ListTyped(F) /\ ListTiles(F) /\ ListSize \in Nat /\ SL!Addr = 0 .. ListSize - 1
  BY SizesAssumption DEF ListInv, SL!Addr
<1>2. ASSUME NEW a \in F \cup held
      PROVE  a \in Nat /\ mem[a] \in Nat /\ ListEnd(a) = a + mem[a] /\ ListEnd(a) \in Nat
  <2>1. a \in SL!Addr /\ mem[a] \in Int /\ mem[a] >= 2
    BY <1>1 DEF ListTyped, SL!Meta
  <2> QED  BY <1>1, <2>1 DEF ListEnd
<1>3. \A a \in held : Owned[a] = mem[a] /\ DOMAIN Owned = held
  BY DEF Owned
<1>4. ASSUME NEW w \in 0 .. ListSize - 1, \A a \in held : w \notin a .. a + mem[a] - 1
      PROVE  \E a \in F : w \in a .. a + mem[a] - 1
  <2> DEFINE S == {a \in F \cup held : a <= w}
  <2>1. w \in Nat /\ S \in SUBSET (0 .. w) /\ S # {}
    BY <1>1, <1>2 DEF ListTiles
  <2>2. PICK a \in S : \A b \in S : a >= b
    BY <2>1, GreatestExists
  <2>3. a \in F \cup held /\ a <= w /\ a \in Nat /\ mem[a] \in Nat /\ ListEnd(a) = a + mem[a]
    BY <1>2, <2>2
  <2>4. w < ListEnd(a)
    <3>1. SUFFICES ASSUME ListEnd(a) <= w  PROVE FALSE
      BY <1>2, <2>1, <2>3
    <3>2. ListEnd(a) \in F \cup held
      BY <1>1, <2>1, <2>3, <3>1 DEF ListTiles
    <3>3. mem[a] >= 2
      BY <1>1, <2>3 DEF ListTyped, SL!Meta
    <3>4. ListEnd(a) \in S /\ ListEnd(a) > a
      BY <2>3, <3>1, <3>2, <3>3
    <3> QED  BY <1>2, <2>2, <2>3, <3>2, <3>4
  <2>5. w \in a .. a + mem[a] - 1
    BY <2>1, <2>3, <2>4
  <2> QED  BY <1>4, <2>3, <2>5
<1>5. ASSUME NEW w \in 0 .. ListSize - 1, NEW a \in F, w \in a .. a + mem[a] - 1, NEW b \in held
      PROVE  w \notin b .. b + mem[b] - 1
  <2>1. a # b
    BY <1>1 DEF ListTyped
  <2>2. ListEnd(a) <= b \/ ListEnd(b) <= a
    BY <1>1, <2>1, WordsApart
  <2>3. a \in Nat /\ b \in Nat /\ mem[a] \in Nat /\ mem[b] \in Nat
        /\ ListEnd(a) = a + mem[a] /\ ListEnd(b) = b + mem[b] /\ w \in Nat
    BY <1>2, <1>5
  <2> QED  BY <1>5, <2>2, <2>3
<1>6. Spare(Owned, ListSize) = {w \in 0 .. ListSize - 1 : \A a \in held : w \notin a .. a + mem[a] - 1}
  BY DEF Spare, Owned
<1>7. {w \in SL!Addr : \E a \in F : w \in a .. a + SL!BlockSize(a) - 1}
      = {w \in 0 .. ListSize - 1 : \E a \in F : w \in a .. a + mem[a] - 1}
  BY <1>1 DEF SL!BlockSize
<1>8. \A w \in 0 .. ListSize - 1 : (\A a \in held : w \notin a .. a + mem[a] - 1)
                                   <=> \E a \in F : w \in a .. a + mem[a] - 1
  BY <1>4, <1>5
<1> QED  BY <1>6, <1>7, <1>8

-----------------------------------------------------------------------------
(* The sizes of the buddies' blocks: doubling can be gone through up to    *)
(* the power of the arena.                                                 *)
LEMMA WordsExist ==
  \E f \in [0 .. BuddiesPower -> Nat] :
     f = [p \in 0 .. BuddiesPower |-> IF p = 0 THEN 1 ELSE 2 * f[p - 1]]
<1> DEFINE double == [m \in Nat |-> 2 * m]
           n == BuddiesPower
<1>1. n \in Nat /\ 1 \in Nat /\ double \in [Nat -> Nat]
  BY SizesAssumption
<1> HIDE DEF double, n
<1>2. PICK f \in [0 .. n -> Nat] : Goes(f, n, 1, double)
  BY <1>1, LoopGoes
<1>3. ASSUME NEW p \in 0 .. n  PROVE f[p] = IF p = 0 THEN 1 ELSE 2 * f[p - 1]
  <2>1. p # 0 => f[p - 1] \in Nat
    BY <1>1
  <2> QED  BY <1>2, <2>1 DEF Goes, double
<1>4. f = [p \in 0 .. n |-> f[p]]
  OBVIOUS
<1>5. f = [p \in 0 .. n |-> IF p = 0 THEN 1 ELSE 2 * f[p - 1]]
  BY <1>3, <1>4
<1> QED  BY <1>5 DEF n

(* Each power's size is twice that of the one before it, so a smaller      *)
(* power has a smaller size.                                               *)
LEMMA WordsDouble ==
  /\ BuddiesPower \in Nat
  /\ BS!Words[0] = 1
  /\ \A p \in 0 .. BuddiesPower : BS!Words[p] \in Nat /\ BS!Words[p] >= 1
  /\ \A p \in 1 .. BuddiesPower : BS!Words[p] = 2 * BS!Words[p - 1]
  /\ \A q, p \in 0 .. BuddiesPower : q <= p => BS!Words[q] <= BS!Words[p]
<1> DEFINE W == BS!Words
           n == BuddiesPower
<1>1. W = [p \in 0 .. n |-> IF p = 0 THEN 1 ELSE 2 * W[p - 1]]
  BY WordsExist DEF BS!Words
<1>2. n \in Nat
  BY SizesAssumption
<1> HIDE DEF W, n
<1>3. W[0] = 1 /\ \A p \in 1 .. n : W[p] = 2 * W[p - 1] /\ p - 1 \in 0 .. n
  BY <1>1, <1>2
<1>4. ASSUME NEW p \in 0 .. n  PROVE W[p] \in Nat /\ W[p] >= 1
  <2> DEFINE Bad == {m \in 0 .. n : ~(W[m] \in Nat /\ W[m] >= 1)}
  <2>1. ASSUME Bad # {}  PROVE FALSE
    <3>1. Bad \subseteq Nat
      BY <1>2
    <3> HIDE DEF Bad
    <3>2. PICK b \in Bad : \A m \in Bad : b <= m
      BY <2>1, <3>1, LeastExists
    <3>3. b \in 0 .. n /\ ~(W[b] \in Nat /\ W[b] >= 1) /\ b # 0
      BY <1>3 DEF Bad
    <3>4. b \in 1 .. n /\ b - 1 \in 0 .. n /\ ~(b <= b - 1)
      BY <1>2, <3>3
    <3>5. W[b - 1] \in Nat /\ W[b - 1] >= 1
      BY <3>2, <3>4 DEF Bad
    <3> QED  BY <1>3, <3>3, <3>4, <3>5
  <2> QED  BY <2>1
<1>5. ASSUME NEW q \in 0 .. n, NEW p \in 0 .. n, q <= p  PROVE W[q] <= W[p]
  <2> DEFINE Bad == {m \in 0 .. n : q <= m /\ ~(W[q] <= W[m])}
  <2>1. ASSUME Bad # {}  PROVE FALSE
    <3>1. Bad \subseteq Nat
      BY <1>2
    <3> HIDE DEF Bad
    <3>2. PICK b \in Bad : \A m \in Bad : b <= m
      BY <2>1, <3>1, LeastExists
    <3>3. b \in 0 .. n /\ q <= b /\ ~(W[q] <= W[b]) /\ b # q
      BY <1>4 DEF Bad
    <3>4. b \in 1 .. n /\ b - 1 \in 0 .. n /\ ~(b <= b - 1) /\ q <= b - 1
      BY <1>2, <3>3
    <3>5. W[q] <= W[b - 1]
      BY <3>2, <3>4 DEF Bad
    <3>6. W[q] \in Nat /\ W[b] \in Nat /\ W[b - 1] \in Nat /\ W[b] = 2 * W[b - 1]
      BY <1>3, <1>4, <3>3, <3>4
    <3> QED  BY <3>3, <3>5, <3>6
  <2> QED  BY <1>5, <2>1
<1> QED  BY <1>2, <1>3, <1>4, <1>5 DEF W, n

(* A block that starts at a multiple of its size starts at a multiple of   *)
(* every smaller one, an even multiple, so the buddies that are split off  *)
(* it lie above its start.                                                 *)
LEMMA MultipleOf ==
  ASSUME NEW a \in Nat, NEW t \in Nat, t >= 1
  PROVE  /\ a % t = 0 => \E k \in Nat : a = k * t
         /\ \A k \in Nat : (k * t) % t = 0 /\ (k * t) \div t = k
<1>1. ASSUME a % t = 0  PROVE a = (a \div t) * t /\ a \div t \in Nat
  BY <1>1
<1>2. ASSUME NEW k \in Nat  PROVE (k * t) % t = 0
  OBVIOUS
<1>3. ASSUME NEW k \in Nat  PROVE (k * t) \div t = k
  OBVIOUS
<1> QED  BY <1>1, <1>2, <1>3

(* A multiple of a size is an even multiple of half of it.                 *)
LEMMA HalvedEvenly ==
  ASSUME NEW a \in Nat, NEW t \in Nat, t >= 1, a % (2 * t) = 0
  PROVE  a % t = 0 /\ (a + t) % t = 0 /\ (a \div t) % 2 = 0
<1>1. 2 * t \in Nat /\ 2 * t >= 1
  OBVIOUS
<1>2. PICK k \in Nat : a = k * (2 * t)
  BY <1>1, MultipleOf
<1>3. k + k \in Nat /\ a = (k + k) * t
  BY <1>2
<1>4. PICK m \in Nat : a + t = m * t
  <2>1. k + k + 1 \in Nat /\ a + t = (k + k + 1) * t
    BY <1>2
  <2> QED  BY <2>1
<1>5. a % t = 0 /\ a \div t = k + k
  BY <1>3, MultipleOf
<1>6. (a + t) % t = 0
  BY <1>4, MultipleOf
<1>7. (k + k) % 2 = 0
  OBVIOUS
<1> QED  BY <1>5, <1>6, <1>7

(* So the buddies of all smaller powers are above the start of a block.    *)
LEMMA BuddyAbove ==
  ASSUME NEW p \in 0 .. BuddiesPower, NEW r \in 0 .. BuddiesPower, r < p,
         NEW a \in Nat, a % BS!Words[p] = 0
  PROVE  /\ BS!Buddy(a, r) = a + BS!Words[r]
         /\ a % BS!Words[r] = 0 /\ (a + BS!Words[r]) % BS!Words[r] = 0
<1> DEFINE W == BS!Words
           Bad == {m \in Nat : r <= p - m /\ a % W[p - m] # 0}
<1>0. p \in Nat /\ r \in Nat
  OBVIOUS
<1>1. ASSUME Bad # {}  PROVE FALSE
  <2>1. Bad \subseteq Nat
    OBVIOUS
  <2> HIDE DEF Bad, W
  <2>2. PICK b \in Bad : \A m \in Bad : b <= m
    BY <1>1, <2>1, LeastExists
  <2>3. b \in Nat /\ r <= p - b /\ a % W[p - b] # 0
    BY DEF Bad
  <2>4. a % W[p] = 0 /\ p - 0 = p
    BY <1>0 DEF W
  <2>5. b # 0
    BY <2>3, <2>4
  <2>6. b - 1 \in Nat /\ ~(b <= b - 1) /\ r <= p - (b - 1)
    BY <1>0, <2>3, <2>5
  <2>7. a % W[p - (b - 1)] = 0
    BY <2>2, <2>6 DEF Bad
  <2>8. /\ p - (b - 1) \in 1 .. BuddiesPower /\ p - b \in 0 .. BuddiesPower
        /\ (p - (b - 1)) - 1 = p - b
    BY <1>0, <2>3, <2>6, SizesAssumption
  <2>9. W[p - (b - 1)] = 2 * W[p - b] /\ W[p - b] \in Nat /\ W[p - b] >= 1
    BY <2>8, WordsDouble DEF W
  <2> QED  BY <2>3, <2>7, <2>9, HalvedEvenly
<1>2. a % W[r + 1] = 0
  <2>1. p - r - 1 \in Nat /\ p - (p - r - 1) = r + 1 /\ r <= r + 1
    BY <1>0
  <2>2. p - r - 1 \notin Bad
    BY <1>1
  <2> QED  BY <2>1, <2>2
<1>3. r + 1 \in 1 .. BuddiesPower /\ (r + 1) - 1 = r
  BY <1>0, SizesAssumption
<1>4. W[r + 1] = 2 * W[r] /\ W[r] \in Nat /\ W[r] >= 1
  BY <1>3, WordsDouble
<1> HIDE DEF W
<1>5. a % W[r] = 0 /\ (a + W[r]) % W[r] = 0 /\ (a \div W[r]) % 2 = 0
  BY <1>2, <1>4, HalvedEvenly
<1> QED  BY <1>5 DEF BS!Buddy, W

(* Each power's size is at least twice that of any smaller one.            *)
LEMMA WordsLess ==
  ASSUME NEW q \in 0 .. BuddiesPower, NEW p \in 0 .. BuddiesPower, q < p
  PROVE  /\ BS!Words[q] + BS!Words[q] <= BS!Words[p]
         /\ q + 1 \in 0 .. BuddiesPower /\ BS!Words[q + 1] = BS!Words[q] + BS!Words[q]
<1>1. q + 1 \in 1 .. BuddiesPower /\ (q + 1) - 1 = q /\ q + 1 \in 0 .. BuddiesPower /\ q + 1 <= p
  BY WordsDouble
<1>2. BS!Words[q + 1] = 2 * BS!Words[q] /\ BS!Words[q + 1] <= BS!Words[p] /\ BS!Words[q] \in Nat
  BY <1>1, WordsDouble
<1> QED  BY <1>1, <1>2

-----------------------------------------------------------------------------
(* The inductive invariant of the buddies: the blocks lie at multiples of  *)
(* their sizes, they tile the arena, and those linked as free are marked   *)
(* free and linked once.                                                   *)
Upto(a) == a + BS!Words[power[a]]

BlocksTyped ==
  \A a \in DOMAIN power : /\ a \in Nat /\ power[a] \in 0 .. BuddiesPower
                          /\ a % BS!Words[power[a]] = 0 /\ Upto(a) <= BS!Size

BlocksTile ==
  /\ \A a, b \in DOMAIN power : a = b \/ Upto(a) <= b \/ Upto(b) <= a
  /\ \A w \in 0 .. BS!Size - 1 : \E a \in DOMAIN power : a <= w /\ w < Upto(a)

LinkedOnce ==
  /\ list \in Seq(DOMAIN power \ occupied)
  /\ \A i, j \in DOMAIN list : list[i] = list[j] => i = j

Handed == occupied \subseteq DOMAIN power /\ held \subseteq occupied

BuddyInv == /\ BlocksTyped /\ BlocksTile /\ LinkedOnce /\ Handed
            /\ fit \in BS!FitModes /\ crashed \in BOOLEAN

(* What allocate does: the block at a, the i-th in the list, is halved     *)
(* from power p to power q and taken, and its upper halves are linked.     *)
Upper(a, q, p) == [j \in 1 .. p - q |-> a + BS!Words[q + j - 1]]

Splits(i, a, p, q) ==
  /\ i \in DOMAIN list /\ a = list[i] /\ p = power[a] /\ q \in 0 .. p
  /\ DOMAIN power' = DOMAIN power \cup {a + BS!Words[r] : r \in q .. p - 1}
  /\ power'[a] = q
  /\ \A r \in q .. p - 1 : power'[a + BS!Words[r]] = r
  /\ \A b \in DOMAIN power \ {a} : power'[b] = power[b]
  /\ occupied' = occupied \cup {a} /\ held' = held \cup {a}
  /\ list' = BS!PutFor(list, i, Upper(a, q, p))
  /\ avail' = avail - BS!Words[q] /\ UNCHANGED <<fit, crashed>>

Fails == crashed' = TRUE /\ UNCHANGED <<power, occupied, list, avail, held, fit>>

(* The upper halves of a block lie within it, where no other block starts. *)
LEMMA UpperInside ==
  ASSUME BuddyInv, NEW a \in DOMAIN power, NEW r \in 0 .. power[a] - 1
  PROVE  /\ a + BS!Words[r] \in Nat /\ a < a + BS!Words[r]
         /\ a + BS!Words[r] + BS!Words[r] <= Upto(a)
         /\ a + BS!Words[r] \notin DOMAIN power
<1> DEFINE p == power[a]
           x == a + BS!Words[r]
<1>1. a \in Nat /\ p \in 0 .. BuddiesPower
  BY DEF BuddyInv, BlocksTyped
<1>2. r \in 0 .. BuddiesPower /\ r < p
  BY <1>1, WordsDouble
<1>3. BS!Words[r] + BS!Words[r] <= BS!Words[p]
  BY <1>1, <1>2, WordsLess
<1>4. BS!Words[r] \in Nat /\ BS!Words[r] >= 1 /\ BS!Words[p] \in Nat
  BY <1>1, <1>2, WordsDouble
<1>5. x \in Nat /\ a < x /\ x + BS!Words[r] <= Upto(a) /\ x < Upto(a) /\ Upto(a) \in Nat
  BY <1>1, <1>3, <1>4 DEF Upto
<1>6. ASSUME x \in DOMAIN power  PROVE FALSE
  <2>1. Upto(a) <= x \/ Upto(x) <= a
    BY <1>5, <1>6 DEF BuddyInv, BlocksTile
  <2>2. power[x] \in 0 .. BuddiesPower
    BY <1>6 DEF BuddyInv, BlocksTyped
  <2>3. BS!Words[power[x]] \in Nat
    BY <2>2, WordsDouble
  <2> QED  BY <1>1, <1>5, <2>1, <2>3 DEF Upto
<1> QED  BY <1>5, <1>6

(* Different halves lie at different places.                               *)
LEMMA UpperApart ==
  ASSUME NEW q \in 0 .. BuddiesPower, NEW p \in 0 .. BuddiesPower, BS!Words[q] = BS!Words[p]
  PROVE  q = p
<1>1. BS!Words[q] \in Nat /\ BS!Words[q] >= 1 /\ BS!Words[p] \in Nat /\ BS!Words[p] >= 1
  BY WordsDouble
<1>2. ~(q < p) /\ ~(p < q)
  BY <1>1, WordsLess
<1> QED  BY <1>2

(* The chosen block is large enough, and its halves are its upper halves.  *)
LEMMA AllocateSplits ==
  ASSUME BuddyInv, NEW q \in 0 .. BuddiesPower, BS!Allocate(q)
  PROVE  Fails \/ \E i, a, p : Splits(i, a, p, q)
<1> DEFINE powers == [k \in DOMAIN list |-> power[list[k]]]
           i == BS!Choice(powers, q, fit)
           a == list[i]
           p == power[a]
           halves == BS!Halves(a, p, q)
           rest == BS!PutFor(list, i, halves)
           new == [b \in DOMAIN power \cup {halves[j] : j \in DOMAIN halves} |->
                     IF b = a THEN q
                     ELSE IF \E j \in DOMAIN halves : halves[j] = b
                     THEN q - 1 + CHOOSE j \in DOMAIN halves : halves[j] = b
                     ELSE power[b]]
<1>1. /\ BS!Fitting(powers, q) # {} /\ fit' = fit
      /\ IF Len(rest) < i
         THEN crashed' = TRUE /\ UNCHANGED <<power, occupied, list, avail, held>>
         ELSE /\ power' = new /\ occupied' = occupied \cup {a} /\ list' = rest
              /\ avail' = avail - BS!Words[q] /\ held' = held \cup {a} /\ crashed' = crashed
  BY DEF BS!Allocate
<1>2. /\ list \in Seq(DOMAIN power \ occupied) /\ Len(list) \in Nat /\ DOMAIN list = 1 .. Len(list)
      /\ fit \in BT!FitModes
  BY DEF BuddyInv, LinkedOnce, BS!FitModes, BT!FitModes
<1>3. i \in DOMAIN list /\ powers[i] >= q
  <2>1. i = BT!Choice(powers, q, fit)
    BY DEF BS!Choice, BT!Choice, BS!Fitting, BT!Fitting, BS!Min, BT!Min
  <2>2. BS!Fitting(powers, q) = BT!Fitting(powers, q)
    BY DEF BS!Fitting, BT!Fitting
  <2>3. DOMAIN powers \subseteq Nat /\ DOMAIN powers = DOMAIN list
    BY <1>2
  <2>4. \A k \in DOMAIN powers : powers[k] \in Nat /\ powers[k] <= BuddiesPower
    BY <1>2 DEF BuddyInv, BlocksTyped
  <2>5. BuddiesPower \in Nat
    BY WordsDouble
  <2> HIDE DEF powers, i
  <2>6. BT!Choice(powers, q, fit) \in BT!Fitting(powers, q)
    BY <1>1, <1>2, <2>2, <2>3, <2>4, <2>5, ChoiceFits
  <2> QED  BY <2>1, <2>3, <2>6 DEF BT!Fitting
<1>4. a \in DOMAIN power /\ p \in 0 .. BuddiesPower /\ q \in 0 .. p /\ a \in Nat
      /\ a % BS!Words[p] = 0
  <2>1. a \in DOMAIN power \ occupied
    BY <1>2, <1>3
  <2>2. powers[i] = p
    BY <1>3
  <2> QED  BY <1>3, <2>1, <2>2 DEF BuddyInv, BlocksTyped
<1> HIDE DEF i, a, p
<1>5. halves = Upper(a, q, p)
  <2>1. ASSUME NEW j \in 1 .. p - q
        PROVE  BS!Buddy(a, q + j - 1) = a + BS!Words[q + j - 1]
    <3>1. q + j - 1 \in 0 .. BuddiesPower /\ q + j - 1 < p
      BY <1>4, WordsDouble
    <3> QED  BY <1>4, <3>1, BuddyAbove
  <2> QED  BY <2>1 DEF BS!Halves, Upper
<1>6. /\ DOMAIN halves = 1 .. p - q
      /\ \A j \in 1 .. p - q : halves[j] = a + BS!Words[q + j - 1]
      /\ \A r \in q .. p - 1 : /\ r - q + 1 \in 1 .. p - q
                               /\ halves[r - q + 1] = a + BS!Words[r]
  <2> HIDE DEF halves
  <2>1. DOMAIN halves = 1 .. p - q /\ \A j \in 1 .. p - q : halves[j] = a + BS!Words[q + j - 1]
    BY <1>5 DEF Upper
  <2>2. \A r \in q .. p - 1 : r - q + 1 \in 1 .. p - q /\ q + (r - q + 1) - 1 = r
    BY <1>4
  <2> QED  BY <2>1, <2>2
<1>7. {halves[j] : j \in DOMAIN halves} = {a + BS!Words[r] : r \in q .. p - 1}
  <2> HIDE DEF halves
  <2>1. \A j \in 1 .. p - q : q + j - 1 \in q .. p - 1
    BY <1>4
  <2> QED  BY <1>6, <2>1
<1>8. ASSUME NEW r \in q .. p - 1  PROVE new[a + BS!Words[r]] = r
  <2> DEFINE x == a + BS!Words[r]
  <2>1. r \in 0 .. p - 1
    BY <1>4
  <2>2. x # a
    <3>1. r \in 0 .. power[a] - 1
      BY <2>1 DEF p
    <3> QED  BY <1>4, <3>1, UpperInside
  <2>3. x \in {halves[j] : j \in DOMAIN halves}
    BY <1>7
  <2>4. ASSUME NEW j \in DOMAIN halves, halves[j] = x  PROVE j = r - q + 1
    <3> HIDE DEF halves
    <3>1. j \in 1 .. p - q /\ a + BS!Words[q + j - 1] = a + BS!Words[r]
      BY <1>6, <2>4
    <3>2. r \in 0 .. BuddiesPower /\ q + j - 1 \in 0 .. BuddiesPower
      BY <1>4, <2>1, <3>1, WordsDouble
    <3>3. BS!Words[q + j - 1] = BS!Words[r]
      <4>1. BS!Words[q + j - 1] \in Nat /\ BS!Words[r] \in Nat
        BY <3>2, WordsDouble
      <4> QED  BY <1>4, <3>1, <4>1
    <3>4. q + j - 1 = r
      BY <3>2, <3>3, UpperApart
    <3> QED  BY <1>4, <3>1, <3>2, <3>4
  <2>5. r - q + 1 \in DOMAIN halves /\ halves[r - q + 1] = x
    BY <1>6
  <2> HIDE DEF halves, x
  <2>6. (CHOOSE j \in DOMAIN halves : halves[j] = x) = r - q + 1
    BY <2>4, <2>5
  <2>7. new[x] = q - 1 + (r - q + 1)
    BY <2>2, <2>3, <2>5, <2>6
  <2>8. q - 1 + (r - q + 1) = r
    BY <1>4, <2>1
  <2> QED  BY <2>7, <2>8 DEF x
<1>9. ASSUME NEW b \in DOMAIN power \ {a}  PROVE new[b] = power[b]
  <2>1. b \notin {a + BS!Words[r] : r \in q .. p - 1}
    <3> SUFFICES ASSUME NEW r \in q .. p - 1  PROVE b # a + BS!Words[r]
      OBVIOUS
    <3>1. r \in 0 .. power[a] - 1
      BY <1>4 DEF p
    <3> QED  BY <1>4, <3>1, UpperInside
  <2>2. ~ \E j \in DOMAIN halves : halves[j] = b
    <3> HIDE DEF halves
    <3> QED  BY <1>7, <2>1
  <2> HIDE DEF halves
  <2> QED  BY <2>2
<1>10. new[a] = q /\ DOMAIN new = DOMAIN power \cup {a + BS!Words[r] : r \in q .. p - 1}
  <2> HIDE DEF halves
  <2> QED  BY <1>4, <1>7
<1> HIDE DEF new
<1>11. CASE Len(rest) < i
  BY <1>1, <1>11 DEF Fails
<1>12. CASE ~(Len(rest) < i)
  <2>1. list' = BS!PutFor(list, i, Upper(a, q, p))
    BY <1>1, <1>5, <1>12
  <2> HIDE DEF rest, halves
  <2>2. /\ power' = new /\ occupied' = occupied \cup {a} /\ held' = held \cup {a}
        /\ avail' = avail - BS!Words[q] /\ crashed' = crashed
    BY <1>1, <1>12
  <2>3. a = list[i] /\ p = power[a]
    BY DEF a, p
  <2>4. Splits(i, a, p, q)
    BY <1>1, <1>3, <1>4, <1>8, <1>9, <1>10, <2>1, <2>2, <2>3 DEF Splits
  <2> QED  BY <2>4
<1> QED  BY <1>11, <1>12

-----------------------------------------------------------------------------
(* What is put for the entry i of a list: the entries before it, the new   *)
(* ones, and the entries after it.                                         *)
Replaced(m, l, i, h) ==
  /\ Len(m) = Len(l) - 1 + Len(h)
  /\ \A k \in DOMAIN m :
       m[k] = IF k < i THEN l[k]
              ELSE IF k < i + Len(h) THEN h[k - i + 1] ELSE l[k - Len(h) + 1]

(* PutFor does so.                                                         *)
LEMMA PutForLists ==
  ASSUME NEW S, NEW l \in Seq(S), NEW i \in DOMAIN l, NEW h \in Seq(S),
         NEW m, m = BS!PutFor(l, i, h)
  PROVE  m \in Seq(S) /\ Replaced(m, l, i, h)
<1> DEFINE left == SubSeq(l, 1, i - 1)
           right == SubSeq(l, i + 1, Len(l))
<1>1. Len(l) \in Nat /\ DOMAIN l = 1 .. Len(l) /\ i \in 1 .. Len(l) /\ Len(h) \in Nat
      /\ DOMAIN h = 1 .. Len(h)
  OBVIOUS
<1>2. left \in Seq(S) /\ Len(left) = i - 1 /\ \A k \in 1 .. i - 1 : left[k] = l[k]
  BY <1>1
<1>3. right \in Seq(S) /\ Len(right) = Len(l) - i
      /\ \A k \in 1 .. Len(l) - i : right[k] = l[i + k]
  BY <1>1
<1>4. m = (left \o h) \o right
  BY DEF BS!PutFor
<1> HIDE DEF left, right
<1> DEFINE n == left \o h
<1>5. n \in Seq(S) /\ Len(n) = i - 1 + Len(h)
      /\ \A k \in 1 .. i - 1 + Len(h) : n[k] = IF k < i THEN l[k] ELSE h[k - i + 1]
  BY <1>1, <1>2, SMTT(30)
<1> HIDE DEF n
<1>6. m = n \o right
  BY <1>4 DEF n
<1>7. /\ m \in Seq(S) /\ Len(m) = Len(n) + Len(right) /\ DOMAIN m = 1 .. Len(m)
      /\ \A k \in 1 .. Len(m) : m[k] = IF k <= Len(n) THEN n[k] ELSE right[k - Len(n)]
  <2>1. Len(n) \in Nat /\ DOMAIN n = 1 .. Len(n) /\ Len(right) \in Nat
    BY <1>3, <1>5
  <2>2. m \in Seq(S) /\ Len(m) = Len(n) + Len(right)
    BY <1>3, <1>5, <1>6
  <2>3. DOMAIN m = 1 .. Len(m)
    BY <2>2
  <2>4. \A k \in 1 .. Len(n) + Len(right) :
          m[k] = IF k <= Len(n) THEN n[k] ELSE right[k - Len(n)]
    <3> SUFFICES ASSUME NEW k \in 1 .. Len(n) + Len(right)
                 PROVE  (n \o right)[k] = IF k <= Len(n) THEN n[k] ELSE right[k - Len(n)]
      BY <1>6
    <3>1. n \in Seq(S) /\ right \in Seq(S)
      BY <1>3, <1>5
    <3> QED  BY <2>1, <3>1
  <2> QED  BY <2>2, <2>3, <2>4
<1>8. Len(m) = Len(l) - 1 + Len(h)
  BY <1>1, <1>3, <1>5, <1>7
<1>9. ASSUME NEW k \in DOMAIN m
      PROVE  m[k] = IF k < i THEN l[k]
                    ELSE IF k < i + Len(h) THEN h[k - i + 1] ELSE l[k - Len(h) + 1]
  <2>1. k \in 1 .. Len(m) /\ k \in Nat
    BY <1>1, <1>7, <1>8
  <2>2. CASE k <= Len(n)
    BY <1>1, <1>5, <1>7, <2>1, <2>2
  <2>3. CASE ~(k <= Len(n))
    <3>1. k - Len(n) \in 1 .. Len(l) - i /\ i + (k - Len(n)) = k - Len(h) + 1
          /\ ~(k < i) /\ ~(k < i + Len(h))
      BY <1>1, <1>5, <1>8, <2>1, <2>3
    <3>2. m[k] = l[i + (k - Len(n))]
      BY <1>3, <1>7, <2>1, <2>3, <3>1
    <3> QED  BY <3>1, <3>2
  <2> QED  BY <2>2, <2>3
<1> QED  BY <1>7, <1>8, <1>9 DEF Replaced

(* Splitting keeps the invariant.  First the blocks: what becomes of the   *)
(* block at a lies in it, side by side.                                    *)
Parts(a, q, p) == {a} \cup {a + BS!Words[r] : r \in q .. p - 1}

(* The parts are typed, and each ends where the next one begins.           *)
LEMMA PartsFill ==
  ASSUME BuddyInv, NEW i, NEW a, NEW p, NEW q, Splits(i, a, p, q)
  PROVE  /\ a \in DOMAIN power \ occupied /\ p \in 0 .. BuddiesPower /\ q \in 0 .. p
         /\ a \in Nat /\ Upto(a) \in Nat /\ Upto(a) = a + BS!Words[p]
         /\ \A x \in Parts(a, q, p) :
              /\ x \in Nat /\ power'[x] \in 0 .. BuddiesPower /\ x % BS!Words[power'[x]] = 0
              /\ a <= x /\ Upto(x)' <= Upto(a) /\ Upto(x)' \in Nat
         /\ Upto(a)' = a + BS!Words[q]
         /\ \A r \in q .. p - 1 : /\ BS!Words[r] \in Nat /\ BS!Words[r + 1] \in Nat
                                  /\ Upto(a + BS!Words[r])' = a + BS!Words[r + 1]
<1>1. /\ i \in DOMAIN list /\ a = list[i] /\ p = power[a] /\ q \in 0 .. p
      /\ power'[a] = q /\ \A r \in q .. p - 1 : power'[a + BS!Words[r]] = r
  BY DEF Splits
<1>2. a \in DOMAIN power \ occupied
  BY <1>1 DEF BuddyInv, LinkedOnce
<1>3. p \in 0 .. BuddiesPower /\ a \in Nat /\ a % BS!Words[p] = 0 /\ Upto(a) = a + BS!Words[p]
  BY <1>1, <1>2 DEF BuddyInv, BlocksTyped, Upto
<1>4. BS!Words[p] \in Nat /\ Upto(a) \in Nat
  BY <1>3, WordsDouble
<1>5. q \in 0 .. BuddiesPower /\ BS!Words[q] <= BS!Words[p] /\ BS!Words[q] \in Nat
  BY <1>1, <1>3, WordsDouble
<1>6. Upto(a)' = a + BS!Words[q]
  BY <1>1 DEF Upto
<1>7. a % BS!Words[q] = 0
  <2>1. CASE q = p
    BY <1>3, <2>1
  <2>2. CASE q # p
    <3>1. q < p
      BY <1>1, <1>3, <2>2
    <3> QED  BY <1>3, <1>5, <3>1, BuddyAbove
  <2> QED  BY <2>1, <2>2
<1>8. ASSUME NEW r \in q .. p - 1
      PROVE  /\ r \in 0 .. BuddiesPower /\ r < p
             /\ BS!Words[r] \in Nat /\ BS!Words[r + 1] \in Nat
             /\ Upto(a + BS!Words[r])' = a + BS!Words[r + 1]
             /\ a + BS!Words[r + 1] <= Upto(a)
             /\ power'[a + BS!Words[r]] = r
             /\ (a + BS!Words[r]) % BS!Words[r] = 0
  <2>1. r \in 0 .. BuddiesPower /\ r < p
    BY <1>1, <1>3, WordsDouble
  <2>2. /\ BS!Words[r] + BS!Words[r] <= BS!Words[p]
        /\ r + 1 \in 0 .. BuddiesPower /\ BS!Words[r + 1] = BS!Words[r] + BS!Words[r]
    BY <1>3, <2>1, WordsLess
  <2>3. BS!Words[r] \in Nat /\ BS!Words[r + 1] \in Nat
    BY <2>1, <2>2, WordsDouble
  <2>4. power'[a + BS!Words[r]] = r
    BY <1>1
  <2>5. Upto(a + BS!Words[r])' = a + BS!Words[r + 1]
    BY <1>3, <2>2, <2>3, <2>4 DEF Upto
  <2>6. (a + BS!Words[r]) % BS!Words[r] = 0
    BY <1>3, <2>1, BuddyAbove
  <2> QED  BY <1>3, <1>4, <2>1, <2>2, <2>3, <2>4, <2>5, <2>6
<1>9. ASSUME NEW x \in Parts(a, q, p)
      PROVE  /\ x \in Nat /\ power'[x] \in 0 .. BuddiesPower /\ x % BS!Words[power'[x]] = 0
             /\ a <= x /\ Upto(x)' <= Upto(a) /\ Upto(x)' \in Nat
  <2>1. CASE x = a
    <3>1. power'[x] = q /\ Upto(x)' = a + BS!Words[q]
      BY <1>1, <1>6, <2>1
    <3> QED  BY <1>3, <1>4, <1>5, <1>7, <2>1, <3>1
  <2>2. ASSUME NEW r \in q .. p - 1, x = a + BS!Words[r]
        PROVE  /\ x \in Nat /\ power'[x] \in 0 .. BuddiesPower /\ x % BS!Words[power'[x]] = 0
               /\ a <= x /\ Upto(x)' <= Upto(a) /\ Upto(x)' \in Nat
    <3>1. Upto(x)' = a + BS!Words[r + 1] /\ power'[x] = r
      BY <1>8, <2>2
    <3>2. /\ BS!Words[r] \in Nat /\ BS!Words[r + 1] \in Nat /\ a + BS!Words[r + 1] <= Upto(a)
          /\ r \in 0 .. BuddiesPower /\ x % BS!Words[r] = 0
      BY <1>8, <2>2
    <3> QED  BY <1>3, <2>2, <3>1, <3>2
  <2> QED  BY <2>1, <2>2 DEF Parts
<1>10. q \in 0 .. p
  BY <1>1
<1> QED  BY <1>2, <1>3, <1>4, <1>6, <1>8, <1>9, <1>10

(* So the parts and the other blocks tile the arena.                       *)
LEMMA SplitsTile ==
  ASSUME BuddyInv, NEW i, NEW a, NEW p, NEW q, Splits(i, a, p, q)
  PROVE  BlocksTyped' /\ BlocksTile'
<1> DEFINE Part == Parts(a, q, p)
           Rest == DOMAIN power \ {a}
<1>1. /\ a \in DOMAIN power \ occupied /\ p \in 0 .. BuddiesPower /\ q \in 0 .. p
      /\ a \in Nat /\ Upto(a) \in Nat /\ Upto(a) = a + BS!Words[p]
      /\ \A x \in Part :
           /\ x \in Nat /\ power'[x] \in 0 .. BuddiesPower /\ x % BS!Words[power'[x]] = 0
           /\ a <= x /\ Upto(x)' <= Upto(a) /\ Upto(x)' \in Nat
      /\ Upto(a)' = a + BS!Words[q]
      /\ \A r \in q .. p - 1 : /\ BS!Words[r] \in Nat /\ BS!Words[r + 1] \in Nat
                               /\ Upto(a + BS!Words[r])' = a + BS!Words[r + 1]
  BY PartsFill
<1>2. DOMAIN power' = Rest \cup Part
  BY <1>1 DEF Splits, Parts
<1>3. ASSUME NEW x \in Rest
      PROVE  /\ power'[x] = power[x] /\ Upto(x)' = Upto(x) /\ x \in Nat /\ Upto(x) \in Nat
             /\ power[x] \in 0 .. BuddiesPower /\ x % BS!Words[power[x]] = 0
             /\ Upto(x) <= BS!Size /\ (Upto(x) <= a \/ Upto(a) <= x)
  <2>1. power'[x] = power[x]
    BY DEF Splits
  <2>2. Upto(x)' = Upto(x)
    BY <2>1 DEF Upto
  <2>3. /\ x \in Nat /\ power[x] \in 0 .. BuddiesPower /\ x % BS!Words[power[x]] = 0
        /\ Upto(x) <= BS!Size
    BY DEF BuddyInv, BlocksTyped
  <2>4. Upto(x) \in Nat
    BY <2>3, WordsDouble DEF Upto
  <2>5. Upto(x) <= a \/ Upto(a) <= x
    BY <1>1 DEF BuddyInv, BlocksTile
  <2> QED  BY <2>1, <2>2, <2>3, <2>4, <2>5
<1>4. BS!Size \in Nat /\ Upto(a) <= BS!Size
  BY <1>1, WordsDouble DEF BS!Size, BuddyInv, BlocksTyped
<1> HIDE DEF Part, Rest
<1>5. BlocksTyped'
  <2>1. ASSUME NEW x \in DOMAIN power'
        PROVE  /\ x \in Nat /\ power'[x] \in 0 .. BuddiesPower
               /\ x % BS!Words[power'[x]] = 0 /\ Upto(x)' <= BS!Size
    <3>1. CASE x \in Rest
      BY <1>3, <3>1
    <3>2. CASE x \in Part
      BY <1>1, <1>4, <3>2
    <3> QED  BY <1>2, <3>1, <3>2
  <2> QED  BY <2>1 DEF BlocksTyped
<1>6. ASSUME NEW x \in Part, NEW y \in Part
      PROVE  x = y \/ Upto(x)' <= y \/ Upto(y)' <= x
  <2>1. ASSUME NEW r \in q .. p - 1  PROVE Upto(a)' <= a + BS!Words[r]
    <3>1. r \in 0 .. BuddiesPower /\ q \in 0 .. BuddiesPower /\ q <= r
      BY <1>1, WordsDouble
    <3>2. BS!Words[q] <= BS!Words[r] /\ BS!Words[q] \in Nat /\ BS!Words[r] \in Nat
      BY <3>1, WordsDouble
    <3> QED  BY <1>1, <3>2
  <2>2. ASSUME NEW r \in q .. p - 1, NEW s \in q .. p - 1, r < s
        PROVE  Upto(a + BS!Words[r])' <= a + BS!Words[s]
    <3>1. r + 1 \in 0 .. BuddiesPower /\ s \in 0 .. BuddiesPower /\ r + 1 <= s
      BY <1>1, <2>2, WordsDouble
    <3>2. BS!Words[r + 1] <= BS!Words[s] /\ BS!Words[r + 1] \in Nat /\ BS!Words[s] \in Nat
      BY <3>1, WordsDouble
    <3>3. Upto(a + BS!Words[r])' = a + BS!Words[r + 1]
      BY <1>1
    <3> QED  BY <1>1, <3>2, <3>3
  <2>3. ASSUME NEW r \in q .. p - 1, NEW s \in q .. p - 1
        PROVE  r < s \/ s < r \/ r = s
    BY <1>1
  <2> QED  BY <2>1, <2>2, <2>3 DEF Part, Parts
<1>7. ASSUME NEW x \in DOMAIN power', NEW y \in DOMAIN power'
      PROVE  x = y \/ Upto(x)' <= y \/ Upto(y)' <= x
  <2>1. CASE x \in Rest /\ y \in Rest
    <3>1. x = y \/ Upto(x) <= y \/ Upto(y) <= x
      BY <2>1 DEF BuddyInv, BlocksTile, Rest
    <3> QED  BY <1>3, <2>1, <3>1
  <2>2. CASE x \in Rest /\ y \in Part
    BY <1>1, <1>3, <2>2
  <2>3. CASE x \in Part /\ y \in Rest
    BY <1>1, <1>3, <2>3
  <2>4. CASE x \in Part /\ y \in Part
    BY <1>6, <2>4
  <2> QED  BY <1>2, <2>1, <2>2, <2>3, <2>4
<1>8. ASSUME NEW w \in Nat, a <= w, w < Upto(a)
      PROVE  \E x \in Part : x <= w /\ w < Upto(x)'
  <2>1. CASE w < Upto(a)'
    <3>1. a \in Part
      BY DEF Part, Parts
    <3> QED  BY <1>8, <2>1, <3>1
  <2>2. CASE ~(w < Upto(a)')
    <3> DEFINE S == {r \in q .. p - 1 : a + BS!Words[r] <= w}
    <3>1. q < p /\ q \in q .. p - 1 /\ a + BS!Words[q] <= w
      <4>1. q \in 0 .. BuddiesPower /\ BS!Words[q] \in Nat
        BY <1>1, WordsDouble
      <4>2. a + BS!Words[q] <= w
        BY <1>1, <1>8, <2>2, <4>1
      <4>3. q # p
        BY <1>1, <1>8, <2>2
      <4> QED  BY <1>1, <4>2, <4>3
    <3>2. p \in Nat /\ S \in SUBSET (0 .. p) /\ S # {}
      BY <1>1, <3>1
    <3> HIDE DEF S
    <3>3. PICK r \in S : \A s \in S : r >= s
      BY <3>2, GreatestExists
    <3>4. r \in q .. p - 1 /\ a + BS!Words[r] <= w
      BY DEF S
    <3>5. w < a + BS!Words[r + 1]
      <4>1. CASE r = p - 1
        <5>1. r + 1 = p
          BY <1>1, <4>1
        <5> QED  BY <1>1, <1>8, <5>1
      <4>2. CASE r # p - 1
        <5>1. r + 1 \in q .. p - 1 /\ ~(r >= r + 1)
          BY <1>1, <3>4, <4>2
        <5>2. ~(a + BS!Words[r + 1] <= w)
          BY <3>3, <5>1 DEF S
        <5>3. BS!Words[r + 1] \in Nat
          BY <1>1, <3>4
        <5> QED  BY <1>1, <1>8, <5>2, <5>3
      <4> QED  BY <4>1, <4>2
    <3>6. Upto(a + BS!Words[r])' = a + BS!Words[r + 1]
      BY <1>1, <3>4
    <3>7. a + BS!Words[r] \in Part
      BY <3>4 DEF Part, Parts
    <3>8. w < Upto(a + BS!Words[r])'
      BY <3>5, <3>6
    <3> QED  BY <3>4, <3>7, <3>8
  <2> QED  BY <2>1, <2>2
<1>9. ASSUME NEW w \in 0 .. BS!Size - 1
      PROVE  \E x \in DOMAIN power' : x <= w /\ w < Upto(x)'
  <2>1. PICK x \in DOMAIN power : x <= w /\ w < Upto(x)
    BY DEF BuddyInv, BlocksTile
  <2>2. CASE x = a
    <3>1. w \in Nat
      BY <1>4
    <3> QED  BY <1>2, <1>8, <2>1, <2>2, <3>1
  <2>3. CASE x # a
    <3>1. x \in Rest
      BY <2>3 DEF Rest
    <3>2. x \in DOMAIN power' /\ Upto(x)' = Upto(x)
      BY <1>2, <1>3, <3>1
    <3> QED  BY <2>1, <3>2
  <2> QED  BY <2>2, <2>3
<1>10. BS!Size' = BS!Size
  BY DEF BS!Size
<1>11. BlocksTile'
  BY <1>7, <1>9, <1>10 DEF BlocksTile
<1> QED  BY <1>5, <1>11

(* Then the list: what is linked is free, and linked once.                 *)
LEMMA SplitsLink ==
  ASSUME BuddyInv, NEW i, NEW a, NEW p, NEW q, Splits(i, a, p, q)
  PROVE  LinkedOnce' /\ Handed'
<1> DEFINE h == Upper(a, q, p)
           n == p - q
           m == BS!PutFor(list, i, h)
           Old(k) == k < i \/ k >= i + n
<1>1. /\ i \in DOMAIN list /\ a = list[i] /\ p = power[a]
      /\ DOMAIN power' = DOMAIN power \cup {a + BS!Words[r] : r \in q .. p - 1}
      /\ occupied' = occupied \cup {a} /\ held' = held \cup {a} /\ list' = m
  BY DEF Splits
<1>2. /\ a \in DOMAIN power \ occupied /\ p \in 0 .. BuddiesPower /\ q \in 0 .. p /\ a \in Nat
      /\ \A r \in q .. p - 1 : BS!Words[r] \in Nat
  BY PartsFill
<1>3. /\ list \in Seq(DOMAIN power \ occupied) /\ DOMAIN list = 1 .. Len(list) /\ Len(list) \in Nat
      /\ \A j, k \in DOMAIN list : list[j] = list[k] => j = k
      /\ \A k \in DOMAIN list : list[k] \in DOMAIN power \ occupied
  BY DEF BuddyInv, LinkedOnce
<1>4. list \in Seq(Nat)
  <2>1. DOMAIN power \ occupied \subseteq Nat
    BY DEF BuddyInv, BlocksTyped
  <2> QED  BY <1>3, <2>1
<1>5. /\ h \in Seq(Nat) /\ Len(h) = n /\ n \in Nat
      /\ \A j \in 1 .. n : h[j] = a + BS!Words[q + j - 1] /\ q + j - 1 \in q .. p - 1
  <2>1. n \in Nat /\ \A j \in 1 .. n : q + j - 1 \in q .. p - 1
    BY <1>2
  <2>2. \A j \in 1 .. n : a + BS!Words[q + j - 1] \in Nat
    BY <1>2, <2>1
  <2> QED  BY <2>1, <2>2 DEF Upper
<1>6. ASSUME NEW r \in q .. p - 1
      PROVE  a + BS!Words[r] \in DOMAIN power' /\ a + BS!Words[r] \notin DOMAIN power
  <2>1. r \in 0 .. power[a] - 1
    BY <1>1, <1>2
  <2> QED  BY <1>1, <1>2, <2>1, UpperInside
<1> HIDE DEF h, m
<1>7. /\ m \in Seq(Nat) /\ Len(m) = Len(list) - 1 + n
      /\ \A k \in DOMAIN m : m[k] = IF k < i THEN list[k]
                                    ELSE IF k < i + n THEN h[k - i + 1] ELSE list[k - n + 1]
  <2> HIDE DEF n
  <2>1. /\ m \in Seq(Nat) /\ Len(m) = Len(list) - 1 + Len(h)
        /\ \A k \in DOMAIN m : m[k] = IF k < i THEN list[k]
                               ELSE IF k < i + Len(h) THEN h[k - i + 1] ELSE list[k - Len(h) + 1]
    <3>1. i \in DOMAIN list /\ list \in Seq(Nat) /\ h \in Seq(Nat)
      BY <1>1, <1>4, <1>5
    <3>2. m = BS!PutFor(list, i, h)
      BY DEF m
    <3>3. m \in Seq(Nat) /\ Replaced(m, list, i, h)
      BY <3>1, <3>2, PutForLists
    <3> QED  BY <3>3 DEF Replaced
  <2>2. Len(h) = n
    BY <1>5
  <2> QED  BY <2>1, <2>2
<1>8. DOMAIN m = 1 .. Len(m) /\ Len(m) \in Nat /\ i \in 1 .. Len(list)
  BY <1>1, <1>3, <1>7
<1> HIDE DEF n
<1>9. ASSUME NEW k \in DOMAIN m, Old(k)
      PROVE  \E o \in DOMAIN list : /\ m[k] = list[o] /\ o # i
                                    /\ o = IF k < i THEN k ELSE k - n + 1
  <2>1. CASE k < i
    BY <1>3, <1>5, <1>7, <1>8, <2>1
  <2>2. CASE ~(k < i)
    <3>1. k >= i + n /\ ~(k < i + n)
      BY <1>5, <1>8, <1>9, <2>2
    <3>2. k - n + 1 \in 1 .. Len(list) /\ k - n + 1 # i
      BY <1>5, <1>7, <1>8, <3>1
    <3> QED  BY <1>3, <1>7, <2>2, <3>1, <3>2
  <2> QED  BY <2>1, <2>2
<1>10. ASSUME NEW k \in DOMAIN m, ~Old(k)
       PROVE  /\ k - i + 1 \in 1 .. n
              /\ m[k] = a + BS!Words[q + (k - i + 1) - 1]
              /\ q + (k - i + 1) - 1 \in q .. p - 1
  <2>1. ~(k < i) /\ k < i + n /\ k - i + 1 \in 1 .. n
    BY <1>5, <1>8, <1>10
  <2> QED  BY <1>5, <1>7, <2>1
<1>11. ASSUME NEW k \in DOMAIN m, Old(k)
       PROVE  m[k] \in DOMAIN power \ occupied /\ m[k] # a
  BY <1>1, <1>3, <1>9, <1>11
<1>12. ASSUME NEW k \in DOMAIN m, ~Old(k)
       PROVE  m[k] \in DOMAIN power' /\ m[k] \notin DOMAIN power
  BY <1>6, <1>10, <1>12
<1>13. \A k \in DOMAIN m : m[k] \in DOMAIN power' \ occupied'
  <2> SUFFICES ASSUME NEW k \in DOMAIN m  PROVE m[k] \in DOMAIN power' \ occupied'
    OBVIOUS
  <2>1. occupied \subseteq DOMAIN power
    BY DEF BuddyInv, Handed
  <2>2. CASE Old(k)
    BY <1>1, <1>11, <2>2
  <2>3. CASE ~Old(k)
    BY <1>1, <1>2, <1>12, <2>1, <2>3
  <2> QED  BY <2>2, <2>3
<1>14. m \in Seq(DOMAIN power' \ occupied')
  BY <1>7, <1>13
<1>15. ASSUME NEW j \in DOMAIN m, NEW k \in DOMAIN m, m[j] = m[k]  PROVE j = k
  <2>1. CASE Old(j) /\ Old(k)
    <3>1. PICK o \in DOMAIN list : m[j] = list[o] /\ o = IF j < i THEN j ELSE j - n + 1
      BY <1>9, <2>1
    <3>2. PICK u \in DOMAIN list : m[k] = list[u] /\ u = IF k < i THEN k ELSE k - n + 1
      BY <1>9, <2>1
    <3>3. o = u
      BY <1>3, <1>15, <3>1, <3>2
    <3> QED  BY <1>5, <1>8, <2>1, <3>1, <3>2, <3>3
  <2>2. CASE ~Old(j) /\ ~Old(k)
    <3>1. PICK r : r = q + (j - i + 1) - 1
      OBVIOUS
    <3>2. PICK s : s = q + (k - i + 1) - 1
      OBVIOUS
    <3>3. r \in q .. p - 1 /\ s \in q .. p - 1 /\ a + BS!Words[r] = a + BS!Words[s]
      BY <1>10, <1>15, <2>2, <3>1, <3>2
    <3>4. BS!Words[r] = BS!Words[s]
      BY <1>2, <3>3
    <3>5. r \in 0 .. BuddiesPower /\ s \in 0 .. BuddiesPower
      BY <1>2, <3>3, WordsDouble
    <3>6. r = s
      BY <3>4, <3>5, UpperApart
    <3> QED  BY <1>2, <1>8, <3>1, <3>2, <3>6
  <2>3. CASE Old(j) /\ ~Old(k)
    BY <1>11, <1>12, <1>15, <2>3
  <2>4. CASE ~Old(j) /\ Old(k)
    BY <1>11, <1>12, <1>15, <2>4
  <2> QED  BY <2>1, <2>2, <2>3, <2>4
<1>16. LinkedOnce'
  BY <1>1, <1>14, <1>15 DEF LinkedOnce
<1>17. Handed'
  BY <1>1, <1>2 DEF Handed, BuddyInv
<1> QED  BY <1>16, <1>17

(* Giving back changes neither the blocks nor the list: the block is at    *)
(* most marked free, and is never linked again.                            *)
LEMMA ReturnKeeps ==
  ASSUME BuddyInv, NEW a \in held, BS!Deallocate(a)
  PROVE  BuddyInv'
<1>1. /\ UNCHANGED <<power, list, fit, crashed>> /\ held' = held \ {a}
      /\ occupied' = occupied \/ occupied' = occupied \ {a}
  BY DEF BS!Deallocate
<1>2. BlocksTyped' /\ BlocksTile'
  BY <1>1 DEF BuddyInv, BlocksTyped, BlocksTile, Upto, BS!Size
<1>3. LinkedOnce'
  <2>1. list \in Seq(DOMAIN power \ occupied)
        /\ DOMAIN power \ occupied \subseteq DOMAIN power' \ occupied'
    BY <1>1 DEF BuddyInv, LinkedOnce
  <2>2. list \in Seq(DOMAIN power' \ occupied')
    BY <2>1
  <2> QED  BY <1>1, <2>2 DEF BuddyInv, LinkedOnce
<1>4. Handed'
  BY <1>1 DEF BuddyInv, Handed
<1> QED  BY <1>1, <1>2, <1>3, <1>4 DEF BuddyInv

(* What nothing of the blocks changes in, keeps the invariant.             *)
LEMMA StillKeeps ==
  ASSUME BuddyInv, UNCHANGED <<power, occupied, list, held>>,
         fit' \in BS!FitModes, crashed' \in BOOLEAN
  PROVE  BuddyInv'
<1>1. BlocksTyped' /\ BlocksTile'
  BY DEF BuddyInv, BlocksTyped, BlocksTile, Upto, BS!Size
<1>2. LinkedOnce' /\ Handed'
  BY DEF BuddyInv, LinkedOnce, Handed
<1> QED  BY <1>1, <1>2 DEF BuddyInv

(* The invariant of the buddies holds at the start, ...                    *)
LEMMA BuddyInvInit == Init /\ variant = "buddy_system" => BuddyInv
<1> SUFFICES ASSUME Init, variant = "buddy_system"  PROVE BuddyInv
  OBVIOUS
<1>1. /\ power = [a \in {0} |-> BuddiesPower] /\ occupied = {} /\ list = <<0>>
      /\ fit \in BS!FitModes /\ held = {} /\ crashed = FALSE
  BY DEF Init, BS!Init
<1>2. DOMAIN power = {0} /\ power[0] = BuddiesPower /\ BuddiesPower \in 0 .. BuddiesPower
  BY <1>1, WordsDouble
<1>3. BS!Words[BuddiesPower] \in Nat /\ BS!Words[BuddiesPower] >= 1
  BY <1>2, WordsDouble
<1>4. Upto(0) = BS!Size /\ BS!Size \in Nat
  BY <1>2, <1>3 DEF Upto, BS!Size
<1>5. 0 % BS!Words[BuddiesPower] = 0
  BY <1>3
<1>6. BlocksTyped /\ BlocksTile
  BY <1>2, <1>4, <1>5 DEF BlocksTyped, BlocksTile
<1>7. list \in Seq(DOMAIN power \ occupied) /\ DOMAIN list = {1}
  BY <1>1, <1>2
<1>8. LinkedOnce /\ Handed
  BY <1>1, <1>7 DEF LinkedOnce, Handed
<1> QED  BY <1>1, <1>6, <1>8 DEF BuddyInv

(* ... and is kept by every call.                                          *)
LEMMA BuddyInvStep ==
  ASSUME BuddyInv, BS!Next \/ UNCHANGED <<power, occupied, list, crashed, avail, fit, held>>
  PROVE  BuddyInv'
<1>1. ASSUME NEW q \in 0 .. BuddiesPower, BS!Allocate(q)  PROVE BuddyInv'
  <2>1. CASE Fails
    <3>1. UNCHANGED <<power, occupied, list, held>> /\ fit' \in BS!FitModes /\ crashed' \in BOOLEAN
      BY <2>1 DEF Fails, BuddyInv
    <3> QED  BY <3>1, StillKeeps
  <2>2. ASSUME NEW i, NEW a, NEW p, Splits(i, a, p, q)  PROVE BuddyInv'
    <3>1. BlocksTyped' /\ BlocksTile' /\ LinkedOnce' /\ Handed'
      BY <2>2, SplitsTile, SplitsLink
    <3>2. fit' = fit /\ crashed' = crashed
      BY <2>2 DEF Splits
    <3> QED  BY <3>1, <3>2 DEF BuddyInv
  <2> QED  BY <1>1, <2>1, <2>2, AllocateSplits
<1>2. ASSUME NEW a \in held, BS!Deallocate(a)  PROVE BuddyInv'
  BY <1>2, ReturnKeeps
<1>3. ASSUME BS!SetFitMode \/ UNCHANGED <<power, occupied, list, crashed, avail, fit, held>>
      PROVE  BuddyInv'
  <2>1. UNCHANGED <<power, occupied, list, held>> /\ fit' \in BS!FitModes /\ crashed' \in BOOLEAN
    BY <1>3 DEF BS!SetFitMode, BuddyInv
  <2> QED  BY <2>1, StillKeeps
<1> QED  BY <1>1, <1>2, <1>3 DEF BS!Next

-----------------------------------------------------------------------------
(* What the buddies have handed out, with the sizes.                       *)
Lent == [a \in held |-> BS!Words[power[a]]]

WithLent(a, n) == [b \in DOMAIN Lent \cup {a} |-> IF b = a THEN n ELSE Lent[b]]

(* The size that is reported is the number of spare words.                 *)
BuddiesExact == avail = Cardinality(Spare(Lent, BS!Size))

(* What is lent lies in the arena, and no two blocks of it overlap.        *)
LEMMA LentTyped ==
  ASSUME BuddyInv
  PROVE  /\ BS!Size \in Nat /\ DOMAIN Lent = held
         /\ \A a \in held : /\ a \in Nat /\ Lent[a] \in Nat /\ Lent[a] >= 1
                            /\ a + Lent[a] <= BS!Size /\ Lent[a] = BS!Words[power[a]]
                            /\ Upto(a) = a + Lent[a] /\ a \in DOMAIN power /\ a \in occupied
         /\ \A a, b \in held : a # b => A!Apart(a, Lent[a], b, Lent[b])
<1>1. BS!Size \in Nat /\ DOMAIN Lent = held
  BY WordsDouble DEF BS!Size, Lent
<1>2. ASSUME NEW a \in held
      PROVE  /\ a \in Nat /\ Lent[a] \in Nat /\ Lent[a] >= 1
             /\ a + Lent[a] <= BS!Size /\ Lent[a] = BS!Words[power[a]]
             /\ Upto(a) = a + Lent[a] /\ a \in DOMAIN power /\ a \in occupied
  <2>1. a \in DOMAIN power /\ a \in occupied
    BY DEF BuddyInv, Handed
  <2>2. Lent[a] = BS!Words[power[a]]
    BY DEF Lent
  <2>3. a \in Nat /\ power[a] \in 0 .. BuddiesPower /\ Upto(a) <= BS!Size
    BY <2>1 DEF BuddyInv, BlocksTyped
  <2> QED  BY <2>1, <2>2, <2>3, WordsDouble DEF Upto
<1>3. ASSUME NEW a \in held, NEW b \in held, a # b  PROVE A!Apart(a, Lent[a], b, Lent[b])
  <2>1. Upto(a) <= b \/ Upto(b) <= a
    BY <1>2, <1>3 DEF BuddyInv, BlocksTile
  <2> QED  BY <1>2, <2>1 DEF A!Apart
<1> QED  BY <1>1, <1>2, <1>3

(* To split is to grant the lowest part, to deallocate is to give back.    *)
LEMMA SplitGrants ==
  ASSUME BuddyInv, NEW i, NEW a, NEW p, NEW q, Splits(i, a, p, q)
  PROVE  /\ BS!Words[q] \in 1 .. BS!Size /\ a \in 0 .. BS!Size - BS!Words[q]
         /\ \A b \in DOMAIN Lent : A!Apart(a, BS!Words[q], b, Lent[b])
         /\ Lent' = WithLent(a, BS!Words[q])
<1>1. /\ a \in DOMAIN power \ occupied /\ p \in 0 .. BuddiesPower /\ q \in 0 .. p
      /\ a \in Nat /\ Upto(a) = a + BS!Words[p]
  BY PartsFill
<1>2. BS!Size \in Nat /\ Upto(a) <= BS!Size
  BY <1>1, LentTyped DEF BuddyInv, BlocksTyped
<1>3. q \in 0 .. BuddiesPower
  BY <1>1, WordsDouble
<1>4. BS!Words[q] \in Nat /\ BS!Words[q] >= 1 /\ BS!Words[q] <= BS!Words[p] /\ BS!Words[p] \in Nat
  BY <1>1, <1>3, WordsDouble
<1>5. ASSUME NEW b \in held
      PROVE  b # a /\ A!Apart(a, BS!Words[q], b, Lent[b])
  <2>1. b \in DOMAIN power /\ b \in occupied /\ b # a /\ Upto(b) = b + Lent[b]
        /\ b \in Nat /\ Lent[b] \in Nat
    BY <1>1, LentTyped
  <2>2. Upto(a) <= b \/ Upto(b) <= a
    BY <1>1, <2>1 DEF BuddyInv, BlocksTile
  <2> QED  BY <1>1, <1>4, <2>1, <2>2 DEF A!Apart
<1>6. Lent' = WithLent(a, BS!Words[q])
  <2>1. Lent' = [b \in held' |-> BS!Words[power'[b]]]
    BY DEF Lent
  <2>2. held' = held \cup {a} /\ power'[a] = q
        /\ \A b \in DOMAIN power \ {a} : power'[b] = power[b]
    BY DEF Splits
  <2>3. ASSUME NEW b \in held  PROVE b # a /\ BS!Words[power'[b]] = Lent[b]
    <3>1. b \in DOMAIN power /\ b # a /\ Lent[b] = BS!Words[power[b]]
      BY <1>5, LentTyped
    <3> QED  BY <2>2, <3>1
  <2>4. DOMAIN Lent = held
    BY LentTyped
  <2> QED  BY <2>1, <2>2, <2>3, <2>4 DEF WithLent
<1>7. BS!Words[q] \in 1 .. BS!Size /\ a \in 0 .. BS!Size - BS!Words[q]
  BY <1>1, <1>2, <1>4
<1> QED  BY <1>5, <1>6, <1>7, LentTyped

(* Giving back takes the block from what is lent.                          *)
LEMMA ReturnGives ==
  ASSUME BuddyInv, NEW a \in held, BS!Deallocate(a)
  PROVE  /\ Lent' = [b \in DOMAIN Lent \ {a} |-> Lent[b]]
         /\ avail' = avail + Lent[a]
  BY DEF BS!Deallocate, Lent

(* Every call changes the reported size and the spare words alike.         *)
LEMMA BuddiesExactStep ==
  ASSUME BuddyInv, BuddiesExact,
         BS!Next \/ UNCHANGED <<power, occupied, list, crashed, avail, fit, held>>
  PROVE  BuddiesExact'
<1>1. BS!Size \in Nat /\ BS!Size' = BS!Size
  BY LentTyped DEF BS!Size
<1>2. ASSUME NEW q \in 0 .. BuddiesPower, BS!Allocate(q)  PROVE BuddiesExact'
  <2>1. CASE Fails
    BY <1>1, <2>1 DEF Fails, BuddiesExact, Lent
  <2>2. ASSUME NEW i, NEW a, NEW p, Splits(i, a, p, q)  PROVE BuddiesExact'
    <3>1. PICK s : s = BS!Words[q]
      OBVIOUS
    <3>2. /\ s \in 1 .. BS!Size /\ a \in 0 .. BS!Size - s
          /\ \A b \in DOMAIN Lent : A!Apart(a, s, b, Lent[b])
          /\ Lent' = WithLent(a, s)
      BY <2>2, <3>1, SplitGrants
    <3>3. \A b \in DOMAIN Lent : b \in Nat /\ Lent[b] \in Nat /\ Lent[b] >= 1
      BY LentTyped
    <3>4. /\ DOMAIN Lent' = DOMAIN Lent \cup {a} /\ Lent'[a] = s
          /\ \A b \in DOMAIN Lent : Lent'[b] = Lent[b]
      <4>1. a \notin DOMAIN Lent
        BY <3>2, <3>3 DEF A!Apart
      <4> QED  BY <3>2, <4>1 DEF WithLent
    <3>5. Cardinality(Spare(Lent', BS!Size)) = Cardinality(Spare(Lent, BS!Size)) - s
      BY <1>1, <3>2, <3>3, <3>4, GrantSpares
    <3>6. avail' = avail - s
      BY <2>2, <3>1 DEF Splits
    <3> QED  BY <1>1, <3>5, <3>6 DEF BuddiesExact
  <2> QED  BY <1>2, <2>1, <2>2, AllocateSplits
<1>3. ASSUME NEW a \in held, BS!Deallocate(a)  PROVE BuddiesExact'
  <2>1. a \in DOMAIN Lent /\ Lent' = [b \in DOMAIN Lent \ {a} |-> Lent[b]]
        /\ avail' = avail + Lent[a]
    BY <1>3, LentTyped, ReturnGives
  <2>2. PICK s : s = Lent[a]
    OBVIOUS
  <2>3. PICK n : n = BS!Size
    OBVIOUS
  <2>4. n \in Nat /\ s \in 1 .. n /\ a \in 0 .. n - s
    BY <1>1, <2>1, <2>2, <2>3, LentTyped
  <2>5. Cardinality(Spare(Lent, n)) = Cardinality(Spare(Lent', n)) - s
    <3> DEFINE G == Lent'
    <3>1. DOMAIN G = DOMAIN Lent \ {a} /\ \A b \in DOMAIN G : Lent[b] = G[b]
      BY <2>1
    <3>2. \A b \in DOMAIN G : b \in Nat /\ G[b] \in Nat /\ A!Apart(a, s, b, G[b])
      BY <2>1, <2>2, <3>1, LentTyped
    <3> HIDE DEF G
    <3>3. PICK H : H = Lent
      OBVIOUS
    <3>4. DOMAIN H = DOMAIN G \cup {a} /\ H[a] = s /\ \A b \in DOMAIN G : H[b] = G[b]
      BY <2>1, <2>2, <3>1, <3>3
    <3>5. Cardinality(Spare(H, n)) = Cardinality(Spare(G, n)) - s
      BY <2>4, <3>2, <3>4, GrantSpares
    <3> QED  BY <3>3, <3>5 DEF G
  <2>6. Cardinality(Spare(Lent, n)) \in Nat /\ Cardinality(Spare(Lent', n)) \in Nat
    BY <2>4, SpareCounts
  <2> QED  BY <1>1, <2>1, <2>2, <2>3, <2>4, <2>5, <2>6 DEF BuddiesExact
<1>4. ASSUME BS!SetFitMode \/ UNCHANGED <<power, occupied, list, crashed, avail, fit, held>>
      PROVE  BuddiesExact'
  BY <1>1, <1>4 DEF BS!SetFitMode, BuddiesExact, Lent
<1> QED  BY <1>2, <1>3, <1>4 DEF BS!Next

(* Both hold throughout.                                                   *)
BuddiesInv ==
  variant \in Variants /\ (variant = "buddy_system" => BuddyInv /\ BuddiesExact)

(* At the start, ...                                                       *)
LEMMA BuddiesInvInit == Init => BuddiesInv
<1> SUFFICES ASSUME Init, variant = "buddy_system"  PROVE BuddyInv /\ BuddiesExact
  BY DEF Init, BuddiesInv
<1>1. BuddyInv
  BY BuddyInvInit
<1>2. held = {} /\ avail = BS!Size
  BY DEF Init, BS!Init
<1>3. DOMAIN Lent = {} /\ BS!Size \in Nat
  BY <1>1, <1>2, LentTyped
<1> QED  BY <1>1, <1>2, <1>3, SpareCounts DEF BuddiesExact

(* ... after every step, ...                                               *)
LEMMA BuddiesInvStep == BuddiesInv /\ [Next]_vars => BuddiesInv'
<1> SUFFICES ASSUME BuddiesInv, [Next]_vars  PROVE BuddiesInv'
  OBVIOUS
<1>1. variant' = variant
  BY DEF Next, vars
<1>2. ASSUME variant = "buddy_system"  PROVE BuddyInv' /\ BuddiesExact'
  <2>1. BS!Next \/ UNCHANGED <<power, occupied, list, crashed, avail, fit, held>>
    BY <1>2 DEF Next, vars
  <2>2. BuddyInv /\ BuddiesExact
    BY <1>2 DEF BuddiesInv
  <2> QED  BY <2>1, <2>2, BuddyInvStep, BuddiesExactStep
<1> QED  BY <1>1, <1>2 DEF BuddiesInv

(* ... and so always.                                                      *)
LEMMA BuddiesInvHolds == Spec => []BuddiesInv
BY BuddiesInvInit, BuddiesInvStep, PTL DEF Spec

(* Whatever is allocated and given back, and though blocks that are given  *)
(* back are lost: the buddies' blocks tile the arena, at multiples of      *)
(* their sizes, and a block that is linked as free is marked free, linked  *)
(* once, and nobody's.                                                     *)
THEOREM BuddiesStayHalved == Spec => []Halved
<1>1. BuddiesInv => Halved
  <2> SUFFICES ASSUME BuddyInv  PROVE BS!Halved
    BY DEF BuddiesInv, Halved
  <2>1. /\ BS!Size \in Nat /\ BS!Addr = 0 .. BS!Size - 1
    BY LentTyped DEF BS!Addr
  <2>2. ASSUME NEW a \in DOMAIN power
        PROVE  /\ a \in Nat /\ Upto(a) \in Nat /\ a % BS!Words[power[a]] = 0
               /\ Upto(a) <= BS!Size /\ BS!Span(a) = a .. Upto(a) - 1
    <3>1. a \in Nat /\ power[a] \in 0 .. BuddiesPower /\ a % BS!Words[power[a]] = 0
          /\ Upto(a) <= BS!Size
      BY DEF BuddyInv, BlocksTyped
    <3>2. BS!Words[power[a]] \in Nat
      BY <3>1, WordsDouble
    <3> QED  BY <3>1, <3>2 DEF Upto, BS!Span
  <2>3. \A a \in DOMAIN power : a % BS!Words[power[a]] = 0 /\ BS!Span(a) \subseteq BS!Addr
    BY <2>1, <2>2
  <2>4. ASSUME NEW w \in BS!Addr  PROVE \E a \in DOMAIN power : w \in BS!Span(a)
    <3>1. PICK a \in DOMAIN power : a <= w /\ w < Upto(a)
      BY <2>1 DEF BuddyInv, BlocksTile
    <3> QED  BY <2>1, <2>2, <3>1
  <2>5. ASSUME NEW a \in DOMAIN power, NEW b \in DOMAIN power
        PROVE  a = b \/ BS!Span(a) \cap BS!Span(b) = {}
    <3>1. a = b \/ Upto(a) <= b \/ Upto(b) <= a
      BY DEF BuddyInv, BlocksTile
    <3> QED  BY <2>2, <3>1
  <2>6. \A i, j \in DOMAIN list : list[i] = list[j] => i = j
    BY DEF BuddyInv, LinkedOnce
  <2>7. \A i \in DOMAIN list : list[i] \in DOMAIN power \ occupied
    BY DEF BuddyInv, LinkedOnce
  <2> QED  BY <2>3, <2>4, <2>5, <2>6, <2>7 DEF BS!Halved
<1> QED  BY <1>1, BuddiesInvHolds, PTL

(* Whatever the fit mode, and though what is given back is lost, the       *)
(* buddies hand out places that lie in the arena and do not overlap, for   *)
(* an arena of any power of two.                                           *)
THEOREM BuddiesImplementArena ==
  Spec /\ variant = "buddy_system" => ImplementsArena
<1> DEFINE Buddies == variant = "buddy_system"
           Words == CASE variant = "sorted_list"   -> ListSize
                      [] variant = "boundary_tags" -> TagsSize
                      [] variant = "buddy_system"  -> BS!Size
<1>1. Init /\ Buddies => A!Init
  <2> SUFFICES ASSUME Init, Buddies  PROVE A!Init
    OBVIOUS
  <2>1. held = {} /\ BS!Size \in Nat
    BY WordsDouble DEF Init, BS!Init, BS!Size
  <2>2. Granted = Lent
    BY DEF Granted, Lent
  <2>3. Lent = [b \in {} |-> 0]
    BY <2>1 DEF Lent
  <2> QED  BY <2>1, <2>2, <2>3 DEF A!Init
<1>2. Buddies /\ [Next]_vars => Buddies'
  BY DEF Next, vars
<1>3. BuddiesInv /\ Buddies /\ [Next]_vars => [A!Next]_<<Words, Granted>>
  <2> SUFFICES ASSUME BuddiesInv, Buddies, [Next]_vars  PROVE [A!Next]_<<Words, Granted>>
    OBVIOUS
  <2>1. Buddies' /\ Words = BS!Size /\ Words' = BS!Size
    <3>1. BS!Size' = BS!Size
      BY DEF BS!Size
    <3> QED  BY <1>2, <3>1
  <2>2. Granted = Lent /\ Granted' = Lent'
    BY <2>1 DEF Granted, Lent
  <2>3. BS!Next \/ UNCHANGED <<power, held>>
    BY DEF Next, vars
  <2>4. BuddyInv
    BY DEF BuddiesInv
  <2> HIDE DEF Words
  <2>5. ASSUME UNCHANGED <<power, held>>  PROVE UNCHANGED <<Words, Granted>>
    <3>1. Lent' = Lent
      BY <2>5 DEF Lent
    <3> QED  BY <2>1, <2>2, <3>1
  <2>6. ASSUME NEW i, NEW a, NEW p, NEW q, Splits(i, a, p, q)  PROVE A!Next
    <3>1. PICK n : n = BS!Words[q]
      OBVIOUS
    <3>2. /\ n \in 1 .. BS!Size /\ a \in 0 .. BS!Size - n
          /\ \A b \in DOMAIN Lent : A!Apart(a, n, b, Lent[b])
          /\ Lent' = WithLent(a, n)
      BY <2>4, <2>6, <3>1, SplitGrants
    <3>3. A!Grant(a, n)
      BY <2>1, <2>2, <3>2 DEF A!Grant, Words, WithLent
    <3>4. a \in 0 .. BS!Size
      BY <2>4, <3>2, LentTyped
    <3> QED  BY <2>1, <3>2, <3>3, <3>4 DEF A!Next, Words
  <2>7. ASSUME NEW q \in 0 .. BuddiesPower, BS!Allocate(q)
        PROVE  A!Next \/ UNCHANGED <<power, held>>
    BY <2>4, <2>6, <2>7, AllocateSplits DEF Fails
  <2>8. ASSUME NEW a \in held, BS!Deallocate(a)  PROVE A!Next
    <3>1. a \in DOMAIN Lent /\ Lent' = [b \in DOMAIN Lent \ {a} |-> Lent[b]]
      BY <2>4, <2>8, LentTyped, ReturnGives
    <3>2. A!GiveBack(a)
      BY <2>1, <2>2, <3>1 DEF A!GiveBack, Words
    <3> QED  BY <2>2, <3>1, <3>2 DEF A!Next
  <2> QED  BY <2>3, <2>5, <2>7, <2>8 DEF BS!Next, BS!SetFitMode
<1> QED  BY <1>1, <1>2, <1>3, BuddiesInvInit, BuddiesInvStep, PTL
         DEF Spec, ImplementsArena, A!Spec

(* Whichever of the three allocators a collection's constructor chose.     *)
THEOREM CollectionImplementsArena == Spec => ImplementsArena
<1>1. Init => \/ variant = "sorted_list" \/ variant = "boundary_tags"
              \/ variant = "buddy_system"
  BY DEF Init, Variants
<1>2. Spec => Init
  BY PTL DEF Spec
<1> QED  BY <1>1, <1>2, TagsImplementArena, ListImplementsArena, BuddiesImplementArena, PTL

-----------------------------------------------------------------------------
(* The free space of both lists is the number of their spare words.        *)
SpaceInv ==
  /\ variant = "boundary_tags" => TagsExact
  /\ variant = "sorted_list"   => ListExact

(* At the start all words are spare, ...                                   *)
LEMMA SpaceInvInit == Init => SpaceInv
<1> SUFFICES ASSUME Init  PROVE SpaceInv
  OBVIOUS
<1>1. ASSUME variant = "boundary_tags"  PROVE TagsExact
  <2>1. DOMAIN Places = {} /\ avail = TagsSize /\ TagsSize \in Nat
    BY <1>1, SizesAssumption DEF Init, BT!Init, Out, Places
  <2> QED  BY <2>1, SpareCounts DEF TagsExact
<1>2. ASSUME variant = "sorted_list"  PROVE ListExact
  <2>1. DOMAIN Owned = {} /\ avail = ListSize /\ ListSize \in Nat
    BY <1>2, SizesAssumption DEF Init, SL!Init, Owned
  <2> QED  BY <2>1, SpareCounts DEF ListExact
<1> QED  BY <1>1, <1>2 DEF SpaceInv

(* ... and every step keeps the count.                                     *)
LEMMA SpaceInvStep == Inv /\ ListsInv /\ SpaceInv /\ [Next]_vars => SpaceInv'
<1> SUFFICES ASSUME Inv, ListsInv, SpaceInv, [Next]_vars  PROVE SpaceInv'
  OBVIOUS
<1>1. variant' = variant
  BY DEF Next, vars
<1>2. ASSUME variant = "boundary_tags"  PROVE TagsExact'
  <2>1. BT!Next \/ UNCHANGED <<tag, head, avail, fit>>
    BY <1>2 DEF Next, vars
  <2>2. TagsInv /\ TagsExact
    BY <1>2 DEF Inv, SpaceInv
  <2> QED  BY <2>1, <2>2, TagsExactStep
<1>3. ASSUME variant = "sorted_list"  PROVE ListExact'
  <2>1. SL!Next \/ UNCHANGED <<mem, head, avail, fit, held>>
    BY <1>3 DEF Next, vars
  <2>2. PICK F : ListInv(F)
    BY <1>3 DEF ListsInv
  <2>3. ListExact
    BY <1>3 DEF SpaceInv
  <2> QED  BY <2>1, <2>2, <2>3, ListExactStep
<1> QED  BY <1>1, <1>2, <1>3 DEF SpaceInv

(* All invariants hold throughout.                                         *)
LEMMA SpaceInvHolds == Spec => [](Inv /\ ListsInv /\ SpaceInv)
BY InvInit, InvStep, ListsInvInit, ListsInvStep, SpaceInvInit, SpaceInvStep, PTL DEF Spec

(* Whatever is allocated and given back, split and merged, the free space  *)
(* any of the three reports is the number of words of its arena that no    *)
(* block handed out has.                                                   *)
THEOREM FreeSpaceStaysExact == Spec => []FreeSpaceExact
<1>1. ASSUME TagsInv, TagsExact  PROVE BT!AvailableExact
  <2> USE DEF Meta, BT!Meta
  <2>1. \A b \in Out : b \in Nat /\ tag[b].size \in Nat
    BY <1>1 DEF TagsInv, TagsTyped
  <2>2. DOMAIN Places = {b - Meta : b \in Out}
    BY DEF Places
  <2>3. ASSUME NEW b \in Out
        PROVE  b - Meta \in DOMAIN Places /\ Places[b - Meta] = tag[b].size + Meta
    <3>1. (b - Meta) + Meta = b
      BY <2>1
    <3> QED  BY <2>2, <3>1 DEF Places
  <2>4. ASSUME NEW b \in Out
        PROVE  b - Meta .. b - Meta + Places[b - Meta] - 1 = b - Meta .. b + tag[b].size - 1
    <3>1. b - Meta + Places[b - Meta] - 1 = b + tag[b].size - 1
      BY <2>1, <2>3
    <3> QED  BY <3>1
  <2>5. \A w : (\A a \in DOMAIN Places : w \notin a .. a + Places[a] - 1)
               <=> \A b \in Out : w \notin b - Meta .. b + tag[b].size - 1
    BY <2>2, <2>3, <2>4
  <2>6. Spare(Places, TagsSize) =
          {w \in 0 .. TagsSize - 1 : \A b \in Out : w \notin b - Meta .. b + tag[b].size - 1}
    BY <2>5 DEF Spare
  <2> QED  BY <1>1, <2>6 DEF BT!AvailableExact, TagsExact, Out, Cardinality, BT!Cardinality
<1>2. ASSUME NEW F, ListInv(F), ListExact  PROVE SL!FreeSpaceExact
  <2>1. SL!Free = F
    BY <1>2, FreeListed
  <2>2. Spare(Owned, ListSize) =
          {w \in SL!Addr : \E a \in SL!Free : w \in a .. a + SL!BlockSize(a) - 1}
    BY <1>2, <2>1, SpareIsFree
  <2> QED  BY <1>2, <2>2 DEF SL!FreeSpaceExact, ListExact, Cardinality, SL!Cardinality
<1>3. ASSUME BuddyInv, BuddiesExact  PROVE BS!AvailableExact
  <2>1. Spare(Lent, BS!Size) = {w \in BS!Addr : \A a \in held : w \notin BS!Span(a)}
    BY <1>3, LentTyped DEF Spare, BS!Addr, BS!Span
  <2> QED  BY <1>3, <2>1 DEF BS!AvailableExact, BuddiesExact, Cardinality, BS!Cardinality
<1>4. Inv /\ ListsInv /\ SpaceInv /\ BuddiesInv => FreeSpaceExact
  BY <1>1, <1>2, <1>3 DEF Inv, ListsInv, SpaceInv, BuddiesInv, FreeSpaceExact
<1> QED  BY <1>4, SpaceInvHolds, BuddiesInvHolds, PTL

(* The variables of the chosen allocator keep their types: in particular   *)
(* the free space is never more than the arena or less than nothing.       *)
THEOREM ArenaTypeCorrect == Spec => []TypeOK
<1> USE DEF Null, BT!Null, SL!Null
<1>1. ASSUME TagsInv, TagsExact  PROVE BT!TypeOK
  <2>1. TagsSize \in Nat /\ avail \in 0 .. TagsSize /\ BT!Addr = 0 .. TagsSize
    BY <1>1, SizesAssumption, SpareCounts DEF TagsExact, BT!Addr
  <2>2. \A b \in Out : b \in Nat /\ b + tag[b].size <= TagsSize /\ tag[b].size \in Nat
    BY <1>1 DEF TagsInv, TagsTyped, End
  <2>3. Out \subseteq BT!Addr /\ \A b \in Out : tag[b].size \in 0 .. TagsSize
    BY <2>1, <2>2
  <2>4. \A b \in Out : /\ tag[b] \in [size : Nat, prev : Int, next : Int]
                       /\ tag[b].prev \in Out \cup {Null} /\ tag[b].next \in Out \cup {Null}
    BY <1>1 DEF TagsInv, TagsTyped
  <2>5. head \in Out \cup {Null} /\ fit \in BT!FitModes
    BY <1>1 DEF TagsInv, TagsTyped
  <2>6. ASSUME NEW b \in Out
        PROVE  tag[b] \in [size : 0 .. TagsSize, prev : BT!Addr \cup {-1}, next : BT!Addr \cup {-1}]
    BY <2>3, <2>4
  <2> QED  BY <2>1, <2>3, <2>5, <2>6 DEF BT!TypeOK, Out
<1>2. ASSUME NEW F, ListInv(F), ListExact  PROVE SL!TypeOK
  <2>1. avail \in 0 .. ListSize
    BY <1>2, SizesAssumption, SpareCounts DEF ListExact
  <2>2. ListTyped(F) /\ head \in F \cup {Null}
    BY <1>2 DEF ListInv, ListLinks
  <2> QED  BY <2>1, <2>2 DEF ListTyped, SL!TypeOK
<1>3. ASSUME BuddyInv, BuddiesExact  PROVE BS!TypeOK
  <2>1. BS!Size \in Nat /\ BS!Addr = 0 .. BS!Size - 1 /\ avail \in 0 .. BS!Size
    BY <1>3, LentTyped, SpareCounts DEF BS!Addr, BuddiesExact
  <2>2. ASSUME NEW a \in DOMAIN power  PROVE a \in BS!Addr /\ power[a] \in 0 .. BuddiesPower
    <3>1. a \in Nat /\ power[a] \in 0 .. BuddiesPower /\ Upto(a) <= BS!Size
      BY <1>3 DEF BuddyInv, BlocksTyped
    <3>2. BS!Words[power[a]] \in Nat /\ BS!Words[power[a]] >= 1
      BY <3>1, WordsDouble
    <3> QED  BY <2>1, <3>1, <3>2 DEF Upto
  <2>3. \A i \in DOMAIN list : list[i] \in BS!Addr
    BY <1>3, <2>2 DEF BuddyInv, LinkedOnce
  <2> QED  BY <1>3, <2>1, <2>2, <2>3 DEF BS!TypeOK, BuddyInv, Handed
<1>4. Inv /\ ListsInv /\ SpaceInv /\ BuddiesInv => TypeOK
  <2> SUFFICES ASSUME Inv, ListsInv, SpaceInv, BuddiesInv  PROVE TypeOK
    OBVIOUS
  <2>1. CASE variant = "boundary_tags"
    BY <1>1, <2>1 DEF Inv, SpaceInv, TypeOK
  <2>2. CASE variant = "sorted_list"
    BY <1>2, <2>2 DEF ListsInv, SpaceInv, TypeOK
  <2>3. CASE variant = "buddy_system"
    BY <1>3, <2>3 DEF BuddiesInv, TypeOK
  <2> QED  BY <2>1, <2>2, <2>3 DEF Inv, Variants
<1> QED  BY <1>4, SpaceInvHolds, BuddiesInvHolds, PTL
=============================================================================
