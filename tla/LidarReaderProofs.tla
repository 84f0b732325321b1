-------------------------- MODULE LidarReaderProofs --------------------------
(***************************************************************************)
(* The reader thread for any rates, any period of the health check and any *)
(* scans: its loop asks for the health in time, owns the port, and shows   *)
(* of a scan exactly what was measured in view.                            *)
(*                                                                         *)
(* The last rests on a chain of lemmas about Readings: what each pass of   *)
(* ascendScanData_ leaves alone, what sorting is, and that the places of   *)
(* the readings on the screen are a bijection with the nodes in view.      *)
(***************************************************************************)
EXTENDS LidarReader, FiniteSetTheorems, FunctionTheorems, TLAPS

-----------------------------------------------------------------------------
(* Finite sets of integers have a least and a greatest element: a family   *)
(* of finite sets has one that none of the others is inside of, and of the *)
(* parts of the set up to each of its elements that is the part of the     *)
(* least.                                                                  *)

LEMMA SmallestOfFamily ==
  ASSUME NEW P, IsFiniteSet(P), NEW F, F \subseteq SUBSET P, F # {}
  PROVE  \E A \in F : \A B \in F : B \subseteq A => B = A
<1>1. F \subseteq FiniteSubsetsOf(P)
  BY FS_Subset DEF FiniteSubsetsOf
<1>2. PICK A \in F : \A B \in F : <<B, A>> \notin StrictSubsetOrdering(P)
  BY <1>1, FS_StrictSubsetOrderingWellFounded, WFMin
<1>3. \A B \in F : <<B, A>> \in (SUBSET P) \X (SUBSET P)
  OBVIOUS
<1>. QED
  BY <1>2, <1>3 DEF StrictSubsetOrdering

UpTo(S, x) == {y \in S : y <= x}
From(S, x) == {y \in S : y >= x}

LEMMA LeastElement ==
  ASSUME NEW S, IsFiniteSet(S), S # {}, \A x \in S : x \in Int
  PROVE  \E x \in S : \A y \in S : x <= y
<1> DEFINE F == {UpTo(S, x) : x \in S}
<1>1. F \subseteq SUBSET S /\ F # {}
  BY DEF UpTo
<1>2. PICK A \in F : \A B \in F : B \subseteq A => B = A
  <2> HIDE DEF F
  <2>. QED
    BY <1>1, SmallestOfFamily
<1>3. PICK x \in S : A = UpTo(S, x)
  OBVIOUS
<1>4. ASSUME NEW y \in S, ~ x <= y
      PROVE  FALSE
  <2>1. x \in Int /\ y \in Int /\ y < x
    BY <1>4
  <2>2. UpTo(S, y) \in F
    OBVIOUS
  <2>3. UpTo(S, y) \subseteq A
    <3> SUFFICES ASSUME NEW w \in S, w <= y
                 PROVE  w <= x
      BY <1>3 DEF UpTo
    <3>1. w \in Int
      OBVIOUS
    <3>. QED
      BY <2>1, <3>1
  <2>4. x \in A /\ x \notin UpTo(S, y)
    BY <1>3, <2>1 DEF UpTo
  <2>. QED
    BY <1>2, <2>2, <2>3, <2>4
<1>. QED
  BY <1>4

LEMMA GreatestElement ==
  ASSUME NEW S, IsFiniteSet(S), S # {}, \A x \in S : x \in Int
  PROVE  \E x \in S : \A y \in S : x >= y
<1> DEFINE F == {From(S, x) : x \in S}
<1>1. F \subseteq SUBSET S /\ F # {}
  BY DEF From
<1>2. PICK A \in F : \A B \in F : B \subseteq A => B = A
  <2> HIDE DEF F
  <2>. QED
    BY <1>1, SmallestOfFamily
<1>3. PICK x \in S : A = From(S, x)
  OBVIOUS
<1>4. ASSUME NEW y \in S, ~ x >= y
      PROVE  FALSE
  <2>1. x \in Int /\ y \in Int /\ y > x
    BY <1>4
  <2>2. From(S, y) \in F
    OBVIOUS
  <2>3. From(S, y) \subseteq A
    <3> SUFFICES ASSUME NEW w \in S, w >= y
                 PROVE  w >= x
      BY <1>3 DEF From
    <3>1. w \in Int
      OBVIOUS
    <3>. QED
      BY <2>1, <3>1
  <2>4. x \in A /\ x \notin From(S, y)
    BY <1>3, <2>1 DEF From
  <2>. QED
    BY <1>2, <2>2, <2>3, <2>4
<1>. QED
  BY <1>4

-----------------------------------------------------------------------------
(* Sorting always has a result: of the sets that could not be put in the   *)
(* order of their keys, a smallest would lose its greatest element, be put *)
(* in order, and get it back at the end.                                   *)

InOrder(order, S, key) ==
  /\ order \in Bijection(1 .. Cardinality(S), S)
  /\ \A i, j \in 1 .. Cardinality(S) : i < j => key[order[i]] <= key[order[j]]

LEMMA GreatestKey ==
  ASSUME NEW A, IsFiniteSet(A), A # {}, NEW key, \A x \in A : key[x] \in Int
  PROVE  \E m \in A : \A y \in A : key[y] <= key[m]
<1> DEFINE K == [x \in A |-> key[x]]
           T == {key[x] : x \in A}
<1>1. K \in Surjection(A, T)
  <2>1. K \in [A -> T] /\ \A t \in T : \E x \in A : K[x] = t
    OBVIOUS
  <2> HIDE DEF K, T
  <2>. QED
    BY <2>1, Fun_IsSurj
<1>2. IsFiniteSet(T)
  <2> HIDE DEF K, T
  <2>. QED
    BY <1>1, FS_Surjection
<1>3. T # {} /\ \A t \in T : t \in Int
  OBVIOUS
<1>4. PICK t \in T : \A u \in T : t >= u
  <2> HIDE DEF T
  <2>. QED
    BY <1>2, <1>3, GreatestElement
<1>5. PICK m \in A : key[m] = t
  OBVIOUS
<1>6. \A y \in A : key[y] \in T /\ key[y] \in Int
  OBVIOUS
<1>. QED
  BY <1>4, <1>5, <1>6

LEMMA PutLast ==
  ASSUME NEW A, IsFiniteSet(A), NEW m \in A, NEW key, NEW order, InOrder(order, A \ {m}, key),
         \A y \in A : key[y] \in Int /\ key[y] <= key[m]
  PROVE  \E longer : InOrder(longer, A, key)
<1> DEFINE B == A \ {m}
           n == Cardinality(B)
           longer == [i \in 1 .. n + 1 |-> IF i = n + 1 THEN m ELSE order[i]]
<1>1. n \in Nat /\ Cardinality(A) = n + 1
  <2>1. Cardinality(A) \in Nat /\ n = Cardinality(A) - 1 /\ IsFiniteSet(B)
    BY FS_CardinalityType, FS_RemoveElement
  <2>2. n \in Nat
    BY <2>1, FS_CardinalityType
  <2>. QED
    BY <2>1, <2>2
<1>2. /\ order \in Bijection(1 .. n, B)
      /\ \A i, j \in 1 .. n : i < j => key[order[i]] <= key[order[j]]
  BY DEF InOrder
<1> HIDE DEF n
<1>3. /\ order \in [1 .. n -> B]
      /\ \A i, j \in 1 .. n : order[i] = order[j] => i = j
      /\ \A y \in B : \E i \in 1 .. n : order[i] = y
  <2> DEFINE Places == 1 .. n
  <2>1. order \in Bijection(Places, B)
    BY <1>2
  <2> HIDE DEF Places, B
  <2>2. /\ order \in [Places -> B]
        /\ \A i, j \in Places : order[i] = order[j] => i = j
        /\ \A y \in B : \E i \in Places : order[i] = y
    BY <2>1, Fun_BijectionProperties
  <2>. QED
    BY <2>2 DEF Places
<1>4. \A i \in 1 .. n + 1 : i = n + 1 \/ i \in 1 .. n
  BY <1>1
<1>5. longer \in [1 .. n + 1 -> A]
  BY <1>3, <1>4
<1>6. \A i, j \in 1 .. n + 1 : longer[i] = longer[j] => i = j
  BY <1>3, <1>4
<1>7. \A y \in A : \E i \in 1 .. n + 1 : longer[i] = y
  <2> SUFFICES ASSUME NEW y \in A
               PROVE  \E i \in 1 .. n + 1 : longer[i] = y
    OBVIOUS
  <2>1. CASE y = m
    <3>1. n + 1 \in 1 .. n + 1
      BY <1>1
    <3>. QED
      BY <2>1, <3>1
  <2>2. CASE y # m
    <3>1. PICK i \in 1 .. n : order[i] = y
      BY <1>3, <2>2
    <3>2. i \in 1 .. n + 1 /\ i # n + 1
      BY <1>1
    <3>. QED
      BY <3>1, <3>2
  <2>. QED
    BY <2>1, <2>2
<1>8. \A i, j \in 1 .. n + 1 : i < j => key[longer[i]] <= key[longer[j]]
  <2> SUFFICES ASSUME NEW i \in 1 .. n + 1, NEW j \in 1 .. n + 1, i < j
               PROVE  key[longer[i]] <= key[longer[j]]
    OBVIOUS
  <2>1. i \in 1 .. n /\ longer[i] = order[i] /\ order[i] \in A
    BY <1>1, <1>3
  <2>2. CASE j = n + 1
    BY <2>1, <2>2
  <2>3. CASE j # n + 1
    <3>1. j \in 1 .. n /\ longer[j] = order[j]
      BY <1>1, <2>3
    <3>. QED
      BY <1>2, <2>1, <3>1
  <2>. QED
    BY <2>2, <2>3
<1>9. longer \in Bijection(1 .. n + 1, A)
  <2> DEFINE Places == 1 .. n + 1
  <2>1. /\ longer \in [Places -> A]
        /\ \A i, j \in Places : longer[i] = longer[j] => i = j
        /\ \A y \in A : \E i \in Places : longer[i] = y
    BY <1>5, <1>6, <1>7
  <2> HIDE DEF Places, longer
  <2>2. longer \in Bijection(Places, A)
    BY <2>1, Fun_IsBij
  <2>. QED
    BY <2>2 DEF Places
<1> HIDE DEF longer
<1>. QED
  BY <1>1, <1>8, <1>9 DEF InOrder

LEMMA OrderExists ==
  ASSUME NEW S, IsFiniteSet(S), NEW key, \A x \in S : key[x] \in Int
  PROVE  \E order : InOrder(order, S, key)
<1> DEFINE F == {K \in SUBSET S : ~ \E order : InOrder(order, K, key)}
<1>1. SUFFICES ASSUME F # {}
               PROVE  FALSE
  OBVIOUS
<1>2. PICK A \in F : \A B \in F : B \subseteq A => B = A
  <2>1. F \subseteq SUBSET S
    OBVIOUS
  <2> HIDE DEF F
  <2>. QED
    BY <1>1, <2>1, SmallestOfFamily
<1>3. A \in SUBSET S /\ ~ \E order : InOrder(order, A, key)
  OBVIOUS
<1>4. IsFiniteSet(A)
  BY <1>3, FS_Subset
<1>5. CASE A = {}
  <2> DEFINE none == [x \in {} |-> x]
  <2>1. Cardinality({}) = 0 /\ 1 .. 0 = {}
    BY FS_EmptySet
  <2>2. none \in Bijection({}, {})
    <3>1. none \in [{} -> {}] /\ \A i, j \in {} : none[i] = none[j] => i = j
      OBVIOUS
    <3>2. \A t \in {} : \E i \in {} : none[i] = t
      OBVIOUS
    <3> HIDE DEF none
    <3>. QED
      BY <3>1, <3>2, Fun_IsBij
  <2> HIDE DEF none
  <2>3. InOrder(none, {}, key)
    BY <2>1, <2>2 DEF InOrder
  <2>. QED
    BY <1>3, <1>5, <2>3
<1>6. CASE A # {}
  <2>1. PICK m \in A : \A y \in A : key[y] <= key[m]
    BY <1>3, <1>4, <1>6, GreatestKey
  <2>2. A \ {m} \in SUBSET S /\ A \ {m} \subseteq A /\ A \ {m} # A
    BY <1>3
  <2>3. PICK order : InOrder(order, A \ {m}, key)
    BY <1>2, <2>2
  <2>. QED
    BY <1>3, <1>4, <2>1, <2>3, PutLast
<1>. QED
  BY <1>5, <1>6

-----------------------------------------------------------------------------
(* The passes of ascendScanData_.                                          *)

\* What a pass keeps of the nodes: how many they are, which of them were
\* measured, and those whole.
Keeps(nodes, tuned) ==
  /\ tuned \in Seq(Nodes) /\ DOMAIN tuned = DOMAIN nodes
  /\ \A i \in DOMAIN nodes :
       /\ tuned[i].dist = nodes[i].dist
       /\ nodes[i].dist # 0 => tuned[i] = nodes[i]

LEMMA SeqFacts ==
  ASSUME NEW T, NEW s \in Seq(T)
  PROVE  Len(s) \in Nat /\ DOMAIN s = 1 .. Len(s) /\ \A i \in DOMAIN s : s[i] \in T
OBVIOUS

\* The first and the last measured node, of nodes some of which are.
LEMMA MeasuredBounds ==
  ASSUME NEW nodes \in Seq(Nodes), Measured(nodes) # {}
  PROVE  /\ Min(Measured(nodes)) \in DOMAIN nodes
         /\ Max(Measured(nodes)) \in DOMAIN nodes
         /\ \A i \in DOMAIN nodes : nodes[i].dist # 0 =>
              Min(Measured(nodes)) <= i /\ i <= Max(Measured(nodes))
<1>1. DOMAIN nodes = 1 .. Len(nodes) /\ Len(nodes) \in Nat
  OBVIOUS
<1>2. IsFiniteSet(Measured(nodes)) /\ \A x \in Measured(nodes) : x \in Int
  <2>1. Measured(nodes) \subseteq 1 .. Len(nodes)
    BY <1>1 DEF Measured
  <2>2. IsFiniteSet(1 .. Len(nodes))
    BY <1>1, FS_Interval
  <2>3. Measured(nodes) \in SUBSET (1 .. Len(nodes))
    BY <2>1
  <2>4. IsFiniteSet(Measured(nodes))
    BY <2>2, <2>3, FS_Subset
  <2>. QED
    BY <1>1, <2>1, <2>4
<1>3. /\ Min(Measured(nodes)) \in Measured(nodes)
      /\ \A y \in Measured(nodes) : Min(Measured(nodes)) <= y
  BY <1>2, LeastElement DEF Min
<1>4. /\ Max(Measured(nodes)) \in Measured(nodes)
      /\ \A y \in Measured(nodes) : Max(Measured(nodes)) >= y
  BY <1>2, GreatestElement DEF Max
<1>5. \A i \in DOMAIN nodes : i \in Int /\ (nodes[i].dist # 0 <=> i \in Measured(nodes))
  BY <1>1 DEF Measured
<1>6. Measured(nodes) \subseteq DOMAIN nodes
  BY DEF Measured
<1>. QED
  BY <1>1, <1>3, <1>4, <1>5, <1>6

\* An angle that is made up is one a node can have, and changes nothing else.
LEMMA TurnedType ==
  ASSUME NEW node \in Nodes, NEW angle \in Int
  PROVE  Turned(node, angle) \in Nodes /\ Turned(node, angle).dist = node.dist
<1>1. angle % FullTurn \in 0 .. FullTurn - 1
  BY DEF FullTurn
<1>. QED
  BY <1>1 DEF Turned, Nodes

\* A pass that gives some of the nodes that were not measured another angle
\* keeps the others.
LEMMA TurningKeeps ==
  ASSUME NEW nodes \in Seq(Nodes), NEW turns \in SUBSET DOMAIN nodes,
         NEW angle \in [DOMAIN nodes -> Int], \A i \in turns : nodes[i].dist = 0,
         NEW tuned, tuned = [i \in DOMAIN nodes |-> IF i \in turns THEN Turned(nodes[i], angle[i])
                                                                  ELSE nodes[i]]
  PROVE  Keeps(nodes, tuned)
<1>1. \A i \in DOMAIN nodes : nodes[i] \in Nodes
  OBVIOUS
<1>2. \A i \in DOMAIN nodes : tuned[i] \in Nodes /\ tuned[i].dist = nodes[i].dist
  BY <1>1, TurnedType
<1>3. tuned \in [1 .. Len(nodes) -> Nodes] /\ Len(nodes) \in Nat
  BY <1>2
<1>4. tuned \in Seq(Nodes)
  BY <1>3
<1>. QED
  BY <1>2, <1>4 DEF Keeps

LEMMA StepIsInt ==
  ASSUME NEW nodes \in Seq(Nodes), DOMAIN nodes # {}
  PROVE  Step(nodes) \in Int
<1>1. Len(nodes) \in Nat /\ Len(nodes) > 0
  OBVIOUS
<1>. QED
  BY <1>1 DEF Step, FullTurn

LEMMA AngleIsInt ==
  ASSUME NEW nodes \in Seq(Nodes), NEW i \in DOMAIN nodes
  PROVE  nodes[i].angle \in Int
<1>1. nodes[i] \in Nodes
  OBVIOUS
<1>2. nodes[i].angle \in 0 .. FullTurn - 1
  BY <1>1 DEF Nodes
<1>3. \A k \in 0 .. FullTurn - 1 : k \in Int
  BY DEF FullTurn
<1>. QED
  BY <1>2, <1>3

LEMMA TuneHeadKeeps ==
  ASSUME NEW nodes \in Seq(Nodes), Measured(nodes) # {}
  PROVE  Keeps(nodes, TuneHead(nodes))
<1> DEFINE first == Min(Measured(nodes))
           turns == {i \in DOMAIN nodes : i < first}
           angle == [i \in DOMAIN nodes |->
                       Max({0, nodes[first].angle - (first - i) * Step(nodes)})]
<1>1. /\ first \in DOMAIN nodes /\ DOMAIN nodes \subseteq Int
      /\ \A i \in DOMAIN nodes : nodes[i] \in Nodes /\ (nodes[i].dist # 0 => first <= i)
  BY MeasuredBounds
<1>2. nodes[first].angle \in Int /\ Step(nodes) \in Int
  <2>1. DOMAIN nodes # {}
    BY <1>1
  <2>. QED
    BY <1>1, <2>1, AngleIsInt, StepIsInt
<1>3. angle \in [DOMAIN nodes -> Int]
  <2>1. \A x \in Int : Max({0, x}) \in Int
    <3> SUFFICES ASSUME NEW x \in Int
                 PROVE  Max({0, x}) \in Int
      OBVIOUS
    <3>1. \E m \in {0, x} : \A y \in {0, x} : m >= y
      OBVIOUS
    <3>2. Max({0, x}) \in {0, x}
      BY <3>1 DEF Max
    <3>. QED
      BY <3>2
  <2>2. \A i \in DOMAIN nodes : nodes[first].angle - (first - i) * Step(nodes) \in Int
    BY <1>1, <1>2
  <2>. QED
    BY <2>1, <2>2
<1>4. \A i \in turns : nodes[i].dist = 0
  BY <1>1
<1>5. TuneHead(nodes) = [i \in DOMAIN nodes |-> IF i \in turns THEN Turned(nodes[i], angle[i])
                                                              ELSE nodes[i]]
  BY DEF TuneHead
<1>6. turns \in SUBSET DOMAIN nodes
  OBVIOUS
<1> HIDE DEF turns, angle
<1>. QED
  BY <1>3, <1>4, <1>5, <1>6, TurningKeeps

LEMMA TuneTailKeeps ==
  ASSUME NEW nodes \in Seq(Nodes), Measured(nodes) # {}
  PROVE  Keeps(nodes, TuneTail(nodes))
<1> DEFINE last == Max(Measured(nodes))
           turns == {i \in DOMAIN nodes : i > last}
           angle == [i \in DOMAIN nodes |-> nodes[last].angle + (i - last) * Step(nodes)]
<1>1. /\ last \in DOMAIN nodes /\ DOMAIN nodes \subseteq Int
      /\ \A i \in DOMAIN nodes : nodes[i] \in Nodes /\ (nodes[i].dist # 0 => i <= last)
  BY MeasuredBounds
<1>2. nodes[last].angle \in Int /\ Step(nodes) \in Int
  <2>1. DOMAIN nodes # {}
    BY <1>1
  <2>. QED
    BY <1>1, <2>1, AngleIsInt, StepIsInt
<1>3. angle \in [DOMAIN nodes -> Int]
  BY <1>1, <1>2
<1>4. \A i \in turns : nodes[i].dist = 0
  BY <1>1
<1>5. TuneTail(nodes) = [i \in DOMAIN nodes |-> IF i \in turns THEN Turned(nodes[i], angle[i])
                                                              ELSE nodes[i]]
  BY DEF TuneTail
<1>6. turns \in SUBSET DOMAIN nodes
  OBVIOUS
<1> HIDE DEF turns, angle
<1>. QED
  BY <1>3, <1>4, <1>5, <1>6, TurningKeeps

LEMMA FillInvalidKeeps ==
  ASSUME NEW nodes \in Seq(Nodes)
  PROVE  Keeps(nodes, FillInvalid(nodes))
<1> DEFINE turns == {i \in DOMAIN nodes : i > 1 /\ nodes[i].dist = 0}
           angle == [i \in DOMAIN nodes |-> nodes[1].angle + (i - 1) * Step(nodes)]
<1>1. angle \in [DOMAIN nodes -> Int]
  <2>1. CASE DOMAIN nodes = {}
    BY <2>1
  <2>2. CASE DOMAIN nodes # {}
    <3>1. Step(nodes) \in Int /\ DOMAIN nodes \subseteq Int
      BY <2>2, StepIsInt
    <3>2. 1 \in DOMAIN nodes
      BY <2>2
    <3>3. nodes[1].angle \in Int
      BY <3>2, AngleIsInt
    <3>. QED
      BY <3>1, <3>3
  <2>. QED
    BY <2>1, <2>2
<1>2. \A i \in turns : nodes[i].dist = 0
  OBVIOUS
<1>3. FillInvalid(nodes) = [i \in DOMAIN nodes |->
                              IF i \in turns THEN Turned(nodes[i], angle[i]) ELSE nodes[i]]
  BY DEF FillInvalid
<1>4. turns \in SUBSET DOMAIN nodes
  OBVIOUS
<1> HIDE DEF turns, angle
<1>. QED
  BY <1>1, <1>2, <1>3, <1>4, TurningKeeps

LEMMA KeepsMeasured ==
  ASSUME NEW a \in Seq(Nodes), NEW b, Keeps(a, b)
  PROVE  Measured(b) = Measured(a)
BY DEF Keeps, Measured

LEMMA KeepsTransitive ==
  ASSUME NEW a, NEW b, NEW c, Keeps(a, b), Keeps(b, c)
  PROVE  Keeps(a, c)
BY DEF Keeps

\* The three passes together.
LEMMA PassesKeep ==
  ASSUME NEW nodes \in Seq(Nodes), Measured(nodes) # {}
  PROVE  Keeps(nodes, FillInvalid(TuneTail(TuneHead(nodes))))
<1> DEFINE a == TuneHead(nodes)
           b == TuneTail(a)
<1>1. Keeps(nodes, a)
  BY TuneHeadKeeps
<1>2. a \in Seq(Nodes) /\ Measured(a) # {}
  BY <1>1, KeepsMeasured DEF Keeps
<1>3. Keeps(a, b)
  BY <1>2, TuneTailKeeps
<1>4. b \in Seq(Nodes)
  BY <1>3 DEF Keeps
<1>5. Keeps(b, FillInvalid(b))
  BY <1>4, FillInvalidKeeps
<1>. QED
  BY <1>1, <1>3, <1>5, KeepsTransitive

-----------------------------------------------------------------------------
(* Sorting, and what comes on the screen.                                  *)

\* What sorting returns are the kept nodes, each once, in an order in which
\* none comes after one that it precedes: by the angle ...
LEMMA SortedByAngle ==
  ASSUME NEW nodes, NEW kept, IsFiniteSet(kept), NEW s, s \in ByAngle(nodes, kept),
         NEW places, places = 1 .. Cardinality(kept)
  PROVE  \E order \in Bijection(places, kept) :
           /\ s = [i \in places |-> nodes[order[i]]]
           /\ \A i, j \in places : i < j => ~AngleLess(s[j], s[i])
<1>1. PICK order \in Orders(nodes, kept, AngleLess) : s = Arranged(nodes, order)
  BY DEF Sorted, ByAngle
<1>2. /\ order \in Bijection(1 .. Cardinality(kept), kept)
      /\ \A i, j \in DOMAIN order : i < j => ~AngleLess(nodes[order[j]], nodes[order[i]])
  BY <1>1 DEF Orders
<1>3. DOMAIN order = 1 .. Cardinality(kept)
  BY <1>2, Fun_BijectionProperties
<1>. QED
  BY <1>1, <1>2, <1>3 DEF Arranged

\* ... and by the distance.
LEMMA SortedByDistance ==
  ASSUME NEW nodes, NEW kept, IsFiniteSet(kept), NEW s, s \in ByDistance(nodes, kept),
         NEW places, places = 1 .. Cardinality(kept)
  PROVE  \E order \in Bijection(places, kept) :
           /\ s = [i \in places |-> nodes[order[i]]]
           /\ \A i, j \in places : i < j => ~Farther(s[j], s[i])
<1>1. PICK order \in Orders(nodes, kept, Farther) : s = Arranged(nodes, order)
  BY DEF Sorted, ByDistance
<1>2. /\ order \in Bijection(1 .. Cardinality(kept), kept)
      /\ \A i, j \in DOMAIN order : i < j => ~Farther(nodes[order[j]], nodes[order[i]])
  BY <1>1 DEF Orders
<1>3. DOMAIN order = 1 .. Cardinality(kept)
  BY <1>2, Fun_BijectionProperties
<1>. QED
  BY <1>1, <1>2, <1>3 DEF Arranged

\* The nodes of a scan that was made ascending are those of the scan, each
\* once, and those that were measured are as they were.
LEMMA AscendIs ==
  ASSUME NEW nodes \in Seq(Nodes), NEW readings \in Ascend(nodes)
  PROVE  \E place \in Bijection(DOMAIN nodes, DOMAIN nodes) :
           /\ readings \in Seq(Nodes) /\ DOMAIN readings = DOMAIN nodes
           /\ \A i \in DOMAIN nodes :
                /\ readings[i].dist = nodes[place[i]].dist
                /\ nodes[place[i]].dist # 0 => readings[i] = nodes[place[i]]
<1>1. Len(nodes) \in Nat /\ DOMAIN nodes = 1 .. Len(nodes)
  OBVIOUS
<1>2. CASE Measured(nodes) = {}
  <2> DEFINE place == [i \in DOMAIN nodes |-> i]
  <2>1. place \in Bijection(DOMAIN nodes, DOMAIN nodes)
    BY Fun_IsBij
  <2>2. readings = nodes
    BY <1>2 DEF Ascend
  <2>. QED
    BY <2>1, <2>2
<1>3. CASE Measured(nodes) # {}
  <2> DEFINE tuned == FillInvalid(TuneTail(TuneHead(nodes)))
  <2>1. Keeps(nodes, tuned)
    BY <1>3, PassesKeep
  <2>2. readings \in ByAngle(tuned, DOMAIN nodes)
    BY <1>3 DEF Ascend
  <2>3. IsFiniteSet(DOMAIN nodes) /\ Cardinality(DOMAIN nodes) = Len(nodes)
    BY <1>1, FS_Interval
  <2> HIDE DEF tuned
  <2>4. PICK place \in Bijection(DOMAIN nodes, DOMAIN nodes) :
          readings = [i \in DOMAIN nodes |-> tuned[place[i]]]
    BY <1>1, <2>2, <2>3, SortedByAngle
  <2>5. place \in [DOMAIN nodes -> DOMAIN nodes]
    BY <2>4, Fun_BijectionProperties
  <2>6. \A i \in DOMAIN nodes : readings[i] \in Nodes
    BY <1>1, <2>1, <2>4, <2>5 DEF Keeps
  <2>7. readings \in [1 .. Len(nodes) -> Nodes]
    BY <1>1, <2>4, <2>6
  <2>8. readings \in Seq(Nodes) /\ DOMAIN readings = DOMAIN nodes
    BY <1>1, <2>7
  <2>. QED
    BY <2>1, <2>4, <2>5, <2>8 DEF Keeps
<1>. QED
  BY <1>2, <1>3

LEMMA LeftNegativeType ==
  ASSUME NEW v \in Nodes
  PROVE  LeftNegative(v) \in Values
<1>1. v.angle \in 0 .. FullTurn - 1 /\ v.dist \in Nat /\ v = [angle |-> v.angle, dist |-> v.dist]
  BY DEF Nodes
<1>2. v.angle \in Int /\ v.angle - FullTurn \in Int
  BY <1>1 DEF FullTurn
<1>. QED
  BY <1>1, <1>2 DEF LeftNegative, Values

\* What is shown of the readings are those that can be seen, each once and
\* with its angle signed, the farthest first.
LEMMA ShownIs ==
  ASSUME NEW readings \in Seq(Nodes), NEW shown \in Shown(readings)
  PROVE  LET count == Cardinality(Visible(readings))
         IN  /\ count \in Nat /\ shown \in Seq(Values)
             /\ DOMAIN shown = 1 .. count /\ Len(shown) = count
             /\ \A i, j \in 1 .. count : i < j => ~Farther(shown[j], shown[i])
             /\ \E place \in Bijection(1 .. count, Visible(readings)) :
                  \A i \in 1 .. count : shown[i] = LeftNegative(readings[place[i]])
<1> DEFINE count == Cardinality(Visible(readings))
           left == LeftSigned(readings)
           Places == 1 .. count
<1>1. IsFiniteSet(Visible(readings)) /\ count \in Nat
  <2>1. IsFiniteSet(DOMAIN readings)
    BY FS_Interval
  <2>2. Visible(readings) \in SUBSET DOMAIN readings
    BY DEF Visible
  <2>. QED
    BY <2>1, <2>2, FS_Subset, FS_CardinalityType
<1>2. PICK byAngle \in ByAngle(left, Visible(readings)) :
        shown \in ByDistance(byAngle, DOMAIN byAngle)
  BY DEF Shown
<1> HIDE DEF left
<1>3. PICK first \in Bijection(Places, Visible(readings)) :
        byAngle = [i \in Places |-> left[first[i]]]
  BY <1>1, <1>2, SortedByAngle
<1> HIDE DEF count
<1>4. DOMAIN byAngle = Places /\ IsFiniteSet(Places) /\ Places = 1 .. Cardinality(Places)
  <2>1. DOMAIN byAngle = Places
    BY <1>3
  <2>2. IsFiniteSet(Places) /\ Cardinality(Places) = count
    BY <1>1, FS_Interval
  <2>. QED
    BY <2>1, <2>2
<1> HIDE DEF Places
<1>5. PICK second \in Bijection(Places, Places) :
        /\ shown = [i \in Places |-> byAngle[second[i]]]
        /\ \A i, j \in Places : i < j => ~Farther(shown[j], shown[i])
  BY <1>2, <1>4, SortedByDistance
<1> DEFINE place == [i \in Places |-> first[second[i]]]
<1>6. /\ second \in [Places -> Places] /\ first \in [Places -> Visible(readings)]
      /\ Visible(readings) \subseteq DOMAIN readings
  <2>1. second \in [Places -> Places]
    BY <1>5, Fun_BijectionProperties
  <2>2. first \in [Places -> Visible(readings)]
    BY <1>3, Fun_BijectionProperties
  <2>. QED
    BY <2>1, <2>2 DEF Visible
<1>7. place \in Bijection(Places, Visible(readings))
  <2>1. \A i, j \in Places : first[i] = first[j] => i = j
    BY <1>3, Fun_BijectionProperties
  <2>2. \A i, j \in Places : second[i] = second[j] => i = j
    BY <1>5, Fun_BijectionProperties
  <2>3. \A t \in Visible(readings) : \E i \in Places : first[i] = t
    BY <1>3, Fun_BijectionProperties
  <2>4. \A t \in Places : \E i \in Places : second[i] = t
    BY <1>5, Fun_BijectionProperties
  <2>5. place \in [Places -> Visible(readings)]
    BY <1>6
  <2>6. \A i, j \in Places : place[i] = place[j] => i = j
    BY <1>6, <2>1, <2>2
  <2>7. \A t \in Visible(readings) : \E i \in Places : place[i] = t
    BY <2>3, <2>4
  <2> HIDE DEF place
  <2>. QED
    BY <2>5, <2>6, <2>7, Fun_IsBij
<1>8. \A i \in Places : shown[i] = LeftNegative(readings[place[i]])
  BY <1>3, <1>5, <1>6 DEF left, LeftSigned
<1>9. shown \in Seq(Values) /\ DOMAIN shown = Places /\ Len(shown) = count
  <2>1. \A i \in Places : place[i] \in DOMAIN readings
    BY <1>6
  <2>2. \A i \in Places : LeftNegative(readings[place[i]]) \in Values
    BY <2>1, LeftNegativeType
  <2>3. shown = [i \in Places |-> shown[i]]
    BY <1>5
  <2>4. shown \in [1 .. count -> Values]
    BY <1>8, <2>2, <2>3 DEF Places
  <2>. QED
    BY <1>1, <2>4 DEF Places
<1>. QED
  BY <1>1, <1>5, <1>7, <1>8, <1>9 DEF Places, count

\* A measured node can be seen when it is in view, and gets its signed angle.
LEMMA SeesWhatIsInView ==
  ASSUME NEW v \in Nodes
  PROVE  /\ CanSee(v) <=> /\ v.dist \in MinDist + 1 .. MaxDist - 1
                          /\ Signed(v.angle) \in 1 - HalfFOV .. HalfFOV - 1
         /\ CanSee(v) => v.dist # 0 /\ LeftNegative(v) = Reading(v)
<1>1. v.angle \in Int /\ 0 <= v.angle /\ v.angle < FullTurn /\ v.dist \in Nat
  <2>1. v.angle \in 0 .. FullTurn - 1 /\ v.dist \in Nat
    BY DEF Nodes
  <2>2. \A k \in 0 .. FullTurn - 1 : k \in Int /\ 0 <= k /\ k < FullTurn
    BY DEF FullTurn
  <2>. QED
    BY <2>1, <2>2
<1>2. /\ CanSee(v) <=> /\ v.dist \in MinDist + 1 .. MaxDist - 1
                       /\ Signed(v.angle) \in 1 - HalfFOV .. HalfFOV - 1
  BY <1>1 DEF CanSee, Signed, MinDist, MaxDist, HalfFOV, FullTurn
<1>3. CanSee(v) => v.dist # 0 /\ (v.angle >= 270 <=> v.angle > 180)
  BY <1>1 DEF CanSee, MinDist, MaxDist, HalfFOV, FullTurn
<1>4. CASE v.angle > 180
  BY <1>2, <1>3, <1>4 DEF LeftNegative, Reading, Signed
<1>5. CASE ~ v.angle > 180
  <2>1. Reading(v) = v
    BY <1>1, <1>5 DEF Reading, Signed, Nodes
  <2>. QED
    BY <1>2, <1>3, <1>5, <2>1 DEF LeftNegative
<1>. QED
  BY <1>4, <1>5

\* Whatever order sorting leaves equal readings in, a scan is shown.
LEMMA ScanIsShown ==
  ASSUME NEW nodes \in Seq(Nodes), NEW readings \in Ascend(nodes), NEW shown \in Shown(readings)
  PROVE  ShowsScan(shown, nodes) /\ shown \in Seq(Values)
<1>1. PICK from \in Bijection(DOMAIN nodes, DOMAIN nodes) :
        /\ readings \in Seq(Nodes) /\ DOMAIN readings = DOMAIN nodes
        /\ \A i \in DOMAIN nodes :
             /\ readings[i].dist = nodes[from[i]].dist
             /\ nodes[from[i]].dist # 0 => readings[i] = nodes[from[i]]
  BY AscendIs
<1>2. /\ from \in [DOMAIN nodes -> DOMAIN nodes]
      /\ \A i, j \in DOMAIN nodes : from[i] = from[j] => i = j
      /\ \A k \in DOMAIN nodes : \E i \in DOMAIN nodes : from[i] = k
  BY <1>1, Fun_BijectionProperties
<1> DEFINE count == Cardinality(Visible(readings))
           Places == 1 .. count
<1>3. /\ count \in Nat /\ shown \in Seq(Values) /\ DOMAIN shown = Places /\ Len(shown) = count
      /\ \A i, j \in Places : i < j => ~Farther(shown[j], shown[i])
      /\ \E order \in Bijection(Places, Visible(readings)) :
           \A i \in Places : shown[i] = LeftNegative(readings[order[i]])
  BY <1>1, ShownIs
<1> HIDE DEF count, Places
<1>4. PICK order \in Bijection(Places, Visible(readings)) :
        \A i \in Places : shown[i] = LeftNegative(readings[order[i]])
  BY <1>3
<1>5. /\ order \in [Places -> Visible(readings)]
      /\ \A i, j \in Places : order[i] = order[j] => i = j
      /\ \A k \in Visible(readings) : \E i \in Places : order[i] = k
  BY <1>4, Fun_BijectionProperties
<1>6. \A i \in DOMAIN nodes :
        /\ i \in Visible(readings) <=> from[i] \in InView(nodes)
        /\ i \in Visible(readings) => LeftNegative(readings[i]) = Reading(nodes[from[i]])
  <2> SUFFICES ASSUME NEW i \in DOMAIN nodes
               PROVE  /\ i \in Visible(readings) <=> from[i] \in InView(nodes)
                      /\ i \in Visible(readings) =>
                           LeftNegative(readings[i]) = Reading(nodes[from[i]])
    OBVIOUS
  <2>1. readings[i] \in Nodes /\ nodes[from[i]] \in Nodes /\ from[i] \in DOMAIN nodes
    BY <1>1, <1>2
  <2>2. i \in Visible(readings) <=> CanSee(readings[i])
    BY <1>1 DEF Visible
  <2>3. from[i] \in InView(nodes) <=> CanSee(nodes[from[i]])
    BY <2>1, SeesWhatIsInView DEF InView
  <2>4. CASE nodes[from[i]].dist = 0
    <3>1. ~CanSee(readings[i]) /\ ~CanSee(nodes[from[i]])
      BY <1>1, <2>1, <2>4, SeesWhatIsInView
    <3>. QED
      BY <2>2, <2>3, <3>1
  <2>5. CASE nodes[from[i]].dist # 0
    <3>1. readings[i] = nodes[from[i]]
      BY <1>1, <2>5
    <3>. QED
      BY <2>1, <2>2, <2>3, <3>1, SeesWhatIsInView
  <2>. QED
    BY <2>4, <2>5
<1> DEFINE place == [i \in Places |-> from[order[i]]]
<1>7. Visible(readings) \subseteq DOMAIN nodes /\ InView(nodes) \subseteq DOMAIN nodes
  BY <1>1 DEF Visible, InView
<1>8. place \in [Places -> InView(nodes)]
  BY <1>5, <1>6, <1>7
<1>9. \A i, j \in Places : place[i] = place[j] => i = j
  BY <1>2, <1>5, <1>7
<1>10. \A k \in InView(nodes) : \E i \in Places : place[i] = k
  <2> SUFFICES ASSUME NEW k \in InView(nodes)
               PROVE  \E i \in Places : place[i] = k
    OBVIOUS
  <2>1. PICK m \in DOMAIN nodes : from[m] = k
    BY <1>2, <1>7
  <2>2. m \in Visible(readings)
    BY <1>6, <2>1
  <2>3. PICK i \in Places : order[i] = m
    BY <1>5, <2>2
  <2>. QED
    BY <2>1, <2>3
<1>11. \A i \in Places : shown[i] = Reading(nodes[place[i]])
  BY <1>4, <1>5, <1>6, <1>7
<1>12. Cardinality(InView(nodes)) = count
  <2>1. place \in Bijection(Places, InView(nodes))
    <3> HIDE DEF place
    <3>. QED
      BY <1>8, <1>9, <1>10, Fun_IsBij
  <2>2. ExistsBijection(1 .. count, InView(nodes))
    BY <2>1 DEF ExistsBijection, Places
  <2>. QED
    BY <1>3, <2>2, FS_CountingElements
<1>13. {place[i] : i \in DOMAIN shown} = InView(nodes)
  <2> HIDE DEF place
  <2>. QED
    BY <1>3, <1>8, <1>10
<1>14. \A i, j \in DOMAIN shown : i < j => shown[i].dist >= shown[j].dist
  <2> SUFFICES ASSUME NEW i \in DOMAIN shown, NEW j \in DOMAIN shown, i < j
               PROVE  shown[i].dist >= shown[j].dist
    OBVIOUS
  <2>1. shown[i] \in Values /\ shown[j] \in Values
    BY <1>3
  <2>2. shown[i].dist \in Nat /\ shown[j].dist \in Nat
    BY <2>1 DEF Values
  <2>. QED
    BY <1>3, <2>2 DEF Farther
<1> HIDE DEF place
<1>. QED
  BY <1>3, <1>8, <1>11, <1>12, <1>13, <1>14 DEF ShowsScan

LEMMA SortedByAngleExists ==
  ASSUME NEW nodes, NEW kept, IsFiniteSet(kept), \A i \in kept : nodes[i].angle \in Int
  PROVE  ByAngle(nodes, kept) # {}
<1> DEFINE key == [i \in kept |-> nodes[i].angle]
           Places == 1 .. Cardinality(kept)
<1>1. PICK order : InOrder(order, kept, key)
  <2>1. \A i \in kept : key[i] \in Int
    OBVIOUS
  <2> HIDE DEF key
  <2>. QED
    BY <2>1, OrderExists
<1>2. /\ order \in Bijection(Places, kept)
      /\ \A i, j \in Places : i < j => key[order[i]] <= key[order[j]]
  BY <1>1 DEF InOrder
<1>3. order \in [Places -> kept] /\ DOMAIN order = Places
  <2> HIDE DEF Places
  <2>. QED
    BY <1>2, Fun_BijectionProperties
<1>4. \A i, j \in Places : i < j => ~(nodes[order[j]].angle < nodes[order[i]].angle)
  <2>1. \A i \in Places : key[order[i]] = nodes[order[i]].angle /\ nodes[order[i]].angle \in Int
    BY <1>3
  <2> HIDE DEF key, Places
  <2>. QED
    BY <1>2, <2>1
<1>5. order \in Orders(nodes, kept, AngleLess)
  BY <1>2, <1>3, <1>4 DEF Orders, AngleLess
<1>. QED
  BY <1>5 DEF ByAngle, Sorted

LEMMA SortedByDistanceExists ==
  ASSUME NEW nodes, NEW kept, IsFiniteSet(kept), \A i \in kept : nodes[i].dist \in Nat
  PROVE  ByDistance(nodes, kept) # {}
<1> DEFINE key == [i \in kept |-> 0 - nodes[i].dist]
           Places == 1 .. Cardinality(kept)
<1>1. PICK order : InOrder(order, kept, key)
  <2>1. \A i \in kept : key[i] \in Int
    OBVIOUS
  <2> HIDE DEF key
  <2>. QED
    BY <2>1, OrderExists
<1>2. /\ order \in Bijection(Places, kept)
      /\ \A i, j \in Places : i < j => key[order[i]] <= key[order[j]]
  BY <1>1 DEF InOrder
<1>3. order \in [Places -> kept] /\ DOMAIN order = Places
  <2> HIDE DEF Places
  <2>. QED
    BY <1>2, Fun_BijectionProperties
<1>4. \A i, j \in Places : i < j => ~(nodes[order[j]].dist > nodes[order[i]].dist)
  <2>1. \A i \in Places : key[order[i]] = 0 - nodes[order[i]].dist /\ nodes[order[i]].dist \in Nat
    BY <1>3
  <2> HIDE DEF key, Places
  <2>. QED
    BY <1>2, <2>1
<1>5. order \in Orders(nodes, kept, Farther)
  BY <1>2, <1>3, <1>4 DEF Orders, Farther
<1>. QED
  BY <1>5 DEF ByDistance, Sorted

\* Whatever the nodes of a scan, sorting has a result at each of its places:
\* there is something to show of it.
LEMMA ScanHasAPicture ==
  ASSUME NEW nodes \in Seq(Nodes)
  PROVE  \E readings \in Ascend(nodes) : Shown(readings) # {}
<1>1. PICK readings : readings \in Ascend(nodes)
  <2>1. CASE Measured(nodes) = {}
    BY <2>1 DEF Ascend
  <2>2. CASE Measured(nodes) # {}
    <3> DEFINE tuned == FillInvalid(TuneTail(TuneHead(nodes)))
    <3>1. tuned \in Seq(Nodes) /\ DOMAIN tuned = DOMAIN nodes
      BY <2>2, PassesKeep DEF Keeps
    <3>2. IsFiniteSet(DOMAIN nodes)
      BY FS_Interval
    <3> HIDE DEF tuned
    <3>3. \A i \in DOMAIN nodes : tuned[i].angle \in Int
      BY <3>1, AngleIsInt
    <3>4. ByAngle(tuned, DOMAIN nodes) # {}
      BY <3>2, <3>3, SortedByAngleExists
    <3>. QED
      BY <2>2, <3>4 DEF Ascend, tuned
  <2>. QED
    BY <2>1, <2>2
<1>2. readings \in Seq(Nodes)
  BY <1>1, AscendIs
<1> DEFINE signed == LeftSigned(readings)
<1>3. IsFiniteSet(Visible(readings)) /\ Visible(readings) \subseteq DOMAIN readings
  <2>1. IsFiniteSet(DOMAIN readings)
    BY <1>2, FS_Interval
  <2>2. Visible(readings) \in SUBSET DOMAIN readings
    BY DEF Visible
  <2>. QED
    BY <2>1, <2>2, FS_Subset
<1>4. \A i \in Visible(readings) : signed[i] \in Values
  BY <1>2, <1>3, LeftNegativeType DEF LeftSigned
<1> HIDE DEF signed
<1>5. PICK left : left \in ByAngle(signed, Visible(readings))
  <2>1. \A i \in Visible(readings) : signed[i].angle \in Int
    BY <1>4 DEF Values
  <2>. QED
    BY <1>3, <2>1, SortedByAngleExists
<1> DEFINE Places == 1 .. Cardinality(Visible(readings))
<1>6. PICK order \in Bijection(Places, Visible(readings)) : left = [i \in Places |-> signed[order[i]]]
  <2>1. /\ Places = 1 .. Cardinality(Visible(readings)) /\ IsFiniteSet(Visible(readings))
        /\ Cardinality(Visible(readings)) \in Nat
    BY <1>3, FS_CardinalityType
  <2> HIDE DEF Places
  <2>2. \E order \in Bijection(Places, Visible(readings)) :
          /\ left = [i \in Places |-> signed[order[i]]]
          /\ \A i, j \in Places : i < j => ~AngleLess(left[j], left[i])
    BY <1>5, <2>1, SortedByAngle
  <2>. QED
    BY <2>2
<1>7. IsFiniteSet(Places)
  BY <1>3, FS_CardinalityType, FS_Interval
<1> HIDE DEF Places
<1>8. order \in [Places -> Visible(readings)]
  BY <1>6, Fun_BijectionProperties
<1>9. DOMAIN left = Places /\ \A i \in Places : left[i] \in Values
  BY <1>4, <1>6, <1>8
<1>10. ByDistance(left, DOMAIN left) # {}
  <2>1. \A i \in DOMAIN left : left[i].dist \in Nat
    BY <1>9 DEF Values
  <2>. QED
    BY <1>7, <1>9, <2>1, SortedByDistanceExists
<1>11. Shown(readings) # {}
  BY <1>5, <1>10 DEF Shown, signed
<1>. QED
  BY <1>1, <1>11

-----------------------------------------------------------------------------
(* The inductive invariant.                                                *)

\* Who holds valuesLock is at the step that gives it back.
LockHeld ==
  /\ valuesLock = "reader" <=> rpc = "write"
  /\ valuesLock = "drawer" <=> dpc = "copy"

\* Once the thread runs its last cleanup it comes to nothing else.
Ending ==
  /\ goal = "destroy" => need2stop /\ rpc \in {"cleanup", "stopMotor", "reset", "done"}
  /\ rpc = "done" => goal = "destroy" /\ drv = "null" /\ ~scanning

\* The reads since the last check are no more than the counter has counted,
\* and an empty one has set the counter to the last before a check.
Preparing == {"cleanup", "stopMotor", "reset", "alloc", "connect", "getDeviceInfo",
              "getHealth", "startMotor", "startScan"}
Counted == IF counter = EachReads THEN 0 ELSE counter
Paced ==
  /\ goal = "construct" => lastRead = "none"
  /\ rpc \in Preparing /\ goal # "destroy" => unchecked = 0
  /\ rpc = "readOnce" => unchecked <= Counted /\ (lastRead = "empty" => unchecked = 0)
  /\ rpc \in {"readOnce", "lock", "write"} => goal = "read"
  /\ rpc \in {"lock", "write", "loop"} =>
       unchecked <= Counted + 1 /\ (lastRead = "empty" => counter = EachReads - 1)

\* What was read and is not shown yet is part of a scan.
OfAScan ==
  rpc \in {"lock", "write"} /\ lastRead = "scan" =>
    published \in Scans /\ asked \in Densities /\ grabbed = FirstOf(published, asked)

IInv == TypeOK /\ PortOwned /\ LockHeld /\ Ending /\ Paced /\ OfAScan

-----------------------------------------------------------------------------
(* What the constants give.                                                *)

LEMMA RateFacts ==
  /\ 1 \in DOMAIN Bauds
  /\ \A i \in DOMAIN Bauds : i < Len(Bauds) => i + 1 \in DOMAIN Bauds
<1>1. Len(Bauds) \in Nat /\ DOMAIN Bauds = 1 .. Len(Bauds) /\ DOMAIN Bauds # {}
  BY ReaderAssumption
<1>. QED
  BY <1>1

LEMMA PeriodFacts == EachReads \in Nat /\ EachReads > 1 /\ 0 \in 0 .. EachReads
BY ReaderAssumption

\* The counter of the code, modulo EachReads, is what Counted says.
LEMMA CounterIsCounted ==
  ASSUME NEW c \in 0 .. EachReads
  PROVE  c % EachReads = IF c = EachReads THEN 0 ELSE c
<1>1. EachReads \in Nat /\ EachReads > 1 /\ c \in Nat
  BY PeriodFacts
<1>2. CASE c = EachReads
  BY <1>1, <1>2, SMTT(30)
<1>3. CASE c # EachReads
  BY <1>1, <1>3
<1>. QED
  BY <1>2, <1>3

LEMMA LessOfTwo ==
  ASSUME NEW a \in Nat, NEW b \in Nat
  PROVE  Min({a, b}) \in Nat /\ Min({a, b}) <= b
<1>1. \E m \in {a, b} : \A y \in {a, b} : m <= y
  OBVIOUS
<1>2. Min({a, b}) \in {a, b} /\ \A y \in {a, b} : Min({a, b}) <= y
  BY <1>1 DEF Min
<1>. QED
  BY <1>2

LEMMA PrefixType ==
  ASSUME NEW T, NEW s \in Seq(T), NEW m \in Nat, m <= Len(s)
  PROVE  SubSeq(s, 1, m) \in Seq(T)
OBVIOUS

LEMMA GrabsType == Grabs \subseteq Seq(Nodes)
<1> SUFFICES ASSUME NEW nodes \in Grabs
             PROVE  nodes \in Seq(Nodes)
  OBVIOUS
<1>1. PICK scan \in Scans, density \in Densities :
        nodes = SubSeq(scan, 1, Min({density, Len(scan)}))
  BY DEF Grabs, FirstOf
<1>2. scan \in Seq(Nodes) /\ density \in Nat
  BY ReaderAssumption
<1>3. Len(scan) \in Nat
  BY <1>2
<1>. QED
  BY <1>1, <1>2, <1>3, LessOfTwo, PrefixType

\* Every picture of a grabbed scan shows it.
LEMMA PicturesShow ==
  ASSUME NEW nodes \in Grabs, NEW shown \in Pictures[nodes]
  PROVE  ShowsScan(shown, nodes) /\ shown \in Seq(Values)
<1>1. PICK readings \in Ascend(nodes) : shown \in Shown(readings)
  BY DEF Pictures
<1>. QED
  BY <1>1, GrabsType, ScanIsShown

\* Of every scan that readOnce grabs there is a picture, and it shows the scan.
THEOREM EveryScanIsDrawn ==
  \A nodes \in Grabs :
    Pictures[nodes] # {} /\ \A shown \in Pictures[nodes] : ShowsScan(shown, nodes)
<1> SUFFICES ASSUME NEW nodes \in Grabs
             PROVE  Pictures[nodes] # {} /\ \A shown \in Pictures[nodes] : ShowsScan(shown, nodes)
  OBVIOUS
<1>1. PICK readings \in Ascend(nodes) : Shown(readings) # {}
  BY GrabsType, ScanHasAPicture
<1>2. Pictures[nodes] # {}
  BY <1>1 DEF Pictures
<1>. QED
  BY <1>2, PicturesShow

-----------------------------------------------------------------------------
(* Each step keeps the invariant.                                          *)

LEMMA InitInv == Init => IInv
<1> SUFFICES ASSUME Init
             PROVE  IInv
  OBVIOUS
<1>1. TypeOK
  <2>1. ControlTypes
    BY RateFacts, PeriodFacts DEF Init, ControlTypes
  <2>2. LinkTypes
    BY DEF Init, LinkTypes
  <2>3. ScreenTypes
    BY DEF Init, ScreenTypes
  <2>. QED
    BY <2>1, <2>2, <2>3 DEF TypeOK
<1>2. PortOwned /\ LockHeld
  BY DEF Init, PortOwned, Connected, LockHeld
<1>3. Ending /\ OfAScan
  BY DEF Init, Ending, OfAScan
<1>4. Paced
  BY PeriodFacts DEF Init, Paced, Preparing, Counted
<1>. QED
  BY <1>1, <1>2, <1>3, <1>4 DEF IInv

\* The port is opened by connect alone, and closed with its driver.
LEMMA PortOwnedNext ==
  ASSUME LinkTypes, PortOwned, [Next]_vars
  PROVE  PortOwned'
<1> USE DEF LinkTypes, PortOwned, Connected, pacing, driver, reading, screen, Goto
<1>1. CASE StopScan
  BY <1>1 DEF StopScan
<1>2. CASE StopMotor
  BY <1>2 DEF StopMotor
<1>3. CASE Reset
  BY <1>3 DEF Reset
<1>4. CASE Alloc
  BY <1>4 DEF Alloc
<1>5. CASE AllocThrows
  BY <1>5 DEF AllocThrows
<1>6. CASE Connect
  BY <1>6 DEF Connect, NextBaud
<1>7. CASE GetDeviceInfo
  BY <1>7 DEF GetDeviceInfo, NextBaud
<1>8. CASE GetHealth
  BY <1>8 DEF GetHealth
<1>9. CASE StartMotor
  BY <1>9 DEF StartMotor
<1>10. CASE StartScan
  BY <1>10 DEF StartScan, ScanStarts, ScanFails
<1>11. CASE Loop
  BY <1>11 DEF Loop
<1>12. CASE TestHealth
  BY <1>12 DEF TestHealth
<1>13. CASE ReadScan
  BY <1>13 DEF ReadScan
<1>14. CASE ReadEmpty
  BY <1>14 DEF ReadEmpty
<1>15. CASE Lock
  BY <1>15 DEF Lock
<1>16. CASE Write
  BY <1>16 DEF Write
<1>17. CASE DrawLock
  BY <1>17 DEF DrawLock
<1>18. CASE DrawCopy
  BY <1>18 DEF DrawCopy
<1>19. CASE Stop
  BY <1>19 DEF Stop
<1>20. CASE Publish
  BY <1>20 DEF Publish
<1>21. CASE ScanEnds
  BY <1>21 DEF ScanEnds
<1>22. CASE DeviceChanges
  BY <1>22 DEF DeviceChanges
<1>23. CASE UNCHANGED vars
  BY <1>23 DEF vars
<1>. QED
  BY <1>1, <1>2, <1>3, <1>4, <1>5, <1>6, <1>7, <1>8, <1>9, <1>10, <1>11, <1>12, <1>13,
     <1>14, <1>15, <1>16, <1>17, <1>18, <1>19, <1>20, <1>21, <1>22, <1>23 DEF Next, ReaderStep

\* valuesLock is taken when it is free, and given back by who took it.
LEMMA LockHeldNext ==
  ASSUME LockHeld, [Next]_vars
  PROVE  LockHeld'
<1> USE DEF LockHeld, pacing, driver, reading, screen, Goto
<1>1. CASE StopScan
  BY <1>1 DEF StopScan
<1>2. CASE StopMotor
  BY <1>2 DEF StopMotor
<1>3. CASE Reset
  BY <1>3 DEF Reset
<1>4. CASE Alloc
  BY <1>4 DEF Alloc
<1>5. CASE AllocThrows
  BY <1>5 DEF AllocThrows
<1>6. CASE Connect
  BY <1>6 DEF Connect, NextBaud
<1>7. CASE GetDeviceInfo
  BY <1>7 DEF GetDeviceInfo, NextBaud
<1>8. CASE GetHealth
  BY <1>8 DEF GetHealth
<1>9. CASE StartMotor
  BY <1>9 DEF StartMotor
<1>10. CASE StartScan
  BY <1>10 DEF StartScan, ScanStarts, ScanFails
<1>11. CASE Loop
  BY <1>11 DEF Loop
<1>12. CASE TestHealth
  BY <1>12 DEF TestHealth
<1>13. CASE ReadScan
  BY <1>13 DEF ReadScan
<1>14. CASE ReadEmpty
  BY <1>14 DEF ReadEmpty
<1>15. CASE Lock
  BY <1>15 DEF Lock
<1>16. CASE Write
  BY <1>16 DEF Write
<1>17. CASE DrawLock
  BY <1>17 DEF DrawLock
<1>18. CASE DrawCopy
  BY <1>18 DEF DrawCopy
<1>19. CASE Stop
  BY <1>19 DEF Stop
<1>20. CASE Publish
  BY <1>20 DEF Publish
<1>21. CASE ScanEnds
  BY <1>21 DEF ScanEnds
<1>22. CASE DeviceChanges
  BY <1>22 DEF DeviceChanges
<1>23. CASE UNCHANGED vars
  BY <1>23 DEF vars
<1>. QED
  BY <1>1, <1>2, <1>3, <1>4, <1>5, <1>6, <1>7, <1>8, <1>9, <1>10, <1>11, <1>12, <1>13,
     <1>14, <1>15, <1>16, <1>17, <1>18, <1>19, <1>20, <1>21, <1>22, <1>23 DEF Next, ReaderStep

\* Only a reader that saw need2stop runs its last cleanup.
LEMMA EndingNext ==
  ASSUME Ending, [Next]_vars
  PROVE  Ending'
<1> USE DEF Ending, pacing, driver, reading, screen, Goto
<1>1. CASE StopScan
  BY <1>1 DEF StopScan
<1>2. CASE StopMotor
  BY <1>2 DEF StopMotor
<1>3. CASE Reset
  BY <1>3 DEF Reset
<1>4. CASE Alloc
  BY <1>4 DEF Alloc
<1>5. CASE AllocThrows
  BY <1>5 DEF AllocThrows
<1>6. CASE Connect
  BY <1>6 DEF Connect, NextBaud
<1>7. CASE GetDeviceInfo
  BY <1>7 DEF GetDeviceInfo, NextBaud
<1>8. CASE GetHealth
  BY <1>8 DEF GetHealth
<1>9. CASE StartMotor
  BY <1>9 DEF StartMotor
<1>10. CASE StartScan
  BY <1>10 DEF StartScan, ScanStarts, ScanFails
<1>11. CASE Loop
  BY <1>11 DEF Loop
<1>12. CASE TestHealth
  BY <1>12 DEF TestHealth
<1>13. CASE ReadScan
  BY <1>13 DEF ReadScan
<1>14. CASE ReadEmpty
  BY <1>14 DEF ReadEmpty
<1>15. CASE Lock
  BY <1>15 DEF Lock
<1>16. CASE Write
  BY <1>16 DEF Write
<1>17. CASE DrawLock
  BY <1>17 DEF DrawLock
<1>18. CASE DrawCopy
  BY <1>18 DEF DrawCopy
<1>19. CASE Stop
  BY <1>19 DEF Stop
<1>20. CASE Publish
  BY <1>20 DEF Publish
<1>21. CASE ScanEnds
  BY <1>21 DEF ScanEnds
<1>22. CASE DeviceChanges
  BY <1>22 DEF DeviceChanges
<1>23. CASE UNCHANGED vars
  BY <1>23 DEF vars
<1>. QED
  BY <1>1, <1>2, <1>3, <1>4, <1>5, <1>6, <1>7, <1>8, <1>9, <1>10, <1>11, <1>12, <1>13,
     <1>14, <1>15, <1>16, <1>17, <1>18, <1>19, <1>20, <1>21, <1>22, <1>23 DEF Next, ReaderStep

\* Only readOnce sets what was grabbed.
LEMMA OfAScanNext ==
  ASSUME OfAScan, [Next]_vars
  PROVE  OfAScan'
<1> USE DEF OfAScan, pacing, driver, reading, screen, Goto
<1>1. CASE StopScan
  BY <1>1 DEF StopScan
<1>2. CASE StopMotor
  BY <1>2 DEF StopMotor
<1>3. CASE Reset
  BY <1>3 DEF Reset
<1>4. CASE Alloc
  BY <1>4 DEF Alloc
<1>5. CASE AllocThrows
  BY <1>5 DEF AllocThrows
<1>6. CASE Connect
  BY <1>6 DEF Connect, NextBaud
<1>7. CASE GetDeviceInfo
  BY <1>7 DEF GetDeviceInfo, NextBaud
<1>8. CASE GetHealth
  BY <1>8 DEF GetHealth
<1>9. CASE StartMotor
  BY <1>9 DEF StartMotor
<1>10. CASE StartScan
  BY <1>10 DEF StartScan, ScanStarts, ScanFails
<1>11. CASE Loop
  BY <1>11 DEF Loop
<1>12. CASE TestHealth
  BY <1>12 DEF TestHealth
<1>13. CASE ReadScan
  BY <1>13 DEF ReadScan
<1>14. CASE ReadEmpty
  BY <1>14 DEF ReadEmpty
<1>15. CASE Lock
  BY <1>15 DEF Lock
<1>16. CASE Write
  BY <1>16 DEF Write
<1>17. CASE DrawLock
  BY <1>17 DEF DrawLock
<1>18. CASE DrawCopy
  BY <1>18 DEF DrawCopy
<1>19. CASE Stop
  BY <1>19 DEF Stop
<1>20. CASE Publish
  BY <1>20 DEF Publish
<1>21. CASE ScanEnds
  BY <1>21 DEF ScanEnds
<1>22. CASE DeviceChanges
  BY <1>22 DEF DeviceChanges
<1>23. CASE UNCHANGED vars
  BY <1>23 DEF vars
<1>. QED
  BY <1>1, <1>2, <1>3, <1>4, <1>5, <1>6, <1>7, <1>8, <1>9, <1>10, <1>11, <1>12, <1>13,
     <1>14, <1>15, <1>16, <1>17, <1>18, <1>19, <1>20, <1>21, <1>22, <1>23 DEF Next, ReaderStep

\* Every check sets the reads back to none, and every read counts one.
LEMMA PacedNext ==
  ASSUME ControlTypes, Ending, Paced, [Next]_vars
  PROVE  Paced'
<1> USE DEF ControlTypes, Paced, Preparing, Counted, pacing, driver, reading, screen, Goto
<1>1. CASE StopScan
  BY <1>1 DEF StopScan
<1>2. CASE StopMotor
  BY <1>2 DEF StopMotor
<1>3. CASE Reset
  BY <1>3 DEF Reset
<1>4. CASE Alloc
  BY <1>4 DEF Alloc
<1>5. CASE AllocThrows
  BY <1>5 DEF AllocThrows
<1>6. CASE Connect
  BY <1>6 DEF Connect, NextBaud
<1>7. CASE GetDeviceInfo
  BY <1>7 DEF GetDeviceInfo, NextBaud
<1>8. CASE GetHealth
  BY <1>8 DEF GetHealth
<1>9. CASE StartMotor
  BY <1>9 DEF StartMotor
<1>10. CASE StartScan
  BY <1>10, PeriodFacts DEF StartScan, ScanStarts, ScanFails, Ending
<1>11. CASE Loop
  <2>1. CASE need2stop
    BY <1>11, <2>1 DEF Loop
  <2>2. CASE ~need2stop
    <3>1. counter' = Counted + 1 /\ unchecked' = unchecked /\ lastRead' = lastRead /\ goal' = "read"
      BY <1>11, <2>2, CounterIsCounted DEF Loop
    <3>2. rpc' = IF counter' = EachReads THEN "testHealth" ELSE "readOnce"
      BY <1>11, <2>2 DEF Loop
    <3>. QED
      BY <1>11, <3>1, <3>2, PeriodFacts DEF Loop
  <2>. QED
    BY <2>1, <2>2
<1>12. CASE TestHealth
  BY <1>12 DEF TestHealth
<1>13. CASE ReadScan
  BY <1>13, PeriodFacts DEF ReadScan
<1>14. CASE ReadEmpty
  BY <1>14, PeriodFacts DEF ReadEmpty
<1>15. CASE Lock
  BY <1>15 DEF Lock
<1>16. CASE Write
  BY <1>16 DEF Write
<1>17. CASE DrawLock
  BY <1>17 DEF DrawLock
<1>18. CASE DrawCopy
  BY <1>18 DEF DrawCopy
<1>19. CASE Stop
  BY <1>19 DEF Stop
<1>20. CASE Publish
  BY <1>20 DEF Publish
<1>21. CASE ScanEnds
  BY <1>21 DEF ScanEnds
<1>22. CASE DeviceChanges
  BY <1>22 DEF DeviceChanges
<1>23. CASE UNCHANGED vars
  BY <1>23 DEF vars
<1>. QED
  BY <1>1, <1>2, <1>3, <1>4, <1>5, <1>6, <1>7, <1>8, <1>9, <1>10, <1>11, <1>12, <1>13,
     <1>14, <1>15, <1>16, <1>17, <1>18, <1>19, <1>20, <1>21, <1>22, <1>23 DEF Next, ReaderStep

\* The counter does not pass EachReads, nor the attempts the rates.
LEMMA ControlTypesNext ==
  ASSUME ControlTypes, Paced, [Next]_vars
  PROVE  ControlTypes'
<1> USE DEF ControlTypes, pacing, driver, reading, screen, Goto
<1>1. CASE StopScan
  BY <1>1 DEF StopScan
<1>2. CASE StopMotor
  BY <1>2 DEF StopMotor
<1>3. CASE Reset
  BY <1>3, RateFacts DEF Reset
<1>4. CASE Alloc
  BY <1>4 DEF Alloc
<1>5. CASE AllocThrows
  BY <1>5 DEF AllocThrows
<1>6. CASE Connect
  <2>1. attempt' \in DOMAIN Bauds
    BY <1>6, RateFacts DEF Connect, NextBaud
  <2>. QED
    BY <1>6, <2>1 DEF Connect, NextBaud
<1>7. CASE GetDeviceInfo
  BY <1>7, RateFacts DEF GetDeviceInfo, NextBaud
<1>8. CASE GetHealth
  BY <1>8 DEF GetHealth
<1>9. CASE StartMotor
  BY <1>9 DEF StartMotor
<1>10. CASE StartScan
  BY <1>10 DEF StartScan, ScanStarts, ScanFails
<1>11. CASE Loop
  <2>1. CASE need2stop
    BY <1>11, <2>1 DEF Loop
  <2>2. CASE ~need2stop
    <3>1. counter' = (IF counter = EachReads THEN 0 ELSE counter) + 1
      BY <1>11, <2>2, CounterIsCounted DEF Loop
    <3>2. counter' \in 0 .. EachReads
      BY <3>1, PeriodFacts
    <3>. QED
      BY <1>11, <2>2, <3>2 DEF Loop
  <2>. QED
    BY <2>1, <2>2
<1>12. CASE TestHealth
  BY <1>12, PeriodFacts DEF TestHealth
<1>13. CASE ReadScan
  BY <1>13, PeriodFacts DEF ReadScan, Paced, Counted
<1>14. CASE ReadEmpty
  BY <1>14, PeriodFacts DEF ReadEmpty, Paced, Counted
<1>15. CASE Lock
  BY <1>15 DEF Lock
<1>16. CASE Write
  BY <1>16 DEF Write
<1>17. CASE DrawLock
  BY <1>17 DEF DrawLock
<1>18. CASE DrawCopy
  BY <1>18 DEF DrawCopy
<1>19. CASE Stop
  BY <1>19 DEF Stop
<1>20. CASE Publish
  BY <1>20 DEF Publish
<1>21. CASE ScanEnds
  BY <1>21 DEF ScanEnds
<1>22. CASE DeviceChanges
  BY <1>22 DEF DeviceChanges
<1>23. CASE UNCHANGED vars
  BY <1>23 DEF vars
<1>. QED
  BY <1>1, <1>2, <1>3, <1>4, <1>5, <1>6, <1>7, <1>8, <1>9, <1>10, <1>11, <1>12, <1>13,
     <1>14, <1>15, <1>16, <1>17, <1>18, <1>19, <1>20, <1>21, <1>22, <1>23 DEF Next, ReaderStep

\* The driver and the device have their types.
LEMMA LinkTypesNext ==
  ASSUME LinkTypes, [Next]_vars
  PROVE  LinkTypes'
<1> USE DEF LinkTypes, pacing, driver, reading, screen, Goto
<1>1. CASE StopScan
  BY <1>1 DEF StopScan
<1>2. CASE StopMotor
  BY <1>2 DEF StopMotor, MotorStops
<1>3. CASE Reset
  BY <1>3 DEF Reset
<1>4. CASE Alloc
  BY <1>4 DEF Alloc
<1>5. CASE AllocThrows
  BY <1>5 DEF AllocThrows
<1>6. CASE Connect
  BY <1>6 DEF Connect, NextBaud
<1>7. CASE GetDeviceInfo
  BY <1>7 DEF GetDeviceInfo, NextBaud
<1>8. CASE GetHealth
  BY <1>8 DEF GetHealth
<1>9. CASE StartMotor
  BY <1>9 DEF StartMotor
<1>10. CASE StartScan
  BY <1>10 DEF StartScan, ScanStarts, ScanFails
<1>11. CASE Loop
  BY <1>11 DEF Loop
<1>12. CASE TestHealth
  BY <1>12 DEF TestHealth
<1>13. CASE ReadScan
  BY <1>13 DEF ReadScan
<1>14. CASE ReadEmpty
  BY <1>14 DEF ReadEmpty
<1>15. CASE Lock
  BY <1>15 DEF Lock
<1>16. CASE Write
  BY <1>16 DEF Write
<1>17. CASE DrawLock
  BY <1>17 DEF DrawLock
<1>18. CASE DrawCopy
  BY <1>18 DEF DrawCopy
<1>19. CASE Stop
  BY <1>19 DEF Stop
<1>20. CASE Publish
  BY <1>20 DEF Publish
<1>21. CASE ScanEnds
  BY <1>21 DEF ScanEnds
<1>22. CASE DeviceChanges
  BY <1>22 DEF DeviceChanges
<1>23. CASE UNCHANGED vars
  BY <1>23 DEF vars
<1>. QED
  BY <1>1, <1>2, <1>3, <1>4, <1>5, <1>6, <1>7, <1>8, <1>9, <1>10, <1>11, <1>12, <1>13,
     <1>14, <1>15, <1>16, <1>17, <1>18, <1>19, <1>20, <1>21, <1>22, <1>23 DEF Next, ReaderStep

\* What is grabbed is of nodes, and what is drawn of values.
LEMMA ScreenTypesNext ==
  ASSUME ScreenTypes, OfAScan, [Next]_vars
  PROVE  ScreenTypes'
<1> USE DEF ScreenTypes, pacing, driver, reading, screen, Goto
<1>1. CASE StopScan
  BY <1>1 DEF StopScan
<1>2. CASE StopMotor
  BY <1>2 DEF StopMotor
<1>3. CASE Reset
  BY <1>3 DEF Reset
<1>4. CASE Alloc
  BY <1>4 DEF Alloc
<1>5. CASE AllocThrows
  BY <1>5 DEF AllocThrows
<1>6. CASE Connect
  BY <1>6 DEF Connect, NextBaud
<1>7. CASE GetDeviceInfo
  BY <1>7 DEF GetDeviceInfo, NextBaud
<1>8. CASE GetHealth
  BY <1>8 DEF GetHealth
<1>9. CASE StartMotor
  BY <1>9 DEF StartMotor
<1>10. CASE StartScan
  BY <1>10 DEF StartScan, ScanStarts, ScanFails
<1>11. CASE Loop
  BY <1>11 DEF Loop
<1>12. CASE TestHealth
  BY <1>12 DEF TestHealth
<1>13. CASE ReadScan
  <2>1. published' \in Scans /\ asked' \in Densities /\ grabbed' = FirstOf(published', asked')
    BY <1>13 DEF ReadScan
  <2>2. grabbed' \in Grabs
    BY <2>1 DEF Grabs
  <2>. QED
    BY <1>13, <2>1, <2>2, GrabsType, ReaderAssumption DEF ReadScan, ReaderAssumption
<1>14. CASE ReadEmpty
  BY <1>14 DEF ReadEmpty
<1>15. CASE Lock
  BY <1>15 DEF Lock
<1>16. CASE Write
  <2>1. CASE lastRead = "scan"
    <3>1. grabbed \in Grabs /\ lastToDraw' \in Pictures[grabbed]
      BY <1>16, <2>1 DEF Write, OfAScan, Grabs
    <3>. QED
      BY <1>16, <3>1, PicturesShow DEF Write
  <2>2. CASE lastRead # "scan"
    BY <1>16, <2>2 DEF Write
  <2>. QED
    BY <2>1, <2>2
<1>17. CASE DrawLock
  BY <1>17 DEF DrawLock
<1>18. CASE DrawCopy
  BY <1>18 DEF DrawCopy
<1>19. CASE Stop
  BY <1>19 DEF Stop
<1>20. CASE Publish
  BY <1>20 DEF Publish
<1>21. CASE ScanEnds
  BY <1>21 DEF ScanEnds
<1>22. CASE DeviceChanges
  BY <1>22 DEF DeviceChanges
<1>23. CASE UNCHANGED vars
  BY <1>23 DEF vars
<1>. QED
  BY <1>1, <1>2, <1>3, <1>4, <1>5, <1>6, <1>7, <1>8, <1>9, <1>10, <1>11, <1>12, <1>13,
     <1>14, <1>15, <1>16, <1>17, <1>18, <1>19, <1>20, <1>21, <1>22, <1>23 DEF Next, ReaderStep

LEMMA NextInv == IInv /\ [Next]_vars => IInv'
<1> SUFFICES ASSUME IInv, [Next]_vars
             PROVE  IInv'
  OBVIOUS
<1>1. ControlTypes /\ LinkTypes /\ ScreenTypes /\ PortOwned /\ LockHeld /\ Ending /\ Paced /\ OfAScan
  BY DEF IInv, TypeOK
<1>2. ControlTypes' /\ LinkTypes' /\ ScreenTypes'
  BY <1>1, ControlTypesNext, LinkTypesNext, ScreenTypesNext
<1>3. PortOwned' /\ LockHeld' /\ OfAScan'
  BY <1>1, PortOwnedNext, LockHeldNext, OfAScanNext
<1>4. Ending' /\ Paced'
  BY <1>1, EndingNext, PacedNext
<1>. QED
  BY <1>2, <1>3, <1>4 DEF IInv, TypeOK

-----------------------------------------------------------------------------
(* The theorems.                                                           *)

\* The inductive invariant holds in every reachable state.
THEOREM InvHolds == Spec => []IInv
BY InitInv, NextInv, PTL DEF Spec

\* Every variable of the reader and of the wrapper has its type.
THEOREM TypeCorrect == Spec => []TypeOK
<1>1. IInv => TypeOK
  BY DEF IInv
<1>. QED
  BY <1>1, InvHolds, PTL

\* For any period, a read is never the EachReads-th after a check, and never
\* the one after an empty read: the check comes first (lidarcontainer.cpp:40).
THEOREM HealthCheckDueHolds == Spec => []HealthCheckDue
<1>1. IInv => HealthCheckDue
  <2>1. ControlTypes => Counted < EachReads
    BY PeriodFacts DEF ControlTypes, Counted
  <2>2. ControlTypes => unchecked \in Nat /\ Counted \in Nat
    BY PeriodFacts DEF ControlTypes, Counted
  <2>. QED
    BY <2>1, <2>2, PeriodFacts DEF IInv, TypeOK, Paced, HealthCheckDue
<1>. QED
  BY <1>1, InvHolds, PTL

\* For any list of rates, and whatever call of init or of the scan fails, an
\* open port is the one of the driver that the wrapper holds.
THEOREM PortOwnedHolds == Spec => []PortOwned
<1>1. IInv => PortOwned
  BY DEF IInv
<1>. QED
  BY <1>1, InvHolds, PTL

\* The reader does not write the readings while the drawer copies them.
THEOREM NoTornReadingsHolds == Spec => []NoTornReadings
<1>1. IInv => NoTornReadings
  BY DEF IInv, LockHeld, NoTornReadings
<1>. QED
  BY <1>1, InvHolds, PTL

\* A thread that has ended was asked to, and left no driver, no open port and no
\* scan that is cached.
THEOREM StopsCleanHolds == Spec => []StopsClean
<1>1. IInv => StopsClean
  BY DEF IInv, TypeOK, LinkTypes, Ending, PortOwned, Connected, StopsClean
<1>. QED
  BY <1>1, InvHolds, PTL

\* Of any scan that was published, of any number of nodes measured or not, and
\* whatever order the sorts leave equal readings in, the screen gets each node
\* measured in view among the first that were asked for, once, at its own angle,
\* the farthest first; of an empty read none.
THEOREM DrawsTheScanHolds == Spec => DrawsTheScan
<1>1. IInv /\ [Next]_vars =>
        [rpc = "write" /\ rpc' # rpc =>
           IF lastRead = "scan" THEN ShowsScan(lastToDraw', FirstOf(published, asked))
                                ELSE lastToDraw' = <<>>]_vars
  <2> SUFFICES ASSUME IInv, Next, rpc = "write", rpc' # rpc
               PROVE  IF lastRead = "scan" THEN ShowsScan(lastToDraw', FirstOf(published, asked))
                                           ELSE lastToDraw' = <<>>
    OBVIOUS
  <2>1. Write
    BY DEF Next, ReaderStep, StopScan, StopMotor, Reset, Alloc, AllocThrows, Connect,
           GetDeviceInfo, GetHealth, StartMotor, StartScan, ScanStarts, ScanFails, Loop,
           TestHealth, ReadScan, ReadEmpty, Lock, DrawLock, DrawCopy, Stop, Publish,
           ScanEnds, DeviceChanges
  <2>2. CASE lastRead = "scan"
    <3>1. /\ published \in Scans /\ asked \in Densities /\ grabbed = FirstOf(published, asked)
          /\ lastToDraw' \in Pictures[grabbed]
      BY <2>1, <2>2 DEF IInv, OfAScan, Write
    <3>2. grabbed \in Grabs
      BY <3>1 DEF Grabs
    <3>. QED
      BY <2>2, <3>1, <3>2, PicturesShow
  <2>3. CASE lastRead # "scan"
    BY <2>1, <2>3 DEF Write
  <2>. QED
    BY <2>2, <2>3
<1>. QED
  BY <1>1, InvHolds, PTL DEF Spec, DrawsTheScan
=============================================================================
