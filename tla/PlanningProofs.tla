---------------------------- MODULE PlanningProofs -----------------------------
(***************************************************************************)
(* Proofs about the planner of StoryPlanning: whatever stories the         *)
(* detectors found and however they rank, the plan keeps its caps and      *)
(* leaves a story out only when there is no room for it.  The plan is a    *)
(* fold, so the first part says that there is such a fold.                 *)
(***************************************************************************)
EXTENDS StoryPlanning, FiniteSetTheorems, SequenceTheorems, WellFoundedInduction, TLAPS

-----------------------------------------------------------------------------
\* Numbers and folds

\* A set of numbers with an element has a least one.
LEMMA HasLeast ==
  ASSUME NEW S, S \subseteq Nat, S # {}
  PROVE  \E x \in S : \A y \in S : x <= y
<1>1. PICK x \in S : \A y \in S : <<y, x>> \notin OpToRel(<, Nat)
  BY NatLessThanWellFounded, WFMin
<1>2. \A y \in S : ~(y < x)
  BY <1>1 DEF OpToRel
<1> QED BY <1>2

\* A set of numbers that holds zero and every successor of its members holds them all.
LEMMA NatSetInduction ==
  ASSUME NEW P, 0 \in P, \A n \in Nat : n \in P => n + 1 \in P
  PROVE  Nat \subseteq P
<1> SUFFICES ASSUME Nat \ P # {} PROVE FALSE
  OBVIOUS
<1>1. PICK n \in Nat \ P : \A m \in Nat \ P : n <= m
  BY HasLeast
<1>2. n # 0
  BY <1>1
<1>3. n - 1 \in Nat /\ n - 1 \in P
  BY <1>1, <1>2
<1> QED BY <1>1, <1>3

\* A non-empty part of 1..n has a largest index, and the rest lies below it.
LEMMA LargestOf ==
  ASSUME NEW n \in Nat, NEW s \in SUBSET (1..n), s # {}
  PROVE  Max(s) \in s /\ s \ {Max(s)} \subseteq 1..(Max(s) - 1)
<1> DEFINE P == {k \in Nat : \A t \in SUBSET (1..k) : t # {} => \E x \in t : \A y \in t : x >= y}
<1>1. 0 \in P
  <2>1. 1..0 = {}
    OBVIOUS
  <2> QED BY <2>1
<1>2. ASSUME NEW k \in Nat, k \in P PROVE k + 1 \in P
  <2> SUFFICES ASSUME NEW t \in SUBSET (1..(k + 1)), t # {} PROVE \E x \in t : \A y \in t : x >= y
    OBVIOUS
  <2>1. CASE k + 1 \in t
    BY <2>1
  <2>2. CASE k + 1 \notin t
    <3>1. t \in SUBSET (1..k)
      BY <2>2
    <3> QED BY <3>1, <1>2
  <2> QED BY <2>1, <2>2
<1>3. Nat \subseteq P
  <2> HIDE DEF P
  <2> QED BY <1>1, <1>2, NatSetInduction
<1>4. \E x \in s : \A y \in s : x >= y
  BY <1>3
<1>5. Max(s) \in s /\ \A y \in s : Max(s) >= y
  BY <1>4, Zenon DEF Max
<1> HIDE DEF P
<1>6. \A y \in s \ {Max(s)} : y \in 1..(Max(s) - 1)
  <2> DEFINE m == Max(s)
  <2>1. m \in s /\ \A y \in s : m >= y
    BY <1>5
  <2> HIDE DEF m
  <2>2. \A y \in s \ {m} : y \in 1..(m - 1)
    BY <2>1
  <2> QED BY <2>2 DEF m
<1> QED BY <1>5, <1>6

\* One more index of a fold
Advance(op, base, h, s) == IF s = {} THEN base ELSE op[<<Max(s), h[s \ {Max(s)}]>>]

\* A fold over the parts of 1..n, the largest index last
FoldOf(op, base, n, V, h) ==
    h \in [SUBSET (1..n) -> V] /\ \A s \in SUBSET (1..n) : h[s] = Advance(op, base, h, s)

\* There is such a fold.
LEMMA FoldIsThere ==
  ASSUME NEW n \in Nat, NEW V, NEW base \in V, NEW op \in [(1..n) \X V -> V]
  PROVE  \E h : FoldOf(op, base, n, V, h)
<1> DEFINE N == {k \in Nat : k <= n => \E h : FoldOf(op, base, k, V, h)}
<1>1. 0 \in N
  <2> DEFINE h == [s \in SUBSET (1..0) |-> base]
  <2>1. \A s \in SUBSET (1..0) : s = {}
    OBVIOUS
  <2>2. FoldOf(op, base, 0, V, h)
    BY <2>1 DEF FoldOf, Advance
  <2> QED BY <2>2
<1>2. ASSUME NEW k \in Nat, k \in N PROVE k + 1 \in N
  <2> SUFFICES ASSUME k + 1 <= n PROVE \E h : FoldOf(op, base, k + 1, V, h)
    OBVIOUS
  <2>1. PICK h : FoldOf(op, base, k, V, h)
    BY <1>2
  <2> DEFINE g == [s \in SUBSET (1..(k + 1)) |-> Advance(op, base, h, s)]
  <2>2. ASSUME NEW s \in SUBSET (1..(k + 1)), s # {}
        PROVE  Max(s) \in 1..n /\ s \ {Max(s)} \in SUBSET (1..k)
    <3>1. Max(s) \in s /\ s \ {Max(s)} \subseteq 1..(Max(s) - 1)
      <4>1. k + 1 \in Nat
        OBVIOUS
      <4> HIDE DEF N
      <4> QED BY <4>1, <2>2, LargestOf
    <3> DEFINE m == Max(s)
    <3>2. m \in 1..(k + 1) /\ s \ {m} \subseteq 1..(m - 1)
      BY <3>1
    <3> HIDE DEF m
    <3>3. m \in 1..n /\ s \ {m} \in SUBSET (1..k)
      BY <3>2
    <3> QED BY <3>3 DEF m
  <2>3. ASSUME NEW s \in SUBSET (1..(k + 1)) PROVE Advance(op, base, h, s) \in V
    <3>1. CASE s = {}
      BY <3>1 DEF Advance
    <3>2. CASE s # {}
      <4>1. Max(s) \in 1..n /\ s \ {Max(s)} \in SUBSET (1..k)
        BY <2>2, <3>2
      <4>2. h[s \ {Max(s)}] \in V
        BY <4>1, <2>1 DEF FoldOf
      <4> QED BY <3>2, <4>1, <4>2 DEF Advance
    <3> QED BY <3>1, <3>2
  <2>4. g \in [SUBSET (1..(k + 1)) -> V]
    BY <2>3
  <2>5. ASSUME NEW s \in SUBSET (1..k) PROVE g[s] = h[s]
    <3>1. s \in SUBSET (1..(k + 1))
      OBVIOUS
    <3>2. h[s] = Advance(op, base, h, s)
      BY <2>1 DEF FoldOf
    <3> QED BY <3>1, <3>2
  <2>6. ASSUME NEW s \in SUBSET (1..(k + 1)) PROVE g[s] = Advance(op, base, g, s)
    <3>1. g[s] = Advance(op, base, h, s)
      OBVIOUS
    <3>2. s # {} => g[s \ {Max(s)}] = h[s \ {Max(s)}]
      BY <2>2, <2>5
    <3> HIDE DEF g
    <3> QED BY <3>1, <3>2 DEF Advance
  <2>7. FoldOf(op, base, k + 1, V, g)
    <3> HIDE DEF g
    <3> QED BY <2>4, <2>6 DEF FoldOf
  <2> QED BY <2>7
<1>3. Nat \subseteq N
  <2> HIDE DEF N
  <2> QED BY <1>1, <1>2, NatSetInduction
<1> QED BY <1>3

-----------------------------------------------------------------------------
\* The planner as a fold

\* The stories as the planner walks them, the best first
InOrder(stories, seen) == Ranked(stories, LAMBDA s : <<Priority(s, seen), -TypeRank(s.type)>>)

\* What a story adds to the selection
Took(picked, s, topN) == IF HasRoom(picked, s, topN) THEN Append(picked, s) ELSE picked

\* The definition of the plan, without the operators it goes through.
LEMMA PlanByFold ==
  ASSUME NEW stories, NEW topN, NEW seen
  PROVE  \E it :
           /\ Plan(stories, topN, seen) = it[DOMAIN InOrder(stories, seen)]
           /\ it = CHOOSE h : h = [s \in SUBSET DOMAIN InOrder(stories, seen) |->
                    IF s = {} THEN << >>
                    ELSE Took(h[s \ {Max(s)}], InOrder(stories, seen)[Max(s)], topN)]
BY Zenon DEF Plan, FoldLeft, MapThenFoldSet, InOrder, Took

\* There are as many stories in that order as there are stories.
LEMMA InOrderLength ==
  ASSUME NEW stories, NEW n \in Nat, DOMAIN stories = 1..n, NEW seen
  PROVE  DOMAIN InOrder(stories, seen) = 1..n
<1>1. ASSUME NEW f, f = [k \in 1..n |-> f[k]] PROVE DOMAIN AsTuple(f) = 1..n
  <2>1. f \in Seq({f[k] : k \in 1..n})
    BY <1>1
  <2>2. Len(f) = n
    BY <1>1, <2>1
  <2> QED BY <2>1, <2>2 DEF AsTuple
<1> QED BY <1>1 DEF InOrder, Ranked

-----------------------------------------------------------------------------
\* The caps

\* No cap of the planner is passed.
Spread(picked, topN) ==
    /\ Cardinality({Identity(picked[i]) : i \in DOMAIN picked}) <= topN
    /\ \A s : Cardinality(SameType(picked, s)) <= MaxPerType
    /\ \A s : Subject(s) # << >> => Cardinality(SameSubject(picked, s)) <= MaxPerSubject

\* One more element of a sequence.
LEMMA OneMore ==
  ASSUME NEW R, NEW v \in Seq(R), NEW x \in R
  PROVE  LET w == Append(v, x)
         IN  /\ w \in Seq(R) /\ Len(v) \in Nat /\ DOMAIN v = 1..Len(v)
             /\ DOMAIN w = DOMAIN v \cup {Len(v) + 1} /\ Len(v) + 1 \notin DOMAIN v
             /\ w[Len(v) + 1] = x /\ \A i \in DOMAIN v : w[i] = v[i]
OBVIOUS

\* The places of a selection are finitely many, and so are its identities.
LEMMA FewPlaces ==
  ASSUME NEW R, NEW v \in Seq(R)
  PROVE  /\ \A S \in SUBSET DOMAIN v : IsFiniteSet(S) /\ Cardinality(S) \in Nat
         /\ IsFiniteSet({Identity(v[i]) : i \in DOMAIN v})
         /\ Cardinality({Identity(v[i]) : i \in DOMAIN v}) \in Nat
<1>1. Len(v) \in Nat /\ DOMAIN v = 1..Len(v)
  OBVIOUS
<1>2. IsFiniteSet(DOMAIN v)
  BY <1>1, FS_Interval
<1>3. \A S \in SUBSET DOMAIN v : IsFiniteSet(S) /\ Cardinality(S) \in Nat
  BY <1>2, FS_Subset, FS_CardinalityType
<1> DEFINE Ids == {Identity(v[i]) : i \in DOMAIN v}
           c == [i \in DOMAIN v |-> Identity(v[i])]
<1>4. c \in [DOMAIN v -> Ids] /\ \A y \in Ids : \E i \in DOMAIN v : c[i] = y
  OBVIOUS
<1> HIDE DEF Ids, c
<1>5. c \in Surjection(DOMAIN v, Ids)
  BY <1>4, Zenon DEF Surjection
<1>6. IsFiniteSet(Ids)
  BY <1>2, <1>5, FS_Surjection
<1> QED BY <1>3, <1>6, FS_CardinalityType DEF Ids

\* A set with one element more.
LEMMA AtMostOneMore ==
  ASSUME NEW S, IsFiniteSet(S), NEW T, NEW x, T \subseteq S \cup {x}
  PROVE  IsFiniteSet(T) /\ Cardinality(T) \in Nat /\ Cardinality(S) \in Nat
         /\ Cardinality(T) <= Cardinality(S) + 1
<1>1. IsFiniteSet(S \cup {x}) /\ Cardinality(S \cup {x}) <= Cardinality(S) + 1
      /\ Cardinality(S) \in Nat
  BY FS_AddElement, FS_CardinalityType
<1>2. IsFiniteSet(T) /\ Cardinality(T) <= Cardinality(S \cup {x})
  BY <1>1, FS_Subset
<1> QED BY <1>1, <1>2, FS_CardinalityType

\* A story that is taken has room.
LEMMA TookSpread ==
  ASSUME NEW topN \in Nat, NEW R, NEW v \in Seq(R), NEW x \in R, Spread(v, topN)
  PROVE  Took(v, x, topN) \in Seq(R) /\ Spread(Took(v, x, topN), topN)
<1>1. CASE ~HasRoom(v, x, topN)
  BY <1>1 DEF Took
<1>2. CASE HasRoom(v, x, topN)
  <2> DEFINE w == Append(v, x)
             n == Len(v) + 1
  <2>1. Took(v, x, topN) = w /\ w \in Seq(R)
    BY <1>2 DEF Took
  <2>2. /\ DOMAIN w = DOMAIN v \cup {n} /\ n \notin DOMAIN v /\ w[n] = x
        /\ \A i \in DOMAIN v : w[i] = v[i]
    BY OneMore
  <2>3. \A S \in SUBSET DOMAIN v : IsFiniteSet(S) /\ Cardinality(S) \in Nat
    BY FewPlaces
  <2>4. IsFiniteSet({Identity(v[i]) : i \in DOMAIN v})
    BY FewPlaces
  <2> HIDE DEF w, n
  <2>5. Cardinality({Identity(w[i]) : i \in DOMAIN w}) <= topN
    <3>1. {Identity(w[i]) : i \in DOMAIN w} \subseteq {Identity(v[i]) : i \in DOMAIN v} \cup {Identity(x)}
      BY <2>2
    <3> DEFINE T == {Identity(w[i]) : i \in DOMAIN w}
               S == {Identity(v[i]) : i \in DOMAIN v}
    <3>2. Cardinality(S) < topN
      BY <1>2 DEF HasRoom
    <3>3. T \subseteq S \cup {Identity(x)} /\ IsFiniteSet(S)
      BY <2>4, <3>1
    <3> HIDE DEF T, S
    <3>4. Cardinality(T) \in Nat /\ Cardinality(S) \in Nat /\ Cardinality(T) <= Cardinality(S) + 1
      BY <3>3, AtMostOneMore
    <3>5. Cardinality(T) <= topN
      BY <3>2, <3>4
    <3> QED BY <3>5 DEF T
  <2>6. ASSUME NEW s PROVE Cardinality(SameType(w, s)) <= MaxPerType
    <3>1. SameType(w, s) \subseteq SameType(v, s) \cup {n} /\ SameType(v, s) \in SUBSET DOMAIN v
      BY <2>2 DEF SameType
    <3>2. Cardinality(SameType(v, s)) <= MaxPerType
      BY DEF Spread
    <3>3. CASE x.type = s.type
      <4>1. SameType(v, x) = SameType(v, s)
        BY <3>3 DEF SameType
      <4>2. Cardinality(SameType(v, s)) < MaxPerType
        BY <1>2, <4>1 DEF HasRoom
      <4>3. IsFiniteSet(SameType(v, s))
        BY <2>3, <3>1
      <4>4. /\ Cardinality(SameType(w, s)) \in Nat /\ Cardinality(SameType(v, s)) \in Nat
            /\ Cardinality(SameType(w, s)) <= Cardinality(SameType(v, s)) + 1
        BY <3>1, <4>3, AtMostOneMore
      <4> QED BY <4>2, <4>4, PlanningAssumption
    <3>4. CASE x.type # s.type
      <4>1. SameType(w, s) = SameType(v, s)
        BY <2>2, <3>4 DEF SameType
      <4> QED BY <3>2, <4>1
    <3> QED BY <3>3, <3>4
  <2>7. ASSUME NEW s, Subject(s) # << >> PROVE Cardinality(SameSubject(w, s)) <= MaxPerSubject
    <3>1. SameSubject(w, s) \subseteq SameSubject(v, s) \cup {n} /\ SameSubject(v, s) \in SUBSET DOMAIN v
      BY <2>2 DEF SameSubject
    <3>2. Cardinality(SameSubject(v, s)) <= MaxPerSubject
      BY <2>7 DEF Spread
    <3>3. CASE Subject(x) = Subject(s)
      <4>1. SameSubject(v, x) = SameSubject(v, s)
        BY <3>3 DEF SameSubject
      <4>2. Cardinality(SameSubject(v, s)) < MaxPerSubject
        BY <1>2, <2>7, <3>3, <4>1 DEF HasRoom
      <4>3. IsFiniteSet(SameSubject(v, s))
        BY <2>3, <3>1
      <4>4. /\ Cardinality(SameSubject(w, s)) \in Nat /\ Cardinality(SameSubject(v, s)) \in Nat
            /\ Cardinality(SameSubject(w, s)) <= Cardinality(SameSubject(v, s)) + 1
        BY <3>1, <4>3, AtMostOneMore
      <4> QED BY <4>2, <4>4, PlanningAssumption
    <3>4. CASE Subject(x) # Subject(s)
      <4>1. SameSubject(w, s) = SameSubject(v, s)
        BY <2>2, <3>4 DEF SameSubject
      <4> QED BY <3>2, <4>1
    <3> QED BY <3>3, <3>4
  <2> QED BY <2>1, <2>5, <2>6, <2>7 DEF Spread
<1> QED BY <1>1, <1>2

\* What had no room has none after another story is taken.
LEMMA NoMoreRoom ==
  ASSUME NEW topN \in Nat, NEW R, NEW v \in Seq(R), NEW x \in R, NEW y, ~HasRoom(v, y, topN)
  PROVE  ~HasRoom(Took(v, x, topN), y, topN)
<1>1. CASE ~HasRoom(v, x, topN)
  BY <1>1 DEF Took
<1>2. CASE HasRoom(v, x, topN)
  <2> DEFINE w == Append(v, x)
             n == Len(v) + 1
             S == {Identity(v[i]) : i \in DOMAIN v}
             T == {Identity(w[i]) : i \in DOMAIN w}
  <2>1. Took(v, x, topN) = w /\ w \in Seq(R)
    BY <1>2 DEF Took
  <2>2. /\ DOMAIN w = DOMAIN v \cup {n} /\ n \notin DOMAIN v /\ w[n] = x
        /\ \A i \in DOMAIN v : w[i] = v[i]
    BY OneMore
  <2>3. /\ \A P \in SUBSET DOMAIN w : IsFiniteSet(P) /\ Cardinality(P) \in Nat
        /\ IsFiniteSet(T) /\ Cardinality(T) \in Nat
    <3>1. w \in Seq(R)
      BY <2>1
    <3> HIDE DEF w
    <3>2. /\ \A P \in SUBSET DOMAIN w : IsFiniteSet(P) /\ Cardinality(P) \in Nat
          /\ IsFiniteSet({Identity(w[i]) : i \in DOMAIN w})
          /\ Cardinality({Identity(w[i]) : i \in DOMAIN w}) \in Nat
      BY <3>1, FewPlaces
    <3> QED BY <3>2
  <2> HIDE DEF w, n
  <2>4. Cardinality(S) <= Cardinality(T) /\ Cardinality(S) \in Nat
    <3>1. S \subseteq T
      BY <2>2
    <3> HIDE DEF S, T
    <3> QED BY <2>3, <3>1, FS_Subset, FS_CardinalityType
  <2>5. Cardinality(SameType(v, y)) <= Cardinality(SameType(w, y))
        /\ Cardinality(SameType(v, y)) \in Nat /\ Cardinality(SameType(w, y)) \in Nat
    <3>1. SameType(v, y) \subseteq SameType(w, y) /\ SameType(w, y) \subseteq DOMAIN w
      BY <2>2 DEF SameType
    <3> QED BY <2>3, <3>1, FS_Subset, FS_CardinalityType
  <2>6. Cardinality(SameSubject(v, y)) <= Cardinality(SameSubject(w, y))
        /\ Cardinality(SameSubject(v, y)) \in Nat /\ Cardinality(SameSubject(w, y)) \in Nat
    <3>1. SameSubject(v, y) \subseteq SameSubject(w, y) /\ SameSubject(w, y) \subseteq DOMAIN w
      BY <2>2 DEF SameSubject
    <3> QED BY <2>3, <3>1, FS_Subset, FS_CardinalityType
  <2>7. ~HasRoom(w, y, topN)
    <3>1. HasRoom(v, y, topN) <=>
            /\ Cardinality(S) < topN /\ Cardinality(SameType(v, y)) < MaxPerType
            /\ Subject(y) # << >> => Cardinality(SameSubject(v, y)) < MaxPerSubject
      BY DEF HasRoom
    <3>2. HasRoom(w, y, topN) <=>
            /\ Cardinality(T) < topN /\ Cardinality(SameType(w, y)) < MaxPerType
            /\ Subject(y) # << >> => Cardinality(SameSubject(w, y)) < MaxPerSubject
      BY DEF HasRoom
    <3> HIDE DEF S, T
    <3> QED BY <2>3, <2>4, <2>5, <2>6, <3>1, <3>2, PlanningAssumption
  <2> QED BY <2>1, <2>7
<1> QED BY <1>1, <1>2

\* The planner keeps its caps, and leaves a story out only when there is no room for
\* it, on any list of stories: it selects among the ones it walks, at most topN
\* different ones, MaxPerType of a type and MaxPerSubject about a player, a club or a
\* match; a story that is left out would pass one of these.
THEOREM PlanIsSpread ==
  ASSUME NEW stories, NEW n \in Nat, DOMAIN stories = 1..n, NEW topN \in Nat, NEW seen
  PROVE  LET picked  == Plan(stories, topN, seen)
             ordered == InOrder(stories, seen)
         IN  /\ picked \in Seq({ordered[k] : k \in 1..n})
             /\ Spread(picked, topN)
             /\ \A k \in 1..n :
                  ordered[k] \in {picked[i] : i \in DOMAIN picked} \/ ~HasRoom(picked, ordered[k], topN)
<1> DEFINE ordered == InOrder(stories, seen)
           R == {ordered[k] : k \in 1..n}
           op == [z \in (1..n) \X Seq(R) |-> Took(z[2], ordered[z[1]], topN)]
           Left(v, k) == ordered[k] \in {v[i] : i \in DOMAIN v} \/ ~HasRoom(v, ordered[k], topN)
           Done(v, s) == Spread(v, topN) /\ \A k \in s : Left(v, k)
<1>1. DOMAIN ordered = 1..n /\ \A k \in 1..n : ordered[k] \in R
  BY InOrderLength
<1> HIDE DEF ordered, R
<1>2. ASSUME NEW v \in Seq(R), NEW k \in 1..n PROVE Took(v, ordered[k], topN) \in Seq(R)
  BY <1>1, <1>2 DEF Took
<1>3. << >> \in Seq(R) /\ op \in [(1..n) \X Seq(R) -> Seq(R)]
  <2>1. ASSUME NEW z \in (1..n) \X Seq(R) PROVE Took(z[2], ordered[z[1]], topN) \in Seq(R)
    <3>1. z[1] \in 1..n /\ z[2] \in Seq(R)
      OBVIOUS
    <3> QED BY <3>1, <1>2
  <2>2. op \in [(1..n) \X Seq(R) -> Seq(R)]
    BY <2>1, Zenon
  <2> QED BY <2>2
<1>4. PICK h : FoldOf(op, << >>, n, Seq(R), h)
  <2> HIDE DEF op
  <2> QED BY <1>3, FoldIsThere
<1>5. h = [s \in SUBSET (1..n) |->
            IF s = {} THEN << >> ELSE Took(h[s \ {Max(s)}], ordered[Max(s)], topN)]
  <2>1. h = [s \in SUBSET (1..n) |-> h[s]]
    BY <1>4 DEF FoldOf
  <2>2. ASSUME NEW s \in SUBSET (1..n)
        PROVE  h[s] = IF s = {} THEN << >> ELSE Took(h[s \ {Max(s)}], ordered[Max(s)], topN)
    <3>1. h[s] = Advance(op, << >>, h, s)
      BY <1>4 DEF FoldOf
    <3>2. CASE s = {}
      BY <3>1, <3>2 DEF Advance
    <3>3. CASE s # {}
      <4>1. Max(s) \in 1..n /\ s \ {Max(s)} \in SUBSET (1..n)
        BY <3>3, LargestOf
      <4>2. h[s \ {Max(s)}] \in Seq(R)
        BY <1>4, <4>1 DEF FoldOf
      <4> QED BY <3>1, <3>3, <4>1, <4>2 DEF Advance
    <3> QED BY <3>2, <3>3
  <2> QED BY <2>1, <2>2
<1> DEFINE Walk(g) == [s \in SUBSET (1..n) |->
                        IF s = {} THEN << >> ELSE Took(g[s \ {Max(s)}], ordered[Max(s)], topN)]
<1>6. PICK it : Plan(stories, topN, seen) = it[1..n] /\ it = Walk(it)
  <2> DEFINE W(g) == [s \in SUBSET DOMAIN ordered |->
                       IF s = {} THEN << >> ELSE Took(g[s \ {Max(s)}], ordered[Max(s)], topN)]
  <2>1. PICK it : /\ Plan(stories, topN, seen) = it[DOMAIN ordered]
                  /\ it = CHOOSE g : g = W(g)
    BY PlanByFold DEF ordered
  <2>2. h = W(h)
    BY <1>1, <1>5
  <2> HIDE DEF W
  <2>3. it = W(it)
    BY <2>1, <2>2, Zenon
  <2>4. it = Walk(it)
    BY <2>3, <1>1 DEF W
  <2>5. Plan(stories, topN, seen) = it[1..n]
    BY <2>1, <1>1, Zenon
  <2> HIDE DEF Walk
  <2> QED BY <2>4, <2>5
<1>7. ASSUME NEW s \in SUBSET (1..n)
      PROVE  it[s] = IF s = {} THEN << >> ELSE Took(it[s \ {Max(s)}], ordered[Max(s)], topN)
  BY <1>6, Zenon
<1> HIDE DEF op, Walk
<1> DEFINE N == {k \in Nat : k <= n => \A s \in SUBSET (1..k) : it[s] \in Seq(R) /\ Done(it[s], s)}
<1>8. 0 \in N
  <2>1. \A s \in SUBSET (1..0) : s = {} /\ s \in SUBSET (1..n)
    OBVIOUS
  <2>2. \A s \in SUBSET (1..0) : it[s] = << >>
    BY <2>1, <1>7
  <2>3. Spread(<< >>, topN)
    <3>1. {Identity(<< >>[i]) : i \in DOMAIN << >>} = {}
      OBVIOUS
    <3>2. \A s : SameType(<< >>, s) = {} /\ SameSubject(<< >>, s) = {}
      BY DEF SameType, SameSubject
    <3>3. Cardinality({}) = 0
      BY FS_EmptySet
    <3>4. Cardinality({Identity(<< >>[i]) : i \in DOMAIN << >>}) = 0
      BY <3>1, <3>3, Zenon
    <3>5. \A s : Cardinality(SameType(<< >>, s)) = 0 /\ Cardinality(SameSubject(<< >>, s)) = 0
      BY <3>2, <3>3, Zenon
    <3>6. 0 <= topN /\ 0 <= MaxPerType /\ 0 <= MaxPerSubject
      BY PlanningAssumption
    <3> QED BY <3>4, <3>5, <3>6, Zenon DEF Spread
  <2>4. << >> \in Seq(R)
    OBVIOUS
  <2> HIDE DEF Left
  <2>5. \A s \in SUBSET (1..0) : it[s] \in Seq(R) /\ Done(it[s], s)
    BY <2>1, <2>2, <2>3, <2>4
  <2> QED BY <2>5
<1>9. ASSUME NEW k \in Nat, k \in N PROVE k + 1 \in N
  <2> HIDE DEF Done
  <2> SUFFICES ASSUME k + 1 <= n, NEW s \in SUBSET (1..(k + 1))
               PROVE  it[s] \in Seq(R) /\ Done(it[s], s)
    OBVIOUS
  <2>1. \A t \in SUBSET (1..k) : it[t] \in Seq(R) /\ Done(it[t], t)
    BY <1>9
  <2> HIDE DEF N
  <2> USE DEF Done
  <2>2. CASE s = {}
    <3>1. s \in SUBSET (1..k)
      BY <2>2
    <3> QED BY <3>1, <2>1
  <2>3. CASE s # {}
    <3> DEFINE m == Max(s)
               v == it[s \ {Max(s)}]
    <3>1. m \in s /\ s \ {m} \subseteq 1..(m - 1)
      <4>1. k + 1 \in Nat
        OBVIOUS
      <4> QED BY <4>1, <2>3, LargestOf
    <3>2. s \in SUBSET (1..n)
      OBVIOUS
    <3>3. it[s] = Took(v, ordered[m], topN)
      BY <3>2, <2>3, <1>7
    <3>4. v = it[s \ {m}]
      OBVIOUS
    <3> HIDE DEF m, v
    <3>5. m \in 1..n /\ s \ {m} \in SUBSET (1..k)
      BY <3>1
    <3>6. v \in Seq(R) /\ Spread(v, topN) /\ \A j \in s \ {m} : Left(v, j)
      BY <3>4, <3>5, <2>1
    <3>7. ordered[m] \in R
      BY <3>5, <1>1
    <3>8. it[s] \in Seq(R) /\ Spread(it[s], topN)
      BY <3>3, <3>6, <3>7, TookSpread
    <3>9. ASSUME NEW j \in s \ {m} PROVE Left(it[s], j)
      <4>1. CASE ~HasRoom(v, ordered[j], topN)
        BY <4>1, <3>3, <3>6, <3>7, NoMoreRoom
      <4>2. CASE ordered[j] \in {v[i] : i \in DOMAIN v}
        <5>1. PICK i \in DOMAIN v : v[i] = ordered[j]
          BY <4>2
        <5>2. i \in DOMAIN it[s] /\ it[s][i] = v[i]
          BY <3>3, <3>6, <3>7, OneMore DEF Took
        <5> QED BY <5>1, <5>2
      <4> QED BY <4>1, <4>2, <3>6
    <3>10. Left(it[s], m)
      <4>1. CASE HasRoom(v, ordered[m], topN)
        <5>1. /\ Len(v) + 1 \in DOMAIN it[s]
              /\ it[s][Len(v) + 1] = ordered[m]
          BY <4>1, <3>3, <3>6, <3>7, OneMore DEF Took
        <5> QED BY <5>1
      <4>2. CASE ~HasRoom(v, ordered[m], topN)
        <5>1. it[s] = v
          BY <4>2, <3>3 DEF Took
        <5> QED BY <4>2, <5>1
      <4> QED BY <4>1, <4>2
    <3> HIDE DEF Left
    <3>11. \A j \in s : Left(it[s], j)
      BY <3>9, <3>10
    <3> QED BY <3>8, <3>11
  <2> QED BY <2>2, <2>3
<1>10. n \in N
  <2> HIDE DEF N
  <2> QED BY <1>8, <1>9, NatSetInduction
<1>11. it[1..n] \in Seq(R) /\ Done(it[1..n], 1..n)
  BY <1>10
<1> QED BY <1>6, <1>11 DEF R, ordered

=============================================================================
