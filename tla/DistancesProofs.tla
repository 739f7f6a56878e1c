-------------------------- MODULE DistancesProofs --------------------------
(***************************************************************************)
(* What a proof about a search needs to know of the distances and of the   *)
(* routes its answers are measured by: a potential bounds the distances    *)
(* from below, a tree of labels from above, and a route grows at both its  *)
(* ends.  Both are recursive, and what follows by induction is shown for   *)
(* the least number that it would fail for.                                *)
(***************************************************************************)
EXTENDS Routes, Distances, FiniteSetTheorems, WellFoundedInduction, TLAPS

LEMMA LeastNumber ==
  ASSUME NEW T \in SUBSET Nat, T # {}
  PROVE  \E n \in T : \A m \in T : n <= m
<1> DEFINE R == OpToRel(<, Nat)
<1>1. IsWellFoundedOn(R, Nat)
  BY NatLessThanWellFounded
<1> HIDE DEF R
<1>2. PICK x \in T : \A y \in T : ~(<<y, x>> \in R)
  BY <1>1, WFMin
<1>3. \A y \in T : ~(y < x)
  BY <1>2 DEF R, OpToRel
<1> QED
  BY <1>3

\* Induction, for a set in place of a predicate.
LEMMA Counting ==
  ASSUME NEW S \in SUBSET Nat, 0 \in S, \A n \in S : n + 1 \in S
  PROVE  \A n \in Nat : n \in S
<1> SUFFICES ASSUME Nat \ S # {} PROVE FALSE
  OBVIOUS
<1>1. PICK n \in Nat \ S : \A m \in Nat \ S : n <= m
  BY LeastNumber
<1>2. n # 0
  OBVIOUS
<1>3. n - 1 \in S
  BY <1>1, <1>2
<1> QED
  BY <1>1, <1>3

-----------------------------------------------------------------------------
(* The rounds that distances are the outcome of. *)

\* There is a function with the recursive definition of the rounds, so that
\* Labellings is one.
LEMMA LabellingsDef ==
  ASSUME NEW a, NEW arcs, NEW many \in Nat
  PROVE  /\ Labellings(a, arcs, many)[0] = {[node |-> a, dist |-> 0]}
         /\ \A i \in 1..many :
              Labellings(a, arcs, many)[i] = Nearest(OneMore(Labellings(a, arcs, many)[i - 1], arcs))
<1> DEFINE First == {[node |-> a, dist |-> 0]}
           Fits(g, n) == g = [i \in 0..n |-> IF i = 0 THEN First ELSE Nearest(OneMore(g[i - 1], arcs))]
           S == {n \in Nat : \E g : Fits(g, n)}
<1> HIDE DEF First
<1>1. 0 \in S
  <2> DEFINE g == [i \in 0..0 |-> First]
  <2>1. Fits(g, 0)
    OBVIOUS
  <2> HIDE DEF g
  <2> QED
    BY <2>1
<1>2. \A n \in S : n + 1 \in S
  <2> TAKE n \in S
  <2>1. PICK g : Fits(g, n)
    OBVIOUS
  <2> DEFINE h == [i \in 0..(n + 1) |-> IF i = 0 THEN First ELSE Nearest(OneMore(g[i - 1], arcs))]
  <2>2. \A i \in 0..n : h[i] = g[i]
    BY <2>1
  <2>3. \A i \in 0..(n + 1) : i # 0 => h[i - 1] = g[i - 1]
    <3> HIDE DEF h
    <3>1. n \in Nat
      OBVIOUS
    <3>2. \A i \in 0..(n + 1) : i # 0 => i - 1 \in 0..n
      BY <3>1
    <3> QED
      BY <2>2, <3>2
  <2>4. Fits(h, n + 1)
    BY <2>3
  <2> HIDE DEF h
  <2> QED
    BY <2>4
<1>3. many \in S
  <2> HIDE DEF S
  <2>1. S \in SUBSET Nat
    BY DEF S
  <2> QED
    BY <1>1, <1>2, <2>1, Counting
<1>4. PICK g : Fits(g, many)
  BY <1>3
<1>5. Labellings(a, arcs, many) = CHOOSE f : Fits(f, many)
  BY DEF Labellings, First
<1>6. Fits(Labellings(a, arcs, many), many)
  BY <1>4, <1>5
<1> HIDE DEF S
<1>7. Labellings(a, arcs, many)[0] = First
  BY <1>6
<1>8. \A i \in 1..many :
        Labellings(a, arcs, many)[i] = Nearest(OneMore(Labellings(a, arcs, many)[i - 1], arcs))
  BY <1>6
<1> QED
  BY <1>7, <1>8 DEF First

ArcsOn(N) == [from : N, to : N, weight : Nat]

\* p falls along no arc by more than the arc weighs.
Bounds(p, arcs) == \A r \in arcs : p[r.to] <= p[r.from] + r.weight

LEMMA OneMoreIs ==
  ASSUME NEW labels, NEW arcs, NEW m
  PROVE  m \in OneMore(labels, arcs) <=>
           \/ m \in labels
           \/ \E l \in labels, r \in arcs :
                r.from = l.node /\ m = [node |-> r.to, dist |-> l.dist + r.weight]
<1>1. ASSUME m \in OneMore(labels, arcs), m \notin labels
      PROVE  \E l \in labels, r \in arcs :
               r.from = l.node /\ m = [node |-> r.to, dist |-> l.dist + r.weight]
  <2>1. PICK step \in labels \X arcs :
          step[2].from = step[1].node /\ m = [node |-> step[2].to, dist |-> step[1].dist + step[2].weight]
    BY <1>1 DEF OneMore
  <2>2. step[1] \in labels /\ step[2] \in arcs
    OBVIOUS
  <2> QED
    BY <2>1, <2>2
<1>2. ASSUME NEW l \in labels, NEW r \in arcs,
             r.from = l.node, m = [node |-> r.to, dist |-> l.dist + r.weight]
      PROVE  m \in OneMore(labels, arcs)
  <2> DEFINE step == <<l, r>>
  <2>1. step \in labels \X arcs /\ step[1] = l /\ step[2] = r
    OBVIOUS
  <2> QED
    BY <1>2, <2>1 DEF OneMore
<1>3. m \in labels => m \in OneMore(labels, arcs)
  BY DEF OneMore
<1> QED
  BY <1>1, <1>2, <1>3

\* A potential that is not positive where the paths begin is a lower bound.
LEMMA LabelsAreBounded ==
  ASSUME NEW N, NEW a \in N, NEW arcs \in SUBSET ArcsOn(N), NEW many \in Nat,
         NEW p \in [N -> Int], p[a] <= 0, Bounds(p, arcs)
  PROVE  \A i \in 0..many : \A l \in Labellings(a, arcs, many)[i] :
           l.node \in N /\ l.dist \in Nat /\ p[l.node] <= l.dist
<1> DEFINE L == Labellings(a, arcs, many)
           Good(l) == l.node \in N /\ l.dist \in Nat /\ p[l.node] <= l.dist
           S == {i \in Nat : i \in 0..many => \A l \in L[i] : Good(l)}
<1>1. 0 \in S
  <2>1. L[0] = {[node |-> a, dist |-> 0]}
    BY LabellingsDef
  <2> HIDE DEF L
  <2> QED
    BY <2>1
<1>2. \A i \in S : i + 1 \in S
  <2> SUFFICES ASSUME NEW i \in Nat, i + 1 \in 0..many, \A l \in L[i] : Good(l),
                      NEW m \in L[i + 1]
               PROVE  Good(m)
    OBVIOUS
  <2>1. L[i + 1] = Nearest(OneMore(L[i], arcs))
    <3>1. i + 1 \in 1..many /\ (i + 1) - 1 = i
      OBVIOUS
    <3> QED
      BY <3>1, LabellingsDef
  <2> HIDE DEF L
  <2>2. m \in OneMore(L[i], arcs)
    BY <2>1 DEF Nearest
  <2>3. CASE m \in L[i]
    BY <2>3
  <2>4. ASSUME NEW l \in L[i], NEW r \in arcs,
               r.from = l.node, m = [node |-> r.to, dist |-> l.dist + r.weight]
        PROVE  Good(m)
    <3>1. r.from \in N /\ r.to \in N /\ r.weight \in Nat
      BY DEF ArcsOn
    <3>2. p[r.to] <= p[r.from] + r.weight
      BY DEF Bounds
    <3>3. l.dist \in Nat /\ p[l.node] <= l.dist
      OBVIOUS
    <3>4. m.node = r.to /\ m.dist = l.dist + r.weight
      BY <2>4
    <3>5. p[r.to] \in Int /\ p[r.from] \in Int
      BY <3>1
    <3> QED
      BY <2>4, <3>1, <3>2, <3>3, <3>4, <3>5
  <2> QED
    BY <2>2, <2>3, <2>4, OneMoreIs
<1>3. S \in SUBSET Nat
  OBVIOUS
<1> HIDE DEF S
<1>4. \A i \in Nat : i \in S
  BY <1>1, <1>2, <1>3, Counting
<1> QED
  BY <1>4 DEF S

LEMMA LabelsAreTyped ==
  ASSUME NEW N, NEW a \in N, NEW arcs \in SUBSET ArcsOn(N), NEW many \in Nat, NEW i \in 0..many
  PROVE  \A l \in Labellings(a, arcs, many)[i] : l.node \in N /\ l.dist \in Nat
<1> DEFINE p == [n \in N |-> 0]
<1>1. p \in [N -> Int] /\ p[a] <= 0
  OBVIOUS
<1>2. Bounds(p, arcs)
  BY DEF Bounds, ArcsOn
<1> HIDE DEF p
<1> QED
  BY <1>1, <1>2, LabelsAreBounded

LEMMA NearestIs ==
  ASSUME NEW labels, \A l \in labels : l.dist \in Nat, NEW c \in labels
  PROVE  \E m \in Nearest(labels) : m.node = c.node /\ m.dist <= c.dist
<1> DEFINE T == {l.dist : l \in {o \in labels : o.node = c.node}}
<1>1. c.dist \in T /\ T \in SUBSET Nat
  OBVIOUS
<1>2. PICK d \in T : \A e \in T : d <= e
  <2> HIDE DEF T
  <2> QED
    BY <1>1, LeastNumber
<1>3. PICK m \in labels : m.node = c.node /\ m.dist = d
  OBVIOUS
<1>4. \A o \in labels : o.node = c.node => o.dist \in T
  OBVIOUS
<1> HIDE DEF T
<1>5. m \in Nearest(labels)
  BY <1>2, <1>3, <1>4 DEF Nearest
<1> QED
  BY <1>1, <1>2, <1>3, <1>5

\* From one round to the next a label is kept or replaced by a shorter one, and
\* goes on along the arcs.
LEMMA LabelsGrow ==
  ASSUME NEW N, NEW a \in N, NEW arcs \in SUBSET ArcsOn(N), NEW many \in Nat,
         NEW i \in Nat, i + 1 \in 0..many, NEW l \in Labellings(a, arcs, many)[i]
  PROVE  /\ \E m \in Labellings(a, arcs, many)[i + 1] : m.node = l.node /\ m.dist <= l.dist
         /\ \A r \in arcs : r.from = l.node =>
              \E m \in Labellings(a, arcs, many)[i + 1] : m.node = r.to /\ m.dist <= l.dist + r.weight
<1> DEFINE L == Labellings(a, arcs, many)
<1>1. L[i + 1] = Nearest(OneMore(L[i], arcs))
  <2>1. i + 1 \in 1..many /\ (i + 1) - 1 = i
    OBVIOUS
  <2> QED
    BY <2>1, LabellingsDef
<1>2. \A m \in L[i] : m.dist \in Nat
  BY LabelsAreTyped
<1> HIDE DEF L
<1>3. \A m \in OneMore(L[i], arcs) : m.dist \in Nat
  <2> TAKE m \in OneMore(L[i], arcs)
  <2>1. ASSUME NEW k \in L[i], NEW r \in arcs, m = [node |-> r.to, dist |-> k.dist + r.weight]
        PROVE  m.dist \in Nat
    <3>1. r.weight \in Nat /\ k.dist \in Nat
      BY <1>2 DEF ArcsOn
    <3> QED
      BY <2>1, <3>1
  <2> QED
    BY <1>2, <2>1, OneMoreIs
<1>4. \E m \in L[i + 1] : m.node = l.node /\ m.dist <= l.dist
  <2>1. l \in OneMore(L[i], arcs)
    BY OneMoreIs DEF L
  <2> QED
    BY <1>1, <1>3, <2>1, NearestIs
<1>5. ASSUME NEW r \in arcs, r.from = l.node
      PROVE  \E m \in L[i + 1] : m.node = r.to /\ m.dist <= l.dist + r.weight
  <2> DEFINE c == [node |-> r.to, dist |-> l.dist + r.weight]
  <2>1. c \in OneMore(L[i], arcs)
    BY <1>5, OneMoreIs DEF L
  <2>2. c.node = r.to /\ c.dist = l.dist + r.weight
    OBVIOUS
  <2> HIDE DEF c
  <2>3. PICK m \in Nearest(OneMore(L[i], arcs)) : m.node = c.node /\ m.dist <= c.dist
    BY <1>3, <2>1, NearestIs
  <2> QED
    BY <1>1, <2>2, <2>3
<1> QED
  BY <1>4, <1>5 DEF L

\* Labels that are no shorter than what the label of a node nearer to the root
\* makes them are upper bounds.
LEMMA TreeIsFollowed ==
  ASSUME NEW N, NEW a \in N, NEW arcs \in SUBSET ArcsOn(N), NEW many \in Nat,
         NEW T \in SUBSET N, NEW far \in [T -> Nat], NEW depth \in [T -> 0..many],
         \A n \in T : \/ n = a
                      \/ \E r \in arcs : /\ r.to = n /\ r.from \in T
                                         /\ depth[r.from] < depth[n]
                                         /\ far[r.from] + r.weight <= far[n]
  PROVE  \A n \in T : \E l \in Labellings(a, arcs, many)[many] : l.node = n /\ l.dist <= far[n]
<1> DEFINE L == Labellings(a, arcs, many)
           Within(n, i) == \E l \in L[i] : l.node = n /\ l.dist <= far[n]
           S == {i \in Nat : i \in 0..many => \A n \in T : depth[n] <= i => Within(n, i)}
<1>0. \A i \in 0..many : \A l \in L[i] : l.node \in N /\ l.dist \in Nat
  BY LabelsAreTyped
<1>1. L[0] = {[node |-> a, dist |-> 0]}
  BY LabellingsDef
<1>2. \A i \in Nat : i + 1 \in 0..many => \A l \in L[i] :
        /\ \E m \in L[i + 1] : m.node = l.node /\ m.dist <= l.dist
        /\ \A r \in arcs : r.from = l.node =>
             \E m \in L[i + 1] : m.node = r.to /\ m.dist <= l.dist + r.weight
  BY LabelsGrow
<1> HIDE DEF L
<1>3. 0 \in S
  <2> SUFFICES ASSUME NEW n \in T, depth[n] <= 0 PROVE Within(n, 0)
    OBVIOUS
  <2>1. \A m \in T : depth[m] \in Nat /\ far[m] \in Nat
    OBVIOUS
  <2>2. n = a
    BY <2>1
  <2> QED
    BY <1>1, <2>1, <2>2
<1>4. \A i \in S : i + 1 \in S
  <2> SUFFICES ASSUME NEW i \in Nat, i + 1 \in 0..many,
                      \A n \in T : depth[n] <= i => Within(n, i),
                      NEW n \in T, depth[n] <= i + 1
               PROVE  Within(n, i + 1)
    OBVIOUS
  <2>1. \A m \in T : depth[m] \in Nat /\ far[m] \in Nat
    OBVIOUS
  <2>2. i \in 0..many /\ i + 1 \in 0..many
    OBVIOUS
  <2>3. CASE depth[n] <= i
    <3>1. PICK l \in L[i] : l.node = n /\ l.dist <= far[n]
      BY <2>3
    <3>2. PICK m \in L[i + 1] : m.node = l.node /\ m.dist <= l.dist
      BY <1>2
    <3>3. l.dist \in Nat /\ m.dist \in Nat
      BY <1>0, <2>2
    <3>4. m.dist <= far[n]
      BY <2>1, <3>1, <3>2, <3>3
    <3> QED
      BY <3>1, <3>2, <3>4
  <2>4. CASE depth[n] = i + 1
    <3>1. CASE n = a
      <4>1. \A j \in 0..many : \E l \in L[j] : l.node = a /\ l.dist <= 0
        <5> DEFINE Q == {j \in Nat : j \in 0..many => \E l \in L[j] : l.node = a /\ l.dist <= 0}
        <5>1. 0 \in Q
          <6>1. \E l \in L[0] : l.node = a /\ l.dist = 0
            BY <1>1
          <6> QED
            BY <6>1
        <5>2. \A j \in Q : j + 1 \in Q
          <6> SUFFICES ASSUME NEW j \in Nat, j + 1 \in 0..many,
                              \E l \in L[j] : l.node = a /\ l.dist <= 0
                       PROVE  \E l \in L[j + 1] : l.node = a /\ l.dist <= 0
            OBVIOUS
          <6>1. PICK l \in L[j] : l.node = a /\ l.dist <= 0
            OBVIOUS
          <6>2. PICK m \in L[j + 1] : m.node = l.node /\ m.dist <= l.dist
            BY <1>2
          <6>3. l.dist \in Nat /\ m.dist \in Nat
            BY <1>0
          <6> QED
            BY <6>1, <6>2, <6>3
        <5>3. Q \in SUBSET Nat
          OBVIOUS
        <5> HIDE DEF Q
        <5>4. \A j \in Nat : j \in Q
          BY <5>1, <5>2, <5>3, Counting
        <5> QED
          BY <5>4 DEF Q
      <4>2. PICK l \in L[i + 1] : l.node = a /\ l.dist <= 0
        BY <4>1, <2>2
      <4>3. l.dist \in Nat /\ far[n] \in Nat
        BY <1>0, <2>1, <2>2
      <4> QED
        BY <3>1, <4>2, <4>3
    <3>2. ASSUME NEW r \in arcs, r.to = n, r.from \in T, depth[r.from] < depth[n],
                 far[r.from] + r.weight <= far[n]
          PROVE  Within(n, i + 1)
      <4>1. depth[r.from] <= i
        BY <2>1, <2>4, <3>2
      <4>2. PICK l \in L[i] : l.node = r.from /\ l.dist <= far[r.from]
        BY <3>2, <4>1
      <4>3. PICK m \in L[i + 1] : m.node = r.to /\ m.dist <= l.dist + r.weight
        BY <1>2, <4>2
      <4>4. l.dist \in Nat /\ m.dist \in Nat /\ r.weight \in Nat
        BY <1>0, <2>2 DEF ArcsOn
      <4>5. far[n] \in Nat /\ far[r.from] \in Nat
        BY <2>1, <3>2
      <4>6. m.dist <= far[n]
        BY <3>2, <4>2, <4>3, <4>4, <4>5
      <4> QED
        BY <3>2, <4>3, <4>6
    <3> QED
      BY <3>1, <3>2
  <2> QED
    BY <2>1, <2>3, <2>4
<1>5. S \in SUBSET Nat
  OBVIOUS
<1>6. many \in S
  <2> HIDE DEF S
  <2> QED
    BY <1>3, <1>4, <1>5, Counting
<1>7. \A n \in T : Within(n, many)
  BY <1>6
<1> QED
  BY <1>7 DEF L

\* What a potential bounds from below and a label from above is the distance.
LEMMA DistanceIs ==
  ASSUME NEW N, IsFiniteSet(N), NEW a \in N, NEW arcs \in SUBSET ArcsOn(N), NEW Infinite \in Nat,
         NEW p \in [N -> Int], p[a] <= 0, Bounds(p, arcs),
         NEW n \in N, NEW d \in Nat, d <= p[n], d <= Infinite,
         \/ d = Infinite
         \/ \E l \in Labellings(a, arcs, Cardinality(N))[Cardinality(N)] : l.node = n /\ l.dist <= d
  PROVE  DistancesFrom(a, N, arcs, Infinite)[n] = d
<1> DEFINE last == Labellings(a, arcs, Cardinality(N))[Cardinality(N)]
           Q == {Infinite} \cup {l.dist : l \in {o \in last : o.node = n}}
<1>1. \A l \in last : l.node \in N /\ l.dist \in Nat /\ p[l.node] <= l.dist
  <2>1. Cardinality(N) \in Nat
    BY FS_CardinalityType
  <2>2. Cardinality(N) \in 0..Cardinality(N)
    BY <2>1
  <2> QED
    BY <2>1, <2>2, LabelsAreBounded
<1>2. DistancesFrom(a, N, arcs, Infinite)[n] = Least(Q)
  BY DEF DistancesFrom
<1>3. d = Infinite \/ \E l \in last : l.node = n /\ l.dist <= d
  OBVIOUS
<1> HIDE DEF last
<1>4. \A o \in Q : o \in Nat /\ d <= o
  BY <1>1
<1>5. d \in Q
  BY <1>1, <1>3
<1>6. \A l \in Q : (\A o \in Q : l <= o) => l = d
  BY <1>4, <1>5
<1> HIDE DEF Q
<1>7. Least(Q) = d
  BY <1>4, <1>5, <1>6 DEF Least
<1> QED
  BY <1>2, <1>7

\* A label is no longer there than d after i rounds.
Within(a, arcs, many, i, n, d) ==
  \E l \in Labellings(a, arcs, many)[i] : l.node = n /\ l.dist <= d

\* The number of the rounds does not matter to the first of them.
LEMMA LabellingsAgree ==
  ASSUME NEW a, NEW arcs, NEW many \in Nat, NEW more \in Nat, many <= more
  PROVE  \A i \in 0..many : Labellings(a, arcs, many)[i] = Labellings(a, arcs, more)[i]
<1> DEFINE L == Labellings(a, arcs, many)
           M == Labellings(a, arcs, more)
           S == {i \in Nat : i \in 0..many => L[i] = M[i]}
<1>1. 0 \in S
  BY LabellingsDef
<1>2. \A i \in S : i + 1 \in S
  <2> SUFFICES ASSUME NEW i \in Nat, i + 1 \in 0..many, L[i] = M[i]
               PROVE  L[i + 1] = M[i + 1]
    OBVIOUS
  <2>1. i + 1 \in 1..many /\ i + 1 \in 1..more /\ (i + 1) - 1 = i
    OBVIOUS
  <2>2. L[i + 1] = Nearest(OneMore(L[i], arcs)) /\ M[i + 1] = Nearest(OneMore(M[i], arcs))
    BY <2>1, LabellingsDef
  <2> QED
    BY <2>2
<1>3. S \in SUBSET Nat
  OBVIOUS
<1> HIDE DEF S
<1>4. \A i \in Nat : i \in S
  BY <1>1, <1>2, <1>3, Counting
<1> QED
  BY <1>4 DEF S

\* An arc brings n within d of where the round i has led.
Brought(a, arcs, many, i, n, d) ==
  \E l \in Labellings(a, arcs, many)[i], r \in arcs :
    r.from = l.node /\ r.to = n /\ l.dist + r.weight <= d

\* What a round shortens, it shortens along an arc.
LEMMA RoundIs ==
  ASSUME NEW N, NEW a \in N, NEW arcs \in SUBSET ArcsOn(N), NEW many \in Nat
  PROVE  \A i \in Nat : i + 1 \in 0..many => \A n \in N, d \in Nat :
           Within(a, arcs, many, i + 1, n, d) <=>
             Within(a, arcs, many, i, n, d) \/ Brought(a, arcs, many, i, n, d)
<1> TAKE i \in Nat
<1> HAVE i + 1 \in 0..many
<1> TAKE n \in N, d \in Nat
<1> DEFINE L == Labellings(a, arcs, many)
<1>1. L[i + 1] = Nearest(OneMore(L[i], arcs))
  <2>1. i + 1 \in 1..many /\ (i + 1) - 1 = i
    OBVIOUS
  <2> QED
    BY <2>1, LabellingsDef
<1>2. \A l \in L[i] : l.node \in N /\ l.dist \in Nat
  BY LabelsAreTyped
<1>3. \A l \in L[i + 1] : l.node \in N /\ l.dist \in Nat
  BY LabelsAreTyped
<1>4. \A r \in arcs : r.weight \in Nat
  BY DEF ArcsOn
<1>5. \A l \in L[i] :
        /\ \E m \in L[i + 1] : m.node = l.node /\ m.dist <= l.dist
        /\ \A r \in arcs : r.from = l.node =>
             \E m \in L[i + 1] : m.node = r.to /\ m.dist <= l.dist + r.weight
  BY LabelsGrow
<1> HIDE DEF L
<1>6. ASSUME NEW m \in L[i + 1], m.node = n, m.dist <= d
      PROVE  \/ \E l \in L[i] : l.node = n /\ l.dist <= d
             \/ \E l \in L[i], r \in arcs : r.from = l.node /\ r.to = n /\ l.dist + r.weight <= d
  <2>1. m \in OneMore(L[i], arcs)
    BY <1>1 DEF Nearest
  <2>2. CASE m \in L[i]
    BY <1>6, <2>2
  <2>3. ASSUME NEW l \in L[i], NEW r \in arcs,
               r.from = l.node, m = [node |-> r.to, dist |-> l.dist + r.weight]
        PROVE  r.from = l.node /\ r.to = n /\ l.dist + r.weight <= d
    BY <1>6, <2>3
  <2> QED
    BY <2>1, <2>2, <2>3, OneMoreIs
<1>7. ASSUME NEW l \in L[i], l.node = n, l.dist <= d
      PROVE  \E m \in L[i + 1] : m.node = n /\ m.dist <= d
  <2>1. PICK m \in L[i + 1] : m.node = l.node /\ m.dist <= l.dist
    BY <1>5
  <2> QED
    BY <1>2, <1>3, <1>7, <2>1
<1>8. ASSUME NEW l \in L[i], NEW r \in arcs, r.from = l.node, r.to = n, l.dist + r.weight <= d
      PROVE  \E m \in L[i + 1] : m.node = n /\ m.dist <= d
  <2>1. PICK m \in L[i + 1] : m.node = r.to /\ m.dist <= l.dist + r.weight
    BY <1>5, <1>8
  <2>2. m.dist \in Nat /\ l.dist \in Nat /\ r.weight \in Nat
    BY <1>2, <1>3, <1>4
  <2> QED
    BY <1>8, <2>1, <2>2
<1> QED
  BY <1>6, <1>7, <1>8 DEF Within, Brought, L

\* A node that the i-th round brings nearer than d is not the only one: with
\* each of the rounds before it there was one more within d.
LEMMA RoundsFindNodes ==
  ASSUME NEW N, IsFiniteSet(N), NEW a \in N, NEW arcs \in SUBSET ArcsOn(N), NEW many \in Nat
  PROVE  \A i \in 0..many : \A n \in N, d \in Nat :
           Within(a, arcs, many, i, n, d) /\ (i # 0 => ~Within(a, arcs, many, i - 1, n, d))
             => Cardinality({m \in N : Within(a, arcs, many, i, m, d)}) >= i + 1
<1> DEFINE W(i, n, d) == Within(a, arcs, many, i, n, d)
           T(i, d) == {m \in N : W(i, m, d)}
           Found(i) == \A n \in N, d \in Nat :
             W(i, n, d) /\ (i # 0 => ~W(i - 1, n, d)) => Cardinality(T(i, d)) >= i + 1
           S == {i \in Nat : i \in 0..many => Found(i)}
<1>0. \A i, d : IsFiniteSet(T(i, d)) /\ Cardinality(T(i, d)) \in Nat
  BY FS_Subset, FS_CardinalityType
<1>1. \A i \in Nat : i + 1 \in 0..many => \A n \in N, d \in Nat :
        W(i + 1, n, d) <=> W(i, n, d) \/ Brought(a, arcs, many, i, n, d)
  BY RoundIs
<1>2. \A i \in 0..many : \A l \in Labellings(a, arcs, many)[i] :
        l.node \in N /\ l.dist \in Nat /\ W(i, l.node, l.dist)
  <2> TAKE i \in 0..many
  <2> TAKE l \in Labellings(a, arcs, many)[i]
  <2>1. l.node \in N /\ l.dist \in Nat
    BY LabelsAreTyped
  <2> QED
    BY <2>1 DEF Within
<1>3. \A i \in 0..many, n \in N, c \in Nat, d \in Nat : c <= d /\ W(i, n, c) => W(i, n, d)
  <2> TAKE i \in 0..many, n \in N, c \in Nat, d \in Nat
  <2> SUFFICES ASSUME c <= d, W(i, n, c) PROVE W(i, n, d)
    OBVIOUS
  <2>1. PICK l \in Labellings(a, arcs, many)[i] : l.node = n /\ l.dist <= c
    BY DEF Within
  <2>2. l.dist \in Nat
    BY <1>2
  <2>3. l.dist <= d
    BY <2>1, <2>2
  <2> QED
    BY <2>1, <2>3 DEF Within
<1>4. \A r \in arcs : r.from \in N /\ r.to \in N /\ r.weight \in Nat
  BY DEF ArcsOn
<1>5. 0 \in S
  <2> SUFFICES ASSUME NEW n \in N, NEW d \in Nat, W(0, n, d) PROVE Cardinality(T(0, d)) >= 1
    OBVIOUS
  <2>1. n \in T(0, d)
    OBVIOUS
  <2>2. Cardinality(T(0, d)) # 0
    BY <1>0, <2>1, FS_EmptySet
  <2> HIDE DEF T
  <2> QED
    BY <1>0, <2>2
<1> HIDE DEF W
<1>6. \A i \in S : i + 1 \in S
  <2> SUFFICES ASSUME NEW i \in Nat, i + 1 \in 0..many, Found(i),
                      NEW n \in N, NEW d \in Nat, W(i + 1, n, d), ~W(i, n, d)
               PROVE  Cardinality(T(i + 1, d)) >= i + 2
    OBVIOUS
  <2>1. i \in 0..many
    OBVIOUS
  <2>2. PICK l \in Labellings(a, arcs, many)[i], r \in arcs :
          r.from = l.node /\ r.to = n /\ l.dist + r.weight <= d
    BY <1>1 DEF Brought
  <2>3. l.node \in N /\ l.dist \in Nat /\ W(i, l.node, l.dist) /\ r.weight \in Nat
    BY <1>2, <1>4, <2>1
  <2>4. l.dist <= d
    BY <2>2, <2>3
  <2>5. i # 0 => ~W(i - 1, l.node, l.dist)
    <3> SUFFICES ASSUME i # 0, W(i - 1, l.node, l.dist) PROVE FALSE
      OBVIOUS
    <3>1. i - 1 \in Nat /\ (i - 1) + 1 = i /\ i - 1 \in 0..many
      OBVIOUS
    <3>2. PICK k \in Labellings(a, arcs, many)[i - 1] : k.node = l.node /\ k.dist <= l.dist
      BY DEF W, Within
    <3>3. k.dist \in Nat
      BY <1>2, <3>1
    <3>4. k.dist + r.weight <= d
      BY <2>2, <2>3, <3>2, <3>3
    <3>5. r.from = k.node
      BY <2>2, <3>2
    <3>6. Brought(a, arcs, many, i - 1, n, d)
      BY <2>2, <3>4, <3>5 DEF Brought
    <3>7. W((i - 1) + 1, n, d)
      BY <1>1, <2>1, <3>1, <3>6
    <3> QED
      BY <3>1, <3>7
  <2>6. Cardinality(T(i, l.dist)) >= i + 1
    BY <2>3, <2>5
  <2>7. T(i, l.dist) \cup {n} \subseteq T(i + 1, d) /\ n \notin T(i, l.dist)
    <3>1. \A m \in N : W(i, m, l.dist) => W(i, m, d)
      BY <1>3, <2>1, <2>3, <2>4
    <3>2. \A m \in N : W(i, m, d) => W(i + 1, m, d)
      BY <1>1
    <3> QED
      BY <3>1, <3>2
  <2> HIDE DEF T
  <2>8. Cardinality(T(i, l.dist) \cup {n}) = Cardinality(T(i, l.dist)) + 1
    BY <1>0, <2>7, FS_AddElement
  <2>9. Cardinality(T(i, l.dist) \cup {n}) <= Cardinality(T(i + 1, d))
    BY <1>0, <2>7, FS_Subset
  <2> QED
    BY <1>0, <2>6, <2>8, <2>9
<1>7. S \in SUBSET Nat
  OBVIOUS
<1> HIDE DEF S
<1>8. \A i \in Nat : i \in S
  BY <1>5, <1>6, <1>7, Counting
<1> QED
  BY <1>8 DEF S, W

\* As many rounds as there are nodes find all there is to find: the distances
\* are a potential themselves.
LEMMA DistancesArePotential ==
  ASSUME NEW N, IsFiniteSet(N), NEW a \in N, NEW arcs \in SUBSET ArcsOn(N), NEW Infinite \in Nat,
         NEW D, D = DistancesFrom(a, N, arcs, Infinite)
  PROVE  D \in [N -> 0..Infinite] /\ D[a] = 0 /\ Bounds(D, arcs)
<1> DEFINE c == Cardinality(N)
           last == Labellings(a, arcs, c)[c]
           Q(n) == {Infinite} \cup {l.dist : l \in {o \in last : o.node = n}}
<1>0. c \in Nat /\ c \in 0..c /\ c + 1 \in 0..(c + 1)
  BY FS_CardinalityType
<1>1. \A n \in N : D[n] = Least(Q(n))
  BY DEF DistancesFrom
<1>2. D = [n \in N |-> D[n]]
  BY DEF DistancesFrom
<1>3. \A l \in last : l.node \in N /\ l.dist \in Nat
  BY <1>0, LabelsAreTyped
<1>4. \A n \in N : D[n] \in Q(n) /\ \A o \in Q(n) : D[n] <= o
  <2> TAKE n \in N
  <2>1. Q(n) \in SUBSET Nat /\ Q(n) # {}
    BY <1>3
  <2> HIDE DEF Q
  <2>2. \E l \in Q(n) : \A o \in Q(n) : l <= o
    BY <2>1, LeastNumber
  <2> QED
    BY <1>1, <2>2 DEF Least
<1>5. \A n \in N : Q(n) \subseteq Nat
  BY <1>3
<1>6. D \in [N -> 0..Infinite]
  <2>1. \A n \in N : D[n] \in 0..Infinite
    BY <1>4, <1>5
  <2> QED
    BY <1>2, <2>1
<1>7. \A n \in N, d \in Nat : Within(a, arcs, c, c, n, d) => D[n] <= d
  <2> TAKE n \in N, d \in Nat
  <2> SUFFICES ASSUME Within(a, arcs, c, c, n, d) PROVE D[n] <= d
    OBVIOUS
  <2>1. PICK l \in last : l.node = n /\ l.dist <= d
    BY DEF Within
  <2>2. D[n] <= l.dist /\ l.dist \in Nat
    BY <1>3, <1>4, <2>1
  <2> QED
    BY <1>6, <2>1, <2>2
<1>8. D[a] = 0
  <2> DEFINE S == {i \in Nat : i \in 0..c => Within(a, arcs, c, i, a, 0)}
  <2>1. 0 \in S
    <3>1. Labellings(a, arcs, c)[0] = {[node |-> a, dist |-> 0]}
      BY <1>0, LabellingsDef
    <3>2. [node |-> a, dist |-> 0] \in Labellings(a, arcs, c)[0]
      BY <3>1
    <3>3. Within(a, arcs, c, 0, a, 0)
      BY <3>2 DEF Within
    <3> QED
      BY <3>3
  <2>2. \A i \in S : i + 1 \in S
    <3> SUFFICES ASSUME NEW i \in Nat, i + 1 \in 0..c, i \in S
                 PROVE  Within(a, arcs, c, i + 1, a, 0)
      OBVIOUS
    <3>1. Within(a, arcs, c, i, a, 0)
      BY <1>0
    <3> QED
      BY <1>0, <3>1, RoundIs DEF Brought
  <2>3. S \in SUBSET Nat
    OBVIOUS
  <2> HIDE DEF S
  <2>4. c \in S
    BY <1>0, <2>1, <2>2, <2>3, Counting
  <2>5. Within(a, arcs, c, c, a, 0)
    BY <1>0, <2>4 DEF S
  <2> QED
    BY <1>6, <1>7, <2>5
<1>9. ASSUME NEW r \in arcs PROVE D[r.to] <= D[r.from] + r.weight
  <2>1. r.from \in N /\ r.to \in N /\ r.weight \in Nat
    BY DEF ArcsOn
  <2>2. D[r.to] \in 0..Infinite /\ D[r.from] \in 0..Infinite
    BY <1>6, <2>1
  <2>3. CASE D[r.from] = Infinite
    BY <2>1, <2>2, <2>3
  <2>4. CASE D[r.from] # Infinite
    <3>1. PICK l \in last : l.node = r.from /\ l.dist = D[r.from]
      BY <1>4, <2>1, <2>4
    <3> DEFINE d == D[r.from] + r.weight
               M == Labellings(a, arcs, c + 1)
    <3>2. d \in Nat /\ l.dist + r.weight <= d
      BY <2>1, <2>2, <3>1
    <3>3. last = M[c]
      BY <1>0, LabellingsAgree
    <3>4. Within(a, arcs, c + 1, c + 1, r.to, d)
      <4>1. l \in M[c]
        BY <3>3
      <4>2. \E k \in M[c], q \in arcs : q.from = k.node /\ q.to = r.to /\ k.dist + q.weight <= d
        BY <3>1, <3>2, <4>1
      <4> HIDE DEF d, M, last
      <4> QED
        <5> HIDE DEF c
        <5>1. c \in Nat /\ c + 1 \in Nat /\ c + 1 \in 0..(c + 1) /\ d \in Nat /\ r.to \in N
          BY <1>0, <2>1, <3>2
        <5> QED
          BY <4>2, <5>1, RoundIs DEF M, Brought
    <3>5. Within(a, arcs, c + 1, c, r.to, d)
      <4> SUFFICES ASSUME ~Within(a, arcs, c + 1, c, r.to, d) PROVE FALSE
        OBVIOUS
      <4> DEFINE T == {m \in N : Within(a, arcs, c + 1, c + 1, m, d)}
      <4> HIDE DEF d, last, M
      <4>1. (c + 1) - 1 = c /\ c + 1 \in Nat /\ c + 1 # 0
        BY <1>0
      <4>2. Cardinality(T) >= (c + 1) + 1
        <5> HIDE DEF c, T
        <5>1. c + 1 \in Nat /\ c + 1 \in 0..(c + 1) /\ d \in Nat /\ r.to \in N
          BY <1>0, <2>1, <3>2
        <5>2. Within(a, arcs, c + 1, c + 1, r.to, d)
              /\ ((c + 1) # 0 => ~Within(a, arcs, c + 1, (c + 1) - 1, r.to, d))
          BY <3>4, <4>1
        <5>3. Cardinality({m \in N : Within(a, arcs, c + 1, c + 1, m, d)}) >= (c + 1) + 1
          BY <5>1, <5>2, RoundsFindNodes
        <5> QED
          BY <5>3 DEF T
      <4>3. Cardinality(T) <= c /\ Cardinality(T) \in Nat
        BY FS_Subset, FS_CardinalityType
      <4> HIDE DEF T, c
      <4> QED
        BY <1>0, <4>2, <4>3
    <3>6. Within(a, arcs, c, c, r.to, d)
      BY <3>3, <3>5 DEF Within
    <3> QED
      BY <1>7, <2>1, <3>2, <3>6
  <2> QED
    BY <2>3, <2>4
<1>10. Bounds(D, arcs)
  BY <1>9 DEF Bounds
<1> QED
  BY <1>6, <1>8, <1>10

\* And no other potential is greater.
LEMMA DistancesAreGreatest ==
  ASSUME NEW N, IsFiniteSet(N), NEW a \in N, NEW arcs \in SUBSET ArcsOn(N), NEW Infinite \in Nat,
         NEW p \in [N -> Int], p[a] <= 0, Bounds(p, arcs), NEW n \in N, p[n] <= Infinite
  PROVE  p[n] <= DistancesFrom(a, N, arcs, Infinite)[n]
<1> DEFINE c == Cardinality(N)
           last == Labellings(a, arcs, c)[c]
           Q == {Infinite} \cup {l.dist : l \in {o \in last : o.node = n}}
<1>1. c \in Nat /\ c \in 0..c
  BY FS_CardinalityType
<1>2. \A l \in last : l.node \in N /\ l.dist \in Nat /\ p[l.node] <= l.dist
  BY <1>1, LabelsAreBounded
<1>3. DistancesFrom(a, N, arcs, Infinite)[n] = Least(Q)
  BY DEF DistancesFrom
<1>4. Q \in SUBSET Nat /\ Q # {} /\ \A o \in Q : p[n] <= o
  BY <1>2
<1> HIDE DEF Q
<1>5. \E l \in Q : \A o \in Q : l <= o
  BY <1>4, LeastNumber
<1>6. Least(Q) \in Q
  BY <1>5 DEF Least
<1> QED
  BY <1>3, <1>4, <1>6

-----------------------------------------------------------------------------
(* Routes. *)

\* One more edge of a route.
Onward(x, at) ==
  [node |-> IF NodeA[x] = at.node THEN NodeB[x] ELSE NoNode, far |-> at.far + Weight[x]]

Follows(f, p, from) ==
  /\ f[0] = [node |-> from, far |-> 0]
  /\ \A i \in 1..Len(p) : f[i] = Onward(p[i], f[i - 1])

LEMMA FollowedDef ==
  ASSUME NEW p \in Seq(Edge), NEW from
  PROVE  Follows(Followed(p, from), p, from)
<1> DEFINE First == [node |-> from, far |-> 0]
           many == Len(p)
           Fits(g, n) == g = [i \in 0..n |-> IF i = 0 THEN First ELSE Onward(p[i], g[i - 1])]
           S == {n \in Nat : \E g : Fits(g, n)}
<1> HIDE DEF First
<1>1. 0 \in S
  <2> DEFINE g == [i \in 0..0 |-> First]
  <2>1. Fits(g, 0)
    OBVIOUS
  <2> HIDE DEF g
  <2> QED
    BY <2>1
<1>2. \A n \in S : n + 1 \in S
  <2> TAKE n \in S
  <2>1. PICK g : Fits(g, n)
    OBVIOUS
  <2> DEFINE h == [i \in 0..(n + 1) |-> IF i = 0 THEN First ELSE Onward(p[i], g[i - 1])]
  <2>2. \A i \in 0..n : h[i] = g[i]
    BY <2>1
  <2>3. \A i \in 0..(n + 1) : i # 0 => h[i - 1] = g[i - 1]
    <3> HIDE DEF h
    <3>1. n \in Nat
      OBVIOUS
    <3>2. \A i \in 0..(n + 1) : i # 0 => i - 1 \in 0..n
      BY <3>1
    <3> QED
      BY <2>2, <3>2
  <2>4. Fits(h, n + 1)
    BY <2>3
  <2> HIDE DEF h
  <2> QED
    BY <2>4
<1>3. many \in Nat
  OBVIOUS
<1>4. many \in S
  <2> HIDE DEF S, many
  <2>1. S \in SUBSET Nat
    BY DEF S
  <2> QED
    BY <1>1, <1>2, <1>3, <2>1, Counting
<1>5. PICK g : Fits(g, many)
  BY <1>4
<1>6. Followed(p, from) = CHOOSE f : Fits(f, many)
  BY DEF Followed, First, Onward
<1>7. Fits(Followed(p, from), many)
  BY <1>5, <1>6
<1> HIDE DEF S
<1>8. Followed(p, from)[0] = First
  BY <1>3, <1>7
<1>9. \A i \in 1..many : Followed(p, from)[i] = Onward(p[i], Followed(p, from)[i - 1])
  BY <1>3, <1>7
<1> QED
  BY <1>8, <1>9 DEF First, Follows

\* What goes on as a route does is where the route leads.
LEMMA FollowedIs ==
  ASSUME NEW p \in Seq(Edge), NEW from, NEW f, Follows(f, p, from)
  PROVE  \A i \in 0..Len(p) : Followed(p, from)[i] = f[i]
<1> DEFINE g == Followed(p, from)
           S == {i \in Nat : i \in 0..Len(p) => g[i] = f[i]}
<1>1. Follows(g, p, from)
  BY FollowedDef
<1> HIDE DEF g
<1>2. 0 \in S
  BY <1>1 DEF Follows
<1>3. \A i \in S : i + 1 \in S
  <2> SUFFICES ASSUME NEW i \in Nat, i + 1 \in 0..Len(p), g[i] = f[i]
               PROVE  g[i + 1] = f[i + 1]
    OBVIOUS
  <2>1. i + 1 \in 1..Len(p) /\ (i + 1) - 1 = i
    OBVIOUS
  <2>2. g[i + 1] = Onward(p[i + 1], g[i]) /\ f[i + 1] = Onward(p[i + 1], f[i])
    BY <1>1, <2>1 DEF Follows
  <2> QED
    BY <2>2
<1>4. S \in SUBSET Nat
  OBVIOUS
<1> HIDE DEF S
<1>5. \A i \in Nat : i \in S
  BY <1>2, <1>3, <1>4, Counting
<1> QED
  BY <1>5 DEF S, g

LEMMA FarIsNumber ==
  ASSUME NEW p \in Seq(Edge), NEW from
  PROVE  \A i \in 0..Len(p) :
           Followed(p, from)[i] = [node |-> Followed(p, from)[i].node, far |-> Followed(p, from)[i].far]
           /\ Followed(p, from)[i].far \in Nat
<1> DEFINE g == Followed(p, from)
           Good(at) == at = [node |-> at.node, far |-> at.far] /\ at.far \in Nat
           S == {i \in Nat : i \in 0..Len(p) => Good(g[i])}
<1>1. Follows(g, p, from)
  BY FollowedDef
<1> HIDE DEF g
<1>2. 0 \in S
  BY <1>1 DEF Follows
<1>3. \A i \in S : i + 1 \in S
  <2> SUFFICES ASSUME NEW i \in Nat, i + 1 \in 0..Len(p), Good(g[i])
               PROVE  Good(g[i + 1])
    OBVIOUS
  <2>1. i + 1 \in 1..Len(p) /\ (i + 1) - 1 = i
    OBVIOUS
  <2>2. g[i + 1] = Onward(p[i + 1], g[i])
    BY <1>1, <2>1 DEF Follows
  <2>3. Weight[p[i + 1]] \in Nat
    BY <2>1, GraphAssumption
  <2> QED
    BY <2>2, <2>3 DEF Onward
<1>4. S \in SUBSET Nat
  OBVIOUS
<1> HIDE DEF S
<1>5. \A i \in Nat : i \in S
  BY <1>2, <1>3, <1>4, Counting
<1> QED
  BY <1>5 DEF S, g

\* How far edges lead is what they weigh, wherever they begin and in any order.
LEMMA FarsAdd ==
  ASSUME NEW p \in Seq(Edge), NEW q \in Seq(Edge), NEW a, NEW b
  PROVE  Followed(p \o q, a)[Len(p \o q)].far = Followed(p, a)[Len(p)].far + Followed(q, b)[Len(q)].far
<1> DEFINE F == Followed(p, a)
           G == Followed(q, b)
           H == Followed(p \o q, a)
           m == Len(p)
           n == Len(q)
           r == p \o q
           First(i) == i \in 0..m => H[i].far = F[i].far
           Second(i) == i \in m..(m + n) => H[i].far = F[m].far + G[i - m].far
           S == {i \in Nat : First(i) /\ Second(i)}
<1>1. r \in Seq(Edge) /\ Len(r) = m + n /\ m \in Nat /\ n \in Nat
  OBVIOUS
<1>2. /\ \A i \in 1..m : r[i] = p[i]
      /\ \A i \in (m + 1)..(m + n) : r[i] = q[i - m]
  OBVIOUS
<1>3. /\ F[0].far = 0 /\ \A i \in 1..m : F[i].far = F[i - 1].far + Weight[p[i]]
      /\ G[0].far = 0 /\ \A i \in 1..n : G[i].far = G[i - 1].far + Weight[q[i]]
      /\ H[0].far = 0 /\ \A i \in 1..(m + n) : H[i].far = H[i - 1].far + Weight[r[i]]
  <2>0. \A x, at : Onward(x, at).far = at.far + Weight[x]
    BY DEF Onward
  <2>1. Follows(F, p, a) /\ Follows(G, q, b) /\ Follows(H, r, a)
    BY <1>1, FollowedDef
  <2> HIDE DEF F, G, H, r
  <2>2. F[0].far = 0 /\ \A i \in 1..m : F[i].far = F[i - 1].far + Weight[p[i]]
    BY <2>0, <2>1 DEF Follows
  <2>3. G[0].far = 0 /\ \A i \in 1..n : G[i].far = G[i - 1].far + Weight[q[i]]
    BY <2>0, <2>1 DEF Follows
  <2>4. H[0].far = 0 /\ \A i \in 1..(m + n) : H[i].far = H[i - 1].far + Weight[r[i]]
    BY <1>1, <2>0, <2>1 DEF Follows
  <2> QED
    BY <2>2, <2>3, <2>4
<1>4. /\ \A i \in 0..m : F[i].far \in Nat
      /\ \A i \in 0..n : G[i].far \in Nat
      /\ \A i \in 0..(m + n) : H[i].far \in Nat
  BY <1>1, FarIsNumber
<1>5. \A i \in 1..(m + n) : Weight[r[i]] \in Nat
  BY <1>1, GraphAssumption
<1> HIDE DEF F, G, H, m, n, r
<1>6. 0 \in S
  <2>1. 0 \in m..(m + n) => m = 0
    BY <1>1
  <2> QED
    BY <1>1, <1>3, <1>4, <2>1
<1>7. ASSUME NEW i \in S PROVE i + 1 \in S
  <2>1. i \in Nat /\ First(i) /\ Second(i)
    OBVIOUS
  <2> HIDE DEF S
  <2>2. ASSUME i + 1 \in 0..m PROVE H[i + 1].far = F[i + 1].far
    <3>1. i \in 0..m /\ i + 1 \in 1..m /\ i + 1 \in 1..(m + n) /\ (i + 1) - 1 = i
      BY <1>1, <2>1, <2>2
    <3>2. H[i].far = F[i].far /\ r[i + 1] = p[i + 1]
      BY <1>2, <2>1, <3>1
    <3> QED
      BY <1>3, <3>1, <3>2
  <2>3. ASSUME i + 1 \in m..(m + n) PROVE H[i + 1].far = F[m].far + G[(i + 1) - m].far
    <3>1. CASE i + 1 = m
      <4>1. H[m].far = F[m].far /\ (i + 1) - m = 0
        <5>1. m \in 0..m
          BY <1>1
        <5> QED
          BY <1>1, <2>2, <3>1, <5>1
      <4>2. F[m].far \in Nat
        BY <1>1, <1>4
      <4> QED
        BY <1>3, <3>1, <4>1, <4>2
    <3>2. CASE i + 1 # m
      <4>1. /\ i \in m..(m + n) /\ i + 1 \in (m + 1)..(m + n) /\ i + 1 \in 1..(m + n)
            /\ (i + 1) - m \in 1..n /\ ((i + 1) - m) - 1 = i - m /\ (i + 1) - 1 = i
            /\ i - m \in 0..n
        BY <1>1, <2>1, <2>3, <3>2
      <4>2. H[i].far = F[m].far + G[i - m].far
        BY <2>1, <4>1
      <4>3. H[i + 1].far = H[i].far + Weight[r[i + 1]] /\ r[i + 1] = q[(i + 1) - m]
        BY <1>2, <1>3, <4>1
      <4>4. G[(i + 1) - m].far = G[i - m].far + Weight[q[(i + 1) - m]]
        BY <1>3, <4>1
      <4>5. F[m].far \in Nat /\ G[i - m].far \in Nat /\ Weight[q[(i + 1) - m]] \in Nat
        <5>1. m \in 0..m
          BY <1>1
        <5> QED
          BY <1>4, <1>5, <4>1, <4>3, <5>1
      <4> QED
        BY <4>2, <4>3, <4>4, <4>5
    <3> QED
      BY <3>1, <3>2
  <2>4. First(i + 1) /\ Second(i + 1)
    BY <2>2, <2>3
  <2> QED
    BY <2>1, <2>4 DEF S
<1>8. m + n \in S
  <2>1. S \in SUBSET Nat
    OBVIOUS
  <2> HIDE DEF S
  <2>2. \A i \in Nat : i \in S
    BY <1>6, <1>7, <2>1, Counting
  <2> QED
    BY <1>1, <2>2
<1>9. H[m + n].far = F[m].far + G[n].far
  <2>1. m + n \in m..(m + n) /\ (m + n) - m = n
    BY <1>1
  <2>2. Second(m + n)
    BY <1>8
  <2> QED
    BY <2>1, <2>2
<1> QED
  BY <1>1, <1>9 DEF F, G, H, m, n, r

LEMMA EmptyRoute ==
  ASSUME NEW n
  PROVE  RealRoute(<<>>, n, n, 0)
<1>1. <<>> \in Seq(Edge) /\ Len(<<>>) = 0
  OBVIOUS
<1>2. Follows(Followed(<<>>, n), <<>>, n)
  BY <1>1, FollowedDef
<1> QED
  BY <1>1, <1>2 DEF RealRoute, Follows

LEMMA EdgeIsRoute ==
  ASSUME NEW x \in Edge
  PROVE  RealRoute(<<x>>, NodeA[x], NodeB[x], Weight[x])
<1>1. <<x>> \in Seq(Edge) /\ Len(<<x>>) = 1 /\ <<x>>[1] = x
  OBVIOUS
<1>2. Follows(Followed(<<x>>, NodeA[x]), <<x>>, NodeA[x])
  BY <1>1, FollowedDef
<1>3. Followed(<<x>>, NodeA[x])[1] = Onward(x, [node |-> NodeA[x], far |-> 0])
  BY <1>1, <1>2 DEF Follows
<1>4. Weight[x] \in Nat
  BY GraphAssumption
<1> QED
  BY <1>1, <1>3, <1>4 DEF RealRoute, Onward

\* Two routes that meet are one.
LEMMA RoutesJoin ==
  ASSUME NEW p \in Seq(Edge), NEW q \in Seq(Edge), NEW a, NEW b, NEW c,
         NEW far \in Nat, NEW more \in Nat,
         RealRoute(p, a, b, far), RealRoute(q, b, c, more)
  PROVE  RealRoute(p \o q, a, c, far + more)
<1> DEFINE F == Followed(p, a)
           G == Followed(q, b)
           m == Len(p)
           n == Len(q)
           r == p \o q
           At(i) == IF i <= m THEN F[i] ELSE [node |-> G[i - m].node, far |-> far + G[i - m].far]
           f == [i \in 0..(m + n) |-> At(i)]
<1>1. r \in Seq(Edge) /\ Len(r) = m + n /\ m \in Nat /\ n \in Nat
  OBVIOUS
<1>2. /\ \A i \in 1..m : r[i] = p[i]
      /\ \A i \in (m + 1)..(m + n) : r[i] = q[i - m]
  OBVIOUS
<1>3. Follows(F, p, a) /\ Follows(G, q, b)
  BY FollowedDef
<1>4. F[m] = [node |-> b, far |-> far] /\ G[n] = [node |-> c, far |-> more]
  BY DEF RealRoute
<1>5. \A i \in 0..n : G[i].far \in Nat
  BY FarIsNumber
<1>6. /\ F[0] = [node |-> a, far |-> 0] /\ \A i \in 1..m : F[i] = Onward(p[i], F[i - 1])
      /\ G[0] = [node |-> b, far |-> 0] /\ \A i \in 1..n : G[i] = Onward(q[i], G[i - 1])
  BY <1>3 DEF Follows
<1>7. \A x \in Edge : Weight[x] \in Nat
  BY GraphAssumption
<1>8. \A i \in 1..n : q[i] \in Edge
  OBVIOUS
<1> HIDE DEF F, G, m, n, r
<1>9. Follows(f, r, a)
  <2>1. f[0] = [node |-> a, far |-> 0]
    BY <1>1, <1>6
  <2>2. ASSUME NEW i \in 1..(m + n) PROVE f[i] = Onward(r[i], f[i - 1])
    <3>1. f[i] = At(i) /\ f[i - 1] = At(i - 1)
      BY <1>1
    <3>2. CASE i <= m
      <4>1. i \in 1..m /\ i - 1 <= m
        BY <1>1, <3>2
      <4> QED
        BY <1>2, <1>6, <3>1, <3>2, <4>1
    <3>3. CASE i > m
      <4>1. i \in (m + 1)..(m + n) /\ i - m \in 1..n /\ (i - m) - 1 = i - 1 - m /\ i - m - 1 \in 0..n
        BY <1>1, <3>3
      <4>2. r[i] = q[i - m] /\ G[i - m] = Onward(q[i - m], G[i - m - 1])
        BY <1>2, <1>6, <4>1
      <4>3. Weight[q[i - m]] \in Nat /\ G[i - m - 1].far \in Nat
        BY <1>5, <1>7, <1>8, <4>1
      <4>4. f[i] = [node |-> G[i - m].node, far |-> far + G[i - m].far]
        BY <1>1, <3>1, <3>3
      <4>5. f[i - 1] = [node |-> G[i - m - 1].node, far |-> far + G[i - m - 1].far]
        <5>1. CASE i - 1 = m
          <6>1. i - m - 1 = 0 /\ i - 1 <= m
            BY <1>1, <5>1
          <6>2. f[i - 1] = F[m]
            BY <3>1, <5>1, <6>1
          <6> QED
            BY <1>4, <1>6, <6>1, <6>2
        <5>2. CASE i - 1 > m
          <6>1. ~(i - 1 <= m) /\ (i - 1) - m = i - m - 1
            BY <1>1, <5>2
          <6> QED
            BY <3>1, <6>1
        <5> QED
          BY <1>1, <3>3, <5>1, <5>2
      <4> HIDE DEF f, At
      <4>6. G[i - m].node = Onward(q[i - m], f[i - 1]).node
        BY <4>2, <4>5 DEF Onward
      <4>7. far + G[i - m].far = Onward(q[i - m], f[i - 1]).far
        BY <4>2, <4>3, <4>5 DEF Onward
      <4> QED
        BY <4>2, <4>4, <4>6, <4>7 DEF Onward
    <3> QED
      BY <1>1, <3>2, <3>3
  <2> QED
    BY <1>1, <2>1, <2>2 DEF Follows
<1> HIDE DEF f
<1>10. Followed(r, a)[m + n] = f[m + n]
  <2>1. m + n \in 0..Len(r)
    BY <1>1
  <2> QED
    BY <1>1, <1>9, <2>1, FollowedIs
<1>11. f[m + n] = [node |-> c, far |-> far + more]
  <2>1. f[m + n] = At(m + n)
    BY <1>1 DEF f
  <2>2. CASE n = 0
    <3>1. m + n = m
      BY <1>1, <2>2
    <3>2. b = c /\ more = 0
      BY <1>4, <1>6, <2>2
    <3>3. far + more = far
      BY <3>2
    <3>4. f[m + n] = F[m]
      BY <1>1, <2>1, <3>1
    <3> QED
      BY <1>4, <3>2, <3>3, <3>4
  <2>3. CASE n # 0
    <3>1. ~(m + n <= m) /\ (m + n) - m = n
      BY <1>1, <2>3
    <3> QED
      BY <1>4, <2>1, <3>1
  <2> QED
    BY <2>2, <2>3
<1> QED
  BY <1>1, <1>10, <1>11 DEF RealRoute, r
=============================================================================
