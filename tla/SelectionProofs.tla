-------------------------- MODULE SelectionProofs --------------------------
(* A pack tells what is in force in HEAD, and as much of the conversation as *)
(* fits; the evidence of an exported conversation is the lineage of its      *)
(* current message.                                                          *)
EXTENDS ContextPack, ExportedPath, FiniteSetTheorems, FunctionTheorems, SequenceTheorems,
        NaturalsInduction, WellFoundedInduction, TLAPS

-----------------------------------------------------------------------------
(* Induction and recursion, with sets for predicates and functions for steps *)

LEMMA Least ==
  ASSUME NEW T \in SUBSET Nat, T # {}
  PROVE  \E m \in T : \A k \in T : m <= k
<1> DEFINE R == {ss \in Nat \X Nat : ss[1] < ss[2]}
<1>1. IsWellFoundedOn(R, Nat)
  BY NatLessThanWellFounded DEF OpToRel
<1>2. PICK m \in T : \A k \in T : ~(<<k, m>> \in R)
  BY <1>1, WFMin
<1>3. ASSUME NEW k \in T PROVE m <= k
  <2>1. ~(<<k, m>> \in R)
    BY <1>2
  <2>. QED BY <2>1
<1>. QED BY <1>3

LEMMA Upwards ==
  ASSUME NEW G, 0 \in G, \A i \in Nat : i \in G => i + 1 \in G
  PROVE  \A i \in Nat : i \in G
<1> DEFINE Missing == {i \in Nat : i \notin G}
<1>1. SUFFICES ASSUME Missing # {} PROVE FALSE
  OBVIOUS
<1>2. PICK m \in Missing : \A k \in Missing : m <= k
  BY <1>1, Least
<1>3. m # 0 /\ m - 1 \in Nat /\ m - 1 \in G
  BY <1>2
<1>4. (m - 1) + 1 \in G
  BY <1>3
<1>. QED BY <1>2, <1>3, <1>4

LEMMA UpTo ==
  ASSUME NEW n \in Nat, NEW G, 0 \in G, \A i \in 1..n : i - 1 \in G => i \in G
  PROVE  \A i \in 0..n : i \in G
<1> DEFINE H == {i \in Nat : i \in 0..n => i \in G}
<1>1. 0 \in H
  OBVIOUS
<1>2. ASSUME NEW i \in Nat, i \in H PROVE i + 1 \in H
  <2>1. SUFFICES ASSUME i + 1 \in 0..n PROVE i + 1 \in G
    OBVIOUS
  <2>2. i \in G /\ i + 1 \in 1..n /\ (i + 1) - 1 = i
    BY <1>2, <2>1
  <2>. QED BY <2>2
<1>. HIDE DEF H
<1>3. \A i \in Nat : i \in H
  BY <1>1, <1>2, Upwards
<1>. QED BY <1>3 DEF H

\* What one step after another leads to, as far as the n-th.
Course(base, F, n, f) ==
  /\ DOMAIN f = 0..n /\ f[0] = base
  /\ \A i \in 1..n : f[i] = F[i][f[i - 1]]

LEMMA CourseExists ==
  ASSUME NEW D, NEW base \in D, NEW F, \A i \in Nat : F[i] \in [D -> D], NEW n \in Nat
  PROVE  \E f \in [0..n -> D] : Course(base, F, n, f)
<1> DEFINE G == {i \in Nat : \E f \in [0..i -> D] : Course(base, F, i, f)}
<1>1. 0 \in G
  <2> DEFINE f == [i \in 0..0 |-> base]
  <2>1. f \in [0..0 -> D] /\ Course(base, F, 0, f)
    BY DEF Course
  <2>. QED BY <2>1
<1>2. ASSUME NEW i \in Nat, i \in G PROVE i + 1 \in G
  <2>1. PICK f \in [0..i -> D] : Course(base, F, i, f)
    BY <1>2
  <2> DEFINE g == [j \in 0..(i + 1) |-> IF j = i + 1 THEN F[i + 1][f[i]] ELSE f[j]]
  <2>2. F[i + 1] \in [D -> D] /\ f[i] \in D
    OBVIOUS
  <2>3. F[i + 1][f[i]] \in D
    BY <2>2
  <2>4. g \in [0..(i + 1) -> D]
    BY <2>3
  <2>5. g[0] = base
    BY <2>1 DEF Course
  <2>6. ASSUME NEW j \in 1..(i + 1) PROVE g[j] = F[j][g[j - 1]]
    <3>1. CASE j = i + 1
      BY <3>1
    <3>2. CASE j # i + 1
      <4>1. j \in 1..i /\ j - 1 \in 0..i /\ j \in 0..i /\ j - 1 # i + 1
        BY <3>2
      <4>2. f[j] = F[j][f[j - 1]]
        BY <2>1, <4>1 DEF Course
      <4>3. g[j] = f[j] /\ g[j - 1] = f[j - 1]
        BY <3>2, <4>1
      <4>. QED BY <4>2, <4>3
    <3>. QED BY <3>1, <3>2
  <2>7. Course(base, F, i + 1, g)
    BY <2>4, <2>5, <2>6 DEF Course
  <2>. QED BY <2>4, <2>7
<1>. HIDE DEF G
<1>3. n \in G
  BY <1>1, <1>2, Upwards
<1>. QED BY <1>3 DEF G

\* Steps can go on for ever.
Forever(base, F, f) == f[0] = base /\ \A i \in Nat \ {0} : f[i] = F[i][f[i - 1]]

LEMMA CourseOfAll ==
  ASSUME NEW D, NEW base \in D, NEW F, \A i \in Nat : F[i] \in [D -> D]
  PROVE  \E f \in [Nat -> D] : Forever(base, F, f)
<1> DEFINE c(n) == CHOOSE f \in [0..n -> D] : Course(base, F, n, f)
           all == [n \in Nat |-> c(n)[n]]
<1>1. ASSUME NEW n \in Nat PROVE c(n) \in [0..n -> D] /\ Course(base, F, n, c(n))
  BY CourseExists
<1>. HIDE DEF c
<1>2. ASSUME NEW n \in Nat \ {0} PROVE \A i \in 0..(n - 1) : c(n)[i] = c(n - 1)[i]
  <2> DEFINE G == {i \in 0..(n - 1) : c(n)[i] = c(n - 1)[i]}
  <2>1. n - 1 \in Nat
    OBVIOUS
  <2>2. Course(base, F, n, c(n)) /\ Course(base, F, n - 1, c(n - 1))
    BY <1>1, <2>1
  <2>3. 0 \in G
    BY <2>1, <2>2 DEF Course
  <2>4. ASSUME NEW i \in 1..(n - 1), i - 1 \in G PROVE i \in G
    BY <2>2, <2>4 DEF Course
  <2>. HIDE DEF G
  <2>5. \A i \in 0..(n - 1) : i \in G
    BY <2>1, <2>3, <2>4, UpTo
  <2>. QED BY <2>5 DEF G
<1>3. all \in [Nat -> D]
  BY <1>1
<1>4. all[0] = base
  BY <1>1 DEF Course
<1>5. ASSUME NEW i \in Nat \ {0} PROVE all[i] = F[i][all[i - 1]]
  <2>1. c(i)[i] = F[i][c(i)[i - 1]]
    BY <1>1 DEF Course
  <2>2. c(i)[i - 1] = c(i - 1)[i - 1]
    BY <1>2
  <2>. QED BY <2>1, <2>2
<1>. QED BY <1>3, <1>4, <1>5 DEF Forever

-----------------------------------------------------------------------------
(* What a filter leaves *)

\* at are the places of s that t takes its elements from, in their order.
TakenFrom(t, s, I, at) ==
  /\ at \in [1..Len(t) -> I]
  /\ \A j, k \in 1..Len(t) : j < k => at[j] < at[k]
  /\ \A i \in I : \E k \in 1..Len(t) : at[k] = i
  /\ \A k \in 1..Len(t) : t[k] = s[at[k]]

LEMMA TakenNext ==
  ASSUME NEW T, NEW s \in Seq(T), NEW I, NEW n \in 1..Len(s), NEW t \in Seq(T),
         NEW at, TakenFrom(t, s, I \cap (1..(n - 1)), at)
  PROVE  /\ n \in I => \E now : TakenFrom(Append(t, s[n]), s, I \cap (1..n), now)
         /\ n \notin I => TakenFrom(t, s, I \cap (1..n), at)
<1>1. CASE n \notin I
  <2>1. I \cap (1..n) = I \cap (1..(n - 1))
    BY <1>1
  <2>. QED BY <1>1, <2>1
<1>2. CASE n \in I
  <2> DEFINE u == Append(t, s[n])
             now == [k \in 1..Len(u) |-> IF k = Len(u) THEN n ELSE at[k]]
  <2>1. /\ u \in Seq(T) /\ Len(t) \in Nat /\ Len(u) = Len(t) + 1 /\ u[Len(u)] = s[n]
        /\ \A k \in 1..Len(t) : u[k] = t[k]
        /\ n \in Nat /\ n >= 1
    OBVIOUS
  <2>. HIDE DEF u
  <2>2. \A k \in 1..Len(t) : now[k] = at[k] /\ at[k] \in I /\ at[k] \in 1..(n - 1)
    <3>1. at \in [1..Len(t) -> I \cap (1..(n - 1))]
      BY DEF TakenFrom
    <3>2. \A k \in 1..Len(t) : k \in 1..Len(u) /\ k # Len(u)
      BY <2>1
    <3>. QED BY <3>1, <3>2
  <2>3. now[Len(u)] = n
    BY <2>1
  <2>4. \A k \in 1..Len(u) : k = Len(u) \/ k \in 1..Len(t)
    BY <2>1
  <2>5. now \in [1..Len(u) -> I \cap (1..n)]
    <3>1. \A k \in 1..Len(u) : now[k] \in I \cap (1..n)
      <4>1. n \in I \cap (1..n) /\ \A k \in 1..Len(t) : at[k] \in I \cap (1..n)
        <5>1. 1..(n - 1) \subseteq 1..n /\ n \in 1..n
          BY <2>1
        <5>. QED BY <1>2, <2>2, <5>1
      <4>. QED BY <2>2, <2>3, <2>4, <4>1
    <3>. QED BY <3>1
  <2>6. ASSUME NEW j \in 1..Len(u), NEW k \in 1..Len(u), j < k PROVE now[j] < now[k]
    <3>1. j \in 1..Len(t)
      BY <2>1, <2>6
    <3>2. CASE k = Len(u)
      <4>1. now[j] \in 1..(n - 1) /\ now[k] = n
        BY <2>2, <2>3, <3>1, <3>2
      <4>. QED BY <2>1, <4>1
    <3>3. CASE k \in 1..Len(t)
      BY <2>2, <2>6, <3>1, <3>3 DEF TakenFrom
    <3>. QED BY <2>4, <3>2, <3>3
  <2>7. ASSUME NEW i \in I \cap (1..n) PROVE \E k \in 1..Len(u) : now[k] = i
    <3>1. CASE i = n
      BY <2>1, <2>3, <3>1
    <3>2. CASE i # n
      <4>1. i \in I \cap (1..(n - 1))
        BY <3>2
      <4>2. PICK k \in 1..Len(t) : at[k] = i
        BY <4>1 DEF TakenFrom
      <4>. QED BY <2>1, <2>2, <4>2
    <3>. QED BY <3>1, <3>2
  <2>8. ASSUME NEW k \in 1..Len(u) PROVE u[k] = s[now[k]]
    BY <2>1, <2>2, <2>3, <2>4 DEF TakenFrom
  <2>9. TakenFrom(u, s, I \cap (1..n), now)
    BY <2>5, <2>6, <2>7, <2>8 DEF TakenFrom
  <2>. QED BY <1>2, <2>9 DEF u
<1>. QED BY <1>1, <1>2

LEMMA FilteredIsTaken ==
  ASSUME NEW T, NEW s \in Seq(T), NEW I \in SUBSET DOMAIN s
  PROVE  Filtered(s, I) \in Seq(T) /\ \E at : TakenFrom(Filtered(s, I), s, I, at)
<1> DEFINE Of(f) == f = [n \in 0..Len(s) |->
                            IF n = 0 THEN <<>>
                            ELSE IF n \in I THEN Append(f[n - 1], s[n]) ELSE f[n - 1]]
           from == CHOOSE f : Of(f)
           F == [i \in Nat |-> [d \in Seq(T) |->
                   IF i \in 1..Len(s) /\ i \in I THEN Append(d, s[i]) ELSE d]]
<1>1. Len(s) \in Nat /\ DOMAIN s = 1..Len(s) /\ <<>> \in Seq(T)
  OBVIOUS
<1>2. \A i \in Nat : F[i] \in [Seq(T) -> Seq(T)]
  OBVIOUS
<1>3. PICK f \in [0..Len(s) -> Seq(T)] : Course(<<>>, F, Len(s), f)
  <2>. HIDE DEF F
  <2>. QED BY <1>1, <1>2, CourseExists
<1>4. Of(f)
  <2>1. ASSUME NEW n \in 1..Len(s)
        PROVE  f[n] = IF n \in I THEN Append(f[n - 1], s[n]) ELSE f[n - 1]
    <3>1. f[n - 1] \in Seq(T) /\ n \in Nat
      BY <1>1
    <3>2. f[n] = F[n][f[n - 1]]
      BY <1>3 DEF Course
    <3>. QED BY <3>1, <3>2
  <2>2. f = [n \in 0..Len(s) |-> f[n]]
    OBVIOUS
  <2>3. f[0] = <<>>
    BY <1>3 DEF Course
  <2>4. \A n \in 0..Len(s) : n = 0 \/ n \in 1..Len(s)
    BY <1>1
  <2>. QED BY <2>1, <2>2, <2>3, <2>4
<1>5. Of(from)
  BY <1>4
<1>6. Filtered(s, I) = from[Len(s)]
  BY DEF Filtered
<1>. HIDE DEF from
<1>7. /\ from[0] = <<>>
      /\ \A n \in 1..Len(s) : from[n] = IF n \in I THEN Append(from[n - 1], s[n]) ELSE from[n - 1]
  <2>1. \A n \in 0..Len(s) : from[n] = IF n = 0 THEN <<>>
                                  ELSE IF n \in I THEN Append(from[n - 1], s[n]) ELSE from[n - 1]
    BY <1>5
  <2>2. 0 \in 0..Len(s) /\ \A n \in 1..Len(s) : n \in 0..Len(s) /\ n # 0
    BY <1>1
  <2>. QED BY <2>1, <2>2
<1> DEFINE G == {n \in 0..Len(s) : /\ from[n] \in Seq(T)
                                   /\ \E at : TakenFrom(from[n], s, I \cap (1..n), at)}
<1>8. 0 \in G
  <2>1. TakenFrom(<<>>, s, I \cap (1..0), <<>>)
    BY DEF TakenFrom
  <2>2. I \cap (1..0) = {}
    OBVIOUS
  <2>3. <<>> \in Seq(T) /\ 0 \in 0..Len(s)
    BY <1>1
  <2>. QED BY <1>7, <2>1, <2>3
<1>9. ASSUME NEW n \in 1..Len(s), n - 1 \in G PROVE n \in G
  <2>1. PICK at : TakenFrom(from[n - 1], s, I \cap (1..(n - 1)), at)
    BY <1>9
  <2>2. from[n - 1] \in Seq(T) /\ s[n] \in T
    BY <1>9
  <2> DEFINE t == from[n - 1]
  <2>3. t \in Seq(T) /\ TakenFrom(t, s, I \cap (1..(n - 1)), at)
    BY <2>1, <2>2
  <2>. HIDE DEF t
  <2>4. /\ n \in I => \E now : TakenFrom(Append(t, s[n]), s, I \cap (1..n), now)
        /\ n \notin I => TakenFrom(t, s, I \cap (1..n), at)
    BY <2>3, TakenNext
  <2>5. Append(t, s[n]) \in Seq(T)
    BY <2>2, <2>3
  <2>6. from[n] = IF n \in I THEN Append(t, s[n]) ELSE t
    BY <1>7 DEF t
  <2>7. from[n] \in Seq(T) /\ \E now : TakenFrom(from[n], s, I \cap (1..n), now)
    BY <2>3, <2>4, <2>5, <2>6
  <2>. QED BY <2>7
<1>. HIDE DEF G
<1>10. \A n \in 0..Len(s) : n \in G
  BY <1>1, <1>8, <1>9, UpTo
<1>11. Len(s) \in G /\ I \cap (1..Len(s)) = I
  BY <1>1, <1>10
<1>. QED BY <1>6, <1>11 DEF G

\* A filter leaves the elements it is for, and no two that are alike.
LEMMA FilteredElements ==
  ASSUME NEW T, NEW s \in Seq(T), NEW I \in SUBSET DOMAIN s
  PROVE  Elements(Filtered(s, I)) = {s[i] : i \in I}
<1> DEFINE t == Filtered(s, I)
<1>1. t \in Seq(T) /\ \E at : TakenFrom(t, s, I, at)
  BY FilteredIsTaken
<1>. HIDE DEF t
<1>2. PICK at : TakenFrom(t, s, I, at)
  BY <1>1
<1>3. DOMAIN t = 1..Len(t)
  BY <1>1
<1>4. ASSUME NEW x \in Elements(t) PROVE x \in {s[i] : i \in I}
  <2>1. PICK k \in 1..Len(t) : x = t[k]
    BY <1>3 DEF Elements
  <2>2. at[k] \in I /\ t[k] = s[at[k]]
    BY <1>2 DEF TakenFrom
  <2>. QED BY <2>1, <2>2
<1>5. ASSUME NEW i \in I PROVE s[i] \in Elements(t)
  <2>1. PICK k \in 1..Len(t) : at[k] = i
    BY <1>2 DEF TakenFrom
  <2>2. t[k] = s[i]
    BY <1>2, <2>1 DEF TakenFrom
  <2>. QED BY <1>3, <2>2 DEF Elements
<1>6. Elements(t) = {s[i] : i \in I}
  BY <1>4, <1>5
<1>. QED BY <1>6 DEF t

LEMMA FilteredDistinct ==
  ASSUME NEW T, NEW s \in Seq(T), NEW I \in SUBSET DOMAIN s, Distinct(s)
  PROVE  Distinct(Filtered(s, I))
<1> DEFINE t == Filtered(s, I)
<1>1. t \in Seq(T) /\ \E at : TakenFrom(t, s, I, at)
  BY FilteredIsTaken
<1>. HIDE DEF t
<1>2. PICK at : TakenFrom(t, s, I, at)
  BY <1>1
<1>3. DOMAIN t = 1..Len(t) /\ Len(t) \in Nat
  BY <1>1
<1>4. ASSUME NEW j \in 1..Len(t), NEW k \in 1..Len(t), j < k PROVE t[j].id # t[k].id
  <2>1. at[j] \in DOMAIN s /\ at[k] \in DOMAIN s /\ at[j] < at[k]
    BY <1>2, <1>4 DEF TakenFrom
  <2>2. at[j] # at[k]
    BY <2>1
  <2>3. t[j] = s[at[j]] /\ t[k] = s[at[k]]
    BY <1>2 DEF TakenFrom
  <2>. QED BY <2>1, <2>2, <2>3 DEF Distinct
<1>5. ASSUME NEW j \in 1..Len(t), NEW k \in 1..Len(t), j # k PROVE t[j].id # t[k].id
  <2>1. j < k \/ k < j
    BY <1>5
  <2>. QED BY <1>4, <2>1
<1>6. Distinct(t)
  BY <1>3, <1>5 DEF Distinct
<1>. QED BY <1>6 DEF t

-----------------------------------------------------------------------------
(* What a sort by compareItems leaves *)

LEMMA RankOfKind ==
  ASSUME NEW k \in Range(ContextKinds)
  PROVE  Rank(k) \in Nat /\ ContextKinds[Rank(k)] = k
<1>1. \E i \in DOMAIN ContextKinds : ContextKinds[i] = k
  BY DEF Range
<1>2. Rank(k) \in DOMAIN ContextKinds /\ ContextKinds[Rank(k)] = k
  BY <1>1 DEF Rank
<1>3. DOMAIN ContextKinds \subseteq Nat
  BY DEF ContextKinds
<1>. QED BY <1>2, <1>3

LEMMA PrecedesIsOrder ==
  ASSUME NEW x \in PackItem, NEW y \in PackItem, NEW z \in PackItem
  PROVE  /\ ~Precedes(x, x)
         /\ Precedes(x, y) /\ Precedes(y, z) => Precedes(x, z)
         /\ x.id # y.id => Precedes(x, y) \/ Precedes(y, x)
<1> DEFINE R(u) == Rank(u.kind)
<1>1. /\ R(x) \in Nat /\ R(y) \in Nat /\ R(z) \in Nat
      /\ x.kind = y.kind <=> R(x) = R(y)
      /\ x.kind = z.kind <=> R(x) = R(z)
      /\ y.kind = z.kind <=> R(y) = R(z)
  BY RankOfKind DEF PackItem
<1>2. /\ x.key \in Nat /\ y.key \in Nat /\ z.key \in Nat
      /\ x.id \in Nat /\ y.id \in Nat /\ z.id \in Nat
  BY DEF PackItem
<1> DEFINE Less(u, v) == \/ R(u) < R(v)
                         \/ R(u) = R(v) /\ u.key < v.key
                         \/ R(u) = R(v) /\ u.key = v.key /\ u.id < v.id
<1>3. /\ Precedes(x, y) <=> Less(x, y)
      /\ Precedes(y, x) <=> Less(y, x)
  BY <1>1, <1>2 DEF Precedes
<1>4. Precedes(y, z) <=> Less(y, z)
  BY <1>1, <1>2 DEF Precedes
<1>5. Precedes(x, z) <=> Less(x, z)
  BY <1>1, <1>2 DEF Precedes
<1>6. ~Precedes(x, x)
  BY <1>1, <1>2 DEF Precedes
<1>. HIDE DEF R
<1>7. Less(x, y) /\ Less(y, z) => Less(x, z)
  BY <1>1, <1>2
<1>8. x.id # y.id => Less(x, y) \/ Less(y, x)
  BY <1>1, <1>2
<1>. QED BY <1>3, <1>4, <1>5, <1>6, <1>7, <1>8

LEMMA SortExists ==
  ASSUME NEW s \in Seq(PackItem), Distinct(s)
  PROVE  \E p \in Bijection(DOMAIN s, DOMAIN s) :
           \A i, j \in DOMAIN s : i < j => ~Precedes(s[p[j]], s[p[i]])
<1> DEFINE D == DOMAIN s
           Before(i) == {j \in D : Precedes(s[j], s[i])}
           place == [i \in D |-> Cardinality(Before(i)) + 1]
<1>1. /\ D = 1..Len(s) /\ Len(s) \in Nat
      /\ \A i \in D : s[i] \in PackItem
  OBVIOUS
<1>2. IsFiniteSet(D) /\ Cardinality(D) = Len(s)
  BY <1>1, FS_Interval
<1>. HIDE DEF D
<1>3. ASSUME NEW i \in D PROVE IsFiniteSet(Before(i)) /\ Cardinality(Before(i)) \in Nat
  <2>1. Before(i) \in SUBSET D
    OBVIOUS
  <2>. HIDE DEF Before
  <2>. QED BY <1>2, <2>1, FS_Subset, FS_CardinalityType
<1>4. ASSUME NEW i \in D, NEW j \in D, Precedes(s[i], s[j])
      PROVE  Cardinality(Before(i)) < Cardinality(Before(j))
  <2>1. Before(i) \subseteq Before(j)
    BY <1>1, <1>4, PrecedesIsOrder
  <2>2. i \in Before(j) /\ i \notin Before(i)
    BY <1>1, <1>4, PrecedesIsOrder
  <2>. HIDE DEF Before
  <2>3. /\ Cardinality(Before(i)) <= Cardinality(Before(j))
        /\ Cardinality(Before(j)) = Cardinality(Before(i)) => Before(j) = Before(i)
    BY <1>3, <2>1, FS_Subset
  <2>4. Before(j) # Before(i)
    BY <2>2
  <2>. QED BY <1>3, <2>3, <2>4
<1>5. ASSUME NEW i \in D PROVE place[i] \in D
  <2>1. Before(i) \in SUBSET (D \ {i})
    BY <1>1, PrecedesIsOrder
  <2>2. IsFiniteSet(D \ {i}) /\ Cardinality(D \ {i}) = Len(s) - 1
    BY <1>2, FS_RemoveElement
  <2>3. Cardinality(Before(i)) <= Len(s) - 1
    <3>. HIDE DEF Before
    <3>. QED BY <2>1, <2>2, FS_Subset
  <2>4. Cardinality(Before(i)) + 1 \in 1..Len(s)
    <3>. HIDE DEF Before
    <3>. QED BY <1>1, <1>3, <2>3
  <2>. QED BY <1>1, <2>4
<1>. HIDE DEF Before
<1>6. ASSUME NEW i \in D, NEW j \in D, place[i] = place[j] PROVE i = j
  <2>1. SUFFICES ASSUME i # j PROVE FALSE
    OBVIOUS
  <2>2. Cardinality(Before(i)) = Cardinality(Before(j))
    BY <1>3, <1>6
  <2>3. s[i].id # s[j].id
    BY <2>1 DEF Distinct, D
  <2>4. Precedes(s[i], s[j]) \/ Precedes(s[j], s[i])
    BY <1>1, <2>3, PrecedesIsOrder
  <2>5. Cardinality(Before(i)) \in Nat /\ Cardinality(Before(j)) \in Nat
    BY <1>3
  <2>. QED BY <1>4, <2>2, <2>4, <2>5
<1>7. place \in [D -> D]
  BY <1>5
<1>8. \A i, j \in D : Precedes(s[i], s[j]) => place[i] < place[j]
  BY <1>3, <1>4
<1>. HIDE DEF place
<1>9. place \in Injection(D, D)
  BY <1>6, <1>7, Fun_IsInj
<1>10. place \in Surjection(D, D)
  BY <1>2, <1>9, FS_Injection
<1>11. place \in Bijection(D, D)
  BY <1>9, <1>10, Fun_IsBij
<1> DEFINE p == Inverse(place, D, D)
<1>12. p \in Bijection(D, D)
  BY <1>11, Fun_BijInverse
<1>13. Range(place) = D /\ \A y \in Range(place) : place[p[y]] = y
  BY <1>7, <1>10, Fun_SurjectionProperties, Fun_InverseProperties
<1>14. \A i \in D : p[i] \in D /\ place[p[i]] = i
  BY <1>12, <1>13, Fun_BijectionProperties
<1>. HIDE DEF p
<1>15. ASSUME NEW i \in D, NEW j \in D, i < j PROVE ~Precedes(s[p[j]], s[p[i]])
  <2>1. SUFFICES ASSUME Precedes(s[p[j]], s[p[i]]) PROVE FALSE
    OBVIOUS
  <2>2. place[p[j]] < place[p[i]]
    BY <1>8, <1>14, <2>1
  <2>3. j < i
    BY <1>14, <2>2
  <2>. QED BY <1>1, <1>15, <2>3
<1>. QED BY <1>12, <1>15 DEF D

\* Items are told each once and in order.
LEMMA SortedLists ==
  ASSUME NEW s \in Seq(PackItem), Distinct(s)
  PROVE  Lists(Sorted(s), Elements(s))
<1> DEFINE D == DOMAIN s
           InOrder(p) == \A i, j \in D : i < j => ~Precedes(s[p[j]], s[p[i]])
           place == CHOOSE p \in Bijection(D, D) : InOrder(p)
           t == [i \in D |-> s[place[i]]]
<1>1. D = 1..Len(s) /\ Len(s) \in Nat /\ \A i \in D : s[i] \in PackItem
  OBVIOUS
<1>2. place \in Bijection(D, D) /\ InOrder(place)
  BY SortExists
<1>3. Sorted(s) = t
  BY DEF Sorted
<1>. HIDE DEF place
<1>4. /\ \A i \in D : place[i] \in D /\ t[i] = s[place[i]]
      /\ \A i, j \in D : place[i] = place[j] => i = j
      /\ \A i \in D : \E j \in D : place[j] = i
  <2>. HIDE DEF D
  <2>1. /\ place \in [D -> D]
        /\ \A i, j \in D : place[i] = place[j] => i = j
        /\ \A i \in D : \E j \in D : place[j] = i
    BY <1>2, Fun_BijectionProperties
  <2>. QED BY <2>1
<1>5. DOMAIN t = D /\ Len(t) = Len(s)
  BY <1>1
<1>6. \A i, j \in D : i < j => ~Precedes(t[j], t[i])
  BY <1>2, <1>4
<1>6a. IsFiniteSet(D) /\ Cardinality(D) = Len(s)
  BY <1>1, FS_Interval
<1>. HIDE DEF D, t, InOrder
<1>7. Elements(t) = Elements(s)
  <2>1. ASSUME NEW x \in Elements(t) PROVE x \in Elements(s)
    <3>1. PICK i \in D : x = t[i]
      BY <1>5 DEF Elements
    <3>2. place[i] \in DOMAIN s /\ x = s[place[i]]
      BY <1>4, <3>1 DEF D
    <3>. QED BY <3>2 DEF Elements
  <2>2. ASSUME NEW x \in Elements(s) PROVE x \in Elements(t)
    <3>1. PICK i \in D : x = s[i]
      BY DEF Elements, D
    <3>2. PICK j \in D : place[j] = i
      BY <1>4
    <3>3. t[j] = x
      BY <1>4, <3>1, <3>2
    <3>. QED BY <1>5, <3>3 DEF Elements
  <2>. QED BY <2>1, <2>2
<1>8. Len(s) = Cardinality(Elements(s))
  <2> DEFINE g == [i \in D |-> s[i]]
  <2>1. g \in [D -> Elements(s)]
    BY DEF Elements, D
  <2>2. \A i, j \in D : g[i] = g[j] => i = j
    BY DEF Distinct, D
  <2>3. \A x \in Elements(s) : \E i \in D : g[i] = x
    BY DEF Elements, D
  <2>. HIDE DEF g
  <2>4. g \in Bijection(D, Elements(s))
    BY <2>1, <2>2, <2>3, Fun_IsBij
  <2>5. ExistsBijection(D, Elements(s))
    BY <2>4, Fun_ExistsBij
  <2>. QED BY <1>6a, <2>5, FS_Bijection
<1>9. ASSUME NEW i \in D, NEW j \in D, i < j PROVE Precedes(t[i], t[j])
  <2>1. place[i] # place[j] /\ place[i] \in D /\ place[j] \in D
    BY <1>1, <1>4, <1>9
  <2>2. s[place[i]].id # s[place[j]].id
    BY <2>1 DEF Distinct, D
  <2>3. t[i] = s[place[i]] /\ t[j] = s[place[j]]
    BY <1>4
  <2>3a. t[i].id # t[j].id /\ t[i] \in PackItem /\ t[j] \in PackItem
    BY <1>1, <2>1, <2>2, <2>3
  <2>4. Precedes(t[i], t[j]) \/ Precedes(t[j], t[i])
    BY <2>3a, PrecedesIsOrder
  <2>. QED BY <1>6, <1>9, <2>4
<1>. QED BY <1>3, <1>5, <1>7, <1>8, <1>9 DEF Lists

-----------------------------------------------------------------------------
(* The length of messages *)

LEMMA TotalIsSum ==
  ASSUME NEW s \in Seq(PackMessage)
  PROVE  \E f \in [0..Len(s) -> Nat] :
           /\ f[0] = 0 /\ Total(s) = f[Len(s)]
           /\ \A i \in 1..Len(s) : f[i] = f[i - 1] + s[i].length
<1> DEFINE Of(f) == f = [i \in 0..Len(s) |-> IF i = 0 THEN 0 ELSE f[i - 1] + s[i].length]
           sum == CHOOSE f : Of(f)
           F == [i \in Nat |-> [d \in Nat |-> IF i \in 1..Len(s) THEN d + s[i].length ELSE d]]
<1>1. Len(s) \in Nat /\ \A i \in 1..Len(s) : s[i] \in PackMessage
  OBVIOUS
<1>2. \A i \in 1..Len(s) : s[i].length \in Nat
  BY <1>1 DEF PackMessage
<1>3. \A i \in Nat : F[i] \in [Nat -> Nat]
  BY <1>2
<1>4. PICK f \in [0..Len(s) -> Nat] : Course(0, F, Len(s), f)
  <2>. HIDE DEF F
  <2>. QED BY <1>1, <1>3, CourseExists
<1>5. Of(f)
  <2>1. ASSUME NEW n \in 1..Len(s) PROVE f[n] = f[n - 1] + s[n].length
    <3>1. f[n - 1] \in Nat /\ n \in Nat
      BY <1>1
    <3>2. f[n] = F[n][f[n - 1]]
      BY <1>4 DEF Course
    <3>. QED BY <3>1, <3>2
  <2>2. f = [n \in 0..Len(s) |-> f[n]]
    OBVIOUS
  <2>3. f[0] = 0
    BY <1>4 DEF Course
  <2>4. \A n \in 0..Len(s) : n = 0 \/ n \in 1..Len(s)
    BY <1>1
  <2>. QED BY <2>1, <2>2, <2>3, <2>4
<1>6. Of(sum)
  BY <1>5
<1>7. Total(s) = sum[Len(s)]
  BY DEF Total
<1>. HIDE DEF sum
<1>8. sum[0] = 0 /\ \A i \in 1..Len(s) : sum[i] = sum[i - 1] + s[i].length
  <2>1. \A i \in 0..Len(s) : sum[i] = IF i = 0 THEN 0 ELSE sum[i - 1] + s[i].length
    BY <1>6
  <2>2. 0 \in 0..Len(s) /\ \A i \in 1..Len(s) : i \in 0..Len(s) /\ i # 0
    BY <1>1
  <2>. QED BY <2>1, <2>2
<1> DEFINE G == {i \in 0..Len(s) : sum[i] \in Nat}
<1>9. 0 \in G
  BY <1>1, <1>8
<1>10. ASSUME NEW i \in 1..Len(s), i - 1 \in G PROVE i \in G
  <2>1. sum[i - 1] \in Nat /\ i \in 0..Len(s)
    BY <1>1, <1>10
  <2>2. sum[i] = sum[i - 1] + s[i].length /\ s[i].length \in Nat
    BY <1>2, <1>8
  <2>. QED BY <2>1, <2>2
<1>. HIDE DEF G
<1>11. \A i \in 0..Len(s) : i \in G
  BY <1>1, <1>9, <1>10, UpTo
<1>12. \A i \in 0..Len(s) : sum[i] \in Nat
  BY <1>11 DEF G
<1>13. sum = [i \in 0..Len(s) |-> sum[i]]
  BY <1>6
<1>14. sum \in [0..Len(s) -> Nat]
  BY <1>12, <1>13
<1>. QED BY <1>7, <1>8, <1>14

LEMMA TotalType ==
  ASSUME NEW s \in Seq(PackMessage)
  PROVE  Total(s) \in Nat /\ (s = <<>> => Total(s) = 0)
<1>1. PICK f \in [0..Len(s) -> Nat] : f[0] = 0 /\ Total(s) = f[Len(s)]
  BY TotalIsSum
<1>2. Len(s) \in Nat /\ Len(s) \in 0..Len(s) /\ (s = <<>> => Len(s) = 0)
  OBVIOUS
<1>. QED BY <1>1, <1>2

LEMMA TotalOfOneMore ==
  ASSUME NEW s \in Seq(PackMessage), NEW m \in PackMessage
  PROVE  Total(<<m>> \o s) = m.length + Total(s)
<1> DEFINE t == <<m>> \o s
<1>1. /\ t \in Seq(PackMessage) /\ Len(s) \in Nat /\ Len(t) = Len(s) + 1 /\ t[1] = m
      /\ \A i \in 1..Len(s) : t[i + 1] = s[i]
  OBVIOUS
<1>. HIDE DEF t
<1>2. PICK f \in [0..Len(t) -> Nat] :
        /\ f[0] = 0 /\ Total(t) = f[Len(t)]
        /\ \A i \in 1..Len(t) : f[i] = f[i - 1] + t[i].length
  BY <1>1, TotalIsSum
<1>3. PICK g \in [0..Len(s) -> Nat] :
        /\ g[0] = 0 /\ Total(s) = g[Len(s)]
        /\ \A i \in 1..Len(s) : g[i] = g[i - 1] + s[i].length
  BY TotalIsSum
<1>4. m.length \in Nat /\ \A i \in 1..Len(s) : s[i].length \in Nat
  BY DEF PackMessage
<1> DEFINE G == {i \in 0..Len(s) : f[i + 1] = m.length + g[i]}
<1>5. 0 \in G
  <2>1. f[1] = f[0] + t[1].length
    BY <1>1, <1>2
  <2>. QED BY <1>1, <1>2, <1>3, <1>4, <2>1
<1>6. ASSUME NEW i \in 1..Len(s), i - 1 \in G PROVE i \in G
  <2>1. i \in Nat /\ i + 1 \in 1..Len(t) /\ (i + 1) - 1 = i /\ (i - 1) + 1 = i
    BY <1>1
  <2>2. f[i + 1] = f[i] + t[i + 1].length
    BY <1>2, <2>1
  <2>3. f[i] = m.length + g[i - 1]
    BY <1>6, <2>1
  <2>4. g[i] = g[i - 1] + s[i].length /\ t[i + 1] = s[i] /\ s[i].length \in Nat
    BY <1>1, <1>3, <1>4
  <2>5. i - 1 \in 0..Len(s)
    BY <1>1
  <2>6. g[i - 1] \in Nat
    BY <2>5
  <2>7. f[i + 1] = m.length + g[i]
    BY <1>4, <2>2, <2>3, <2>4, <2>6
  <2>. QED BY <2>1, <2>7
<1>. HIDE DEF G
<1>7. \A i \in 0..Len(s) : i \in G
  BY <1>1, <1>5, <1>6, UpTo
<1>8. Len(s) \in G
  BY <1>1, <1>7
<1>9. f[Len(s) + 1] = m.length + g[Len(s)]
  BY <1>8 DEF G
<1>10. Total(t) = m.length + Total(s)
  BY <1>1, <1>2, <1>3, <1>9
<1>. QED BY <1>10 DEF t

LEMMA NewestType ==
  ASSUME NEW c \in Seq(PackMessage), NEW n \in 0..Len(c)
  PROVE  /\ Newest(c, n) \in Seq(PackMessage) /\ Len(Newest(c, n)) = n
         /\ \A i \in 1..n : Newest(c, n)[i] = c[Len(c) - n + i]
<1> DEFINE a == Len(c) - n + 1
<1>1. Len(c) \in Nat /\ n \in Nat /\ a \in 1..(Len(c) + 1) /\ Len(c) - a + 1 = n
  OBVIOUS
<1>2. /\ SubSeq(c, a, Len(c)) \in Seq(PackMessage)
      /\ Len(SubSeq(c, a, Len(c))) = n
      /\ \A i \in 1..n : SubSeq(c, a, Len(c))[i] = c[a + i - 1]
  BY <1>1
<1>3. \A i \in 1..n : a + i - 1 = Len(c) - n + i
  BY <1>1
<1>. QED BY <1>2, <1>3 DEF Newest

LEMMA NewestAndOne ==
  ASSUME NEW c \in Seq(PackMessage), NEW n \in 1..Len(c)
  PROVE  Newest(c, n) = <<c[Len(c) - n + 1]>> \o Newest(c, n - 1)
<1> DEFINE u == Newest(c, n)
           v == Newest(c, n - 1)
           m == c[Len(c) - n + 1]
           w == <<m>> \o v
<1>1. Len(c) \in Nat /\ n \in Nat /\ n - 1 \in 0..Len(c) /\ n \in 0..Len(c) /\ n - 1 \in Nat
  OBVIOUS
<1>2. u \in Seq(PackMessage) /\ Len(u) = n /\ \A i \in 1..n : u[i] = c[Len(c) - n + i]
  BY <1>1, NewestType
<1>3. v \in Seq(PackMessage) /\ Len(v) = n - 1 /\ \A i \in 1..(n - 1) : v[i] = c[Len(c) - (n - 1) + i]
  BY <1>1, NewestType
<1>. HIDE DEF u, v
<1>4. m \in PackMessage
  BY <1>1
<1>. HIDE DEF m
<1>5. /\ w \in Seq(PackMessage) /\ Len(w) = n /\ w[1] = m
      /\ \A i \in 1..(n - 1) : w[i + 1] = v[i]
  BY <1>1, <1>3, <1>4
<1>. HIDE DEF w
<1>6. ASSUME NEW i \in 1..n PROVE u[i] = w[i]
  <2>1. CASE i = 1
    BY <1>1, <1>2, <1>5, <2>1 DEF m
  <2>2. CASE i # 1
    <3>1. i - 1 \in 1..(n - 1) /\ (i - 1) + 1 = i /\ Len(c) - (n - 1) + (i - 1) = Len(c) - n + i
      BY <1>1, <2>2
    <3>2. w[(i - 1) + 1] = v[i - 1]
      BY <1>5, <3>1
    <3>3. v[i - 1] = c[Len(c) - (n - 1) + (i - 1)]
      BY <1>3, <3>1
    <3>4. w[i] = c[Len(c) - n + i]
      BY <3>1, <3>2, <3>3
    <3>. QED BY <1>2, <3>4
  <2>. QED BY <2>1, <2>2
<1>7. DOMAIN u = 1..n /\ DOMAIN w = 1..n
  BY <1>2, <1>5
<1>8. u = w
  BY <1>2, <1>5, <1>6, <1>7
<1>. QED BY <1>8 DEF u, v, w, m

-----------------------------------------------------------------------------
(* The newest messages that fit *)

Fits(c, n, maximum, budget) == n <= maximum /\ Total(Newest(c, n)) <= budget

\* What is told if the newest n fit and one more does not.
Told(c, n, maximum, budget) ==
  IF n = 0 /\ c # <<>> /\ maximum > 0 /\ budget > 0
  THEN <<[Newest(c, 1)[1] EXCEPT !.length = budget]>>
  ELSE Newest(c, n)

TakenSet == [messages : Seq(PackMessage), left : Int, more : BOOLEAN]

\* After k of them were looked at.
SoFar(taken, c, k, maximum, budget) ==
  /\ taken.more => /\ taken.messages = Newest(c, k) /\ Fits(c, k, maximum, budget)
                   /\ taken.left = budget - Total(Newest(c, k))
  /\ ~taken.more => \E j \in 0..(k - 1) :
                      /\ Fits(c, j, maximum, budget) /\ ~Fits(c, j + 1, maximum, budget)
                      /\ taken.messages = Told(c, j, maximum, budget)

LEMMA TakeType ==
  ASSUME NEW taken \in TakenSet, NEW m \in PackMessage, NEW maximum \in Nat
  PROVE  Take(taken, m, maximum) \in TakenSet
<1>1. /\ taken = [messages |-> taken.messages, left |-> taken.left, more |-> taken.more]
      /\ taken.messages \in Seq(PackMessage) /\ taken.left \in Int /\ taken.more \in BOOLEAN
  BY DEF TakenSet
<1>2. m.length \in Nat /\ <<m>> \o taken.messages \in Seq(PackMessage)
  BY <1>1 DEF PackMessage
<1>3. ASSUME taken.left > 0 PROVE <<[m EXCEPT !.length = taken.left]>> \in Seq(PackMessage)
  <2>1. [m EXCEPT !.length = taken.left] \in PackMessage
    BY <1>1, <1>3 DEF PackMessage
  <2>. QED BY <2>1
<1>4. CASE ~taken.more \/ Len(taken.messages) >= maximum \/ taken.left <= 0
  BY <1>1, <1>4 DEF Take, TakenSet
<1>5. CASE /\ ~(~taken.more \/ Len(taken.messages) >= maximum \/ taken.left <= 0)
           /\ m.length > taken.left
  <2>1. taken.left > 0
    BY <1>1, <1>5
  <2> DEFINE cut == IF taken.messages = <<>> THEN <<[m EXCEPT !.length = taken.left]>>
                    ELSE taken.messages
  <2>2. cut \in Seq(PackMessage)
    BY <1>1, <1>3, <2>1
  <2>3. Take(taken, m, maximum) = [taken EXCEPT !.more = FALSE, !.messages = cut]
    BY <1>5 DEF Take
  <2>. HIDE DEF cut
  <2>. QED BY <1>1, <2>2, <2>3 DEF TakenSet
<1>6. CASE /\ ~(~taken.more \/ Len(taken.messages) >= maximum \/ taken.left <= 0)
           /\ ~(m.length > taken.left)
  <2>1. Take(taken, m, maximum) =
          [taken EXCEPT !.messages = <<m>> \o @, !.left = @ - m.length]
    BY <1>6 DEF Take
  <2> DEFINE now == <<m>> \o taken.messages
             less == taken.left - m.length
  <2>2. now \in Seq(PackMessage) /\ less \in Int
    BY <1>1, <1>2
  <2>3. Take(taken, m, maximum) = [taken EXCEPT !.messages = now, !.left = less]
    BY <2>1
  <2>. HIDE DEF now, less
  <2>4. [taken EXCEPT !.messages = now, !.left = less] \in TakenSet
    BY <1>1, <2>2 DEF TakenSet
  <2>. QED BY <2>3, <2>4
<1>. QED BY <1>4, <1>5, <1>6

\* The k-th is looked at.
LEMMA TakeNext ==
  ASSUME NEW c \in Seq(PackMessage), NEW k \in 1..Len(c), NEW maximum \in Nat, NEW budget \in Nat,
         \A i \in 1..Len(c) : c[i].length > 0,
         NEW taken \in TakenSet, SoFar(taken, c, k - 1, maximum, budget)
  PROVE  SoFar(Take(taken, c[Len(c) - k + 1], maximum), c, k, maximum, budget)
<1> DEFINE m == c[Len(c) - k + 1]
           next == Take(taken, m, maximum)
<1>1. /\ taken = [messages |-> taken.messages, left |-> taken.left, more |-> taken.more]
      /\ taken.messages \in Seq(PackMessage) /\ taken.left \in Int /\ taken.more \in BOOLEAN
  BY DEF TakenSet
<1>2. /\ Len(c) \in Nat /\ k \in Nat /\ k >= 1 /\ Len(c) - k + 1 \in 1..Len(c)
      /\ k - 1 \in 0..Len(c) /\ k - 1 \in 0..(k - 1) /\ (k - 1) + 1 = k /\ k - 1 \in Nat
  OBVIOUS
<1>3. m \in PackMessage /\ m.length > 0
  BY <1>2
<1>4. m.length \in Nat
  BY <1>3 DEF PackMessage
<1>5. /\ Newest(c, k) = <<m>> \o Newest(c, k - 1)
      /\ Newest(c, k - 1) \in Seq(PackMessage) /\ Len(Newest(c, k - 1)) = k - 1
  BY <1>2, NewestAndOne, NewestType
<1>. HIDE DEF m
<1>6. /\ Total(Newest(c, k)) = m.length + Total(Newest(c, k - 1))
      /\ Total(Newest(c, k - 1)) \in Nat
  BY <1>3, <1>5, TotalOfOneMore, TotalType
<1>7. CASE ~taken.more
  <2>1. next = [taken EXCEPT !.more = FALSE]
    BY <1>7 DEF Take
  <2>2. ~next.more /\ next.messages = taken.messages
    BY <1>1, <2>1
  <2>. HIDE DEF next
  <2>3. PICK j \in 0..((k - 1) - 1) :
          /\ Fits(c, j, maximum, budget) /\ ~Fits(c, j + 1, maximum, budget)
          /\ taken.messages = Told(c, j, maximum, budget)
    BY <1>7 DEF SoFar
  <2>4. j \in 0..(k - 1)
    BY <1>2
  <2>5. SoFar(next, c, k, maximum, budget)
    BY <2>2, <2>3, <2>4 DEF SoFar
  <2>. QED BY <2>5 DEF next, m
<1>8. CASE taken.more
  <2>1. /\ taken.messages = Newest(c, k - 1) /\ Fits(c, k - 1, maximum, budget)
        /\ taken.left = budget - Total(Newest(c, k - 1))
    BY <1>8 DEF SoFar
  <2>2. ASSUME ~next.more, ~Fits(c, k, maximum, budget),
               next.messages = Told(c, k - 1, maximum, budget)
        PROVE  SoFar(next, c, k, maximum, budget)
    <3>. HIDE DEF next
    <3>. QED BY <1>2, <2>1, <2>2 DEF SoFar
  <2>3. CASE Len(taken.messages) >= maximum \/ taken.left <= 0
    <3>1. next = [taken EXCEPT !.more = FALSE]
      BY <2>3 DEF Take
    <3>2. ~next.more /\ next.messages = Newest(c, k - 1)
      BY <1>1, <2>1, <3>1
    <3>3. k > maximum \/ Total(Newest(c, k)) > budget
      <4>1. CASE Len(taken.messages) >= maximum
        <5>1. k - 1 >= maximum
          BY <1>5, <2>1, <4>1
        <5>. QED BY <1>2, <5>1
      <4>2. CASE taken.left <= 0
        <5>1. Total(Newest(c, k - 1)) >= budget
          BY <1>6, <2>1, <4>2
        <5>. QED BY <1>3, <1>4, <1>6, <5>1
      <4>. QED BY <2>3, <4>1, <4>2
    <3>4. ~Fits(c, k, maximum, budget)
      BY <1>2, <1>4, <1>6, <3>3 DEF Fits
    <3>5. ASSUME k - 1 = 0 PROVE ~(maximum > 0 /\ budget > 0)
      <4>1. Newest(c, k - 1) = <<>>
        BY <1>5, <3>5
      <4>2. Total(Newest(c, k - 1)) = 0 /\ Len(taken.messages) = 0
        BY <1>5, <2>1, <4>1, TotalType
      <4>. QED BY <1>1, <2>1, <2>3, <4>2
    <3>6. Told(c, k - 1, maximum, budget) = Newest(c, k - 1)
      BY <3>5 DEF Told
    <3>7. SoFar(next, c, k, maximum, budget)
      BY <2>2, <3>2, <3>4, <3>6
    <3>. QED BY <3>7 DEF next, m
  <2>4. CASE ~(Len(taken.messages) >= maximum \/ taken.left <= 0) /\ m.length > taken.left
    <3> DEFINE cut == IF taken.messages = <<>> THEN <<[m EXCEPT !.length = taken.left]>>
                      ELSE taken.messages
    <3>1. next = [taken EXCEPT !.more = FALSE, !.messages = cut]
      BY <1>8, <2>4 DEF Take
    <3>. HIDE DEF cut
    <3>2. ~next.more /\ next.messages = cut
      BY <1>1, <3>1
    <3>3. Total(Newest(c, k)) > budget
      BY <1>4, <1>6, <2>1, <2>4
    <3>4. ~Fits(c, k, maximum, budget)
      BY <1>4, <1>6, <3>3 DEF Fits
    <3>5. cut = Told(c, k - 1, maximum, budget)
      <4>1. CASE k - 1 = 0
        <5>1. Newest(c, k - 1) = <<>>
          BY <1>5, <4>1
        <5>2. taken.messages = <<>> /\ Len(taken.messages) = 0 /\ taken.left = budget
          BY <1>5, <2>1, <4>1, <5>1, TotalType
        <5>3. maximum > 0 /\ budget > 0 /\ c # <<>>
          BY <1>2, <2>4, <5>2
        <5>4. Newest(c, 1) = Newest(c, k) /\ Newest(c, k)[1] = m
          BY <1>2, <1>3, <1>5, <4>1
        <5>. QED BY <4>1, <5>2, <5>3, <5>4 DEF Told, cut
      <4>2. CASE k - 1 # 0
        <5>1. taken.messages # <<>>
          BY <1>2, <1>5, <2>1, <4>2
        <5>. QED BY <2>1, <4>2, <5>1 DEF Told, cut
      <4>. QED BY <4>1, <4>2
    <3>6. SoFar(next, c, k, maximum, budget)
      BY <2>2, <3>2, <3>4, <3>5
    <3>. QED BY <3>6 DEF next, m
  <2>5. CASE ~(Len(taken.messages) >= maximum \/ taken.left <= 0) /\ ~(m.length > taken.left)
    <3>1. next = [taken EXCEPT !.messages = <<m>> \o @, !.left = @ - m.length]
      BY <1>8, <2>5 DEF Take
    <3>2. next.more /\ next.messages = Newest(c, k) /\ next.left = taken.left - m.length
      BY <1>1, <1>5, <1>8, <2>1, <3>1
    <3>3. Len(taken.messages) = k - 1
      BY <1>5, <2>1
    <3>4. k <= maximum /\ Total(Newest(c, k)) <= budget
      <4>1. k - 1 < maximum
        BY <1>2, <2>5, <3>3
      <4>2. Total(Newest(c, k - 1)) + m.length <= budget
        BY <1>4, <1>6, <2>1, <2>5
      <4>3. k <= maximum
        BY <1>2, <4>1
      <4>. QED BY <1>4, <1>6, <4>2, <4>3
    <3>5. next.left = budget - Total(Newest(c, k))
      BY <1>4, <1>6, <2>1, <3>2
    <3>. HIDE DEF next
    <3>6. SoFar(next, c, k, maximum, budget)
      BY <3>2, <3>4, <3>5 DEF SoFar, Fits
    <3>. QED BY <3>6 DEF next, m
  <2>. QED BY <2>3, <2>4, <2>5
<1>. QED BY <1>7, <1>8

LEMMA CandidatesAreCompleted ==
  ASSUME NEW messages \in Seq(PackMessage)
  PROVE  /\ Candidates(messages) \in Seq(PackMessage)
         /\ \A i \in 1..Len(Candidates(messages)) : Candidates(messages)[i].length > 0
<1> DEFINE I == {i \in DOMAIN messages : messages[i].deliveryState = "completed"}
           c == Filtered(messages, I)
<1>1. I \in SUBSET DOMAIN messages /\ \A i \in I : messages[i] \in PackMessage
  OBVIOUS
<1>2. \A i \in I : messages[i].length > 0
  BY <1>1 DEF PackMessage
<1>3. Candidates(messages) = c
  BY DEF Candidates
<1>. HIDE DEF I, c
<1>4. c \in Seq(PackMessage) /\ \E at : TakenFrom(c, messages, I, at)
  BY <1>1, FilteredIsTaken DEF c
<1>5. PICK at : TakenFrom(c, messages, I, at)
  BY <1>4
<1>6. ASSUME NEW k \in 1..Len(c) PROVE c[k].length > 0
  <2>1. at[k] \in I /\ c[k] = messages[at[k]]
    BY <1>5 DEF TakenFrom
  <2>. QED BY <1>2, <2>1
<1>. QED BY <1>3, <1>4, <1>6

LEMMA RecentAreTold ==
  ASSUME NEW messages \in Seq(PackMessage), NEW maximum \in Nat, NEW budget \in Nat,
         NEW c, c = Candidates(messages)
  PROVE  \E n \in 0..Len(c) :
           /\ Fits(c, n, maximum, budget)
           /\ n < Len(c) => ~Fits(c, n + 1, maximum, budget)
           /\ SelectRecentMessages(messages, maximum, budget) = Told(c, n, maximum, budget)
<1> DEFINE First == [messages |-> <<>>, left |-> budget, more |-> TRUE]
           Of(f) == f = [k \in 0..Len(c) |->
                           IF k = 0 THEN First ELSE Take(f[k - 1], c[Len(c) - k + 1], maximum)]
           taken == CHOOSE f : Of(f)
           F == [i \in Nat |-> [d \in TakenSet |->
                   IF i \in 1..Len(c) THEN Take(d, c[Len(c) - i + 1], maximum) ELSE d]]
<1>1. c \in Seq(PackMessage) /\ \A i \in 1..Len(c) : c[i].length > 0
  BY CandidatesAreCompleted
<1>2. /\ Len(c) \in Nat
      /\ \A i \in 1..Len(c) : Len(c) - i + 1 \in 1..Len(c) /\ c[Len(c) - i + 1] \in PackMessage
  BY <1>1
<1>3. First \in TakenSet
  BY DEF TakenSet
<1>4. SelectRecentMessages(messages, maximum, budget) = taken[Len(c)].messages
  BY DEF SelectRecentMessages
<1>. HIDE DEF First
<1>5. \A i \in Nat : F[i] \in [TakenSet -> TakenSet]
  BY <1>2, TakeType
<1>6. PICK f \in [0..Len(c) -> TakenSet] : Course(First, F, Len(c), f)
  <2>. HIDE DEF F
  <2>. QED BY <1>2, <1>3, <1>5, CourseExists
<1>7. Of(f)
  <2>1. ASSUME NEW n \in 1..Len(c) PROVE f[n] = Take(f[n - 1], c[Len(c) - n + 1], maximum)
    <3>0. n - 1 \in 0..Len(c) /\ n \in Nat
      BY <1>2
    <3>1. f[n - 1] \in TakenSet /\ n \in Nat
      BY <1>6, <3>0
    <3>2. f[n] = F[n][f[n - 1]]
      BY <1>6 DEF Course
    <3>. QED BY <3>1, <3>2
  <2>2. f = [n \in 0..Len(c) |-> f[n]]
    OBVIOUS
  <2>3. f[0] = First
    BY <1>6 DEF Course
  <2>4. \A n \in 0..Len(c) : n = 0 \/ n \in 1..Len(c)
    BY <1>2
  <2>. QED BY <2>1, <2>2, <2>3, <2>4
<1>8. Of(taken)
  BY <1>7
<1>. HIDE DEF taken
<1>9. taken[0] = First /\ \A k \in 1..Len(c) : taken[k] = Take(taken[k - 1], c[Len(c) - k + 1], maximum)
  <2>1. \A k \in 0..Len(c) : taken[k] = IF k = 0 THEN First
                                        ELSE Take(taken[k - 1], c[Len(c) - k + 1], maximum)
    BY <1>8
  <2>2. 0 \in 0..Len(c) /\ \A k \in 1..Len(c) : k \in 0..Len(c) /\ k # 0
    BY <1>2
  <2>. QED BY <2>1, <2>2
<1> DEFINE G == {k \in 0..Len(c) : taken[k] \in TakenSet /\ SoFar(taken[k], c, k, maximum, budget)}
<1>10. 0 \in G
  <2>1. Newest(c, 0) \in Seq(PackMessage) /\ Len(Newest(c, 0)) = 0
    BY <1>1, <1>2, NewestType
  <2>2. Newest(c, 0) = <<>> /\ Total(Newest(c, 0)) = 0
    BY <2>1, TotalType
  <2>3. First.messages = <<>> /\ First.left = budget /\ First.more
    BY DEF First
  <2>4. SoFar(First, c, 0, maximum, budget)
    BY <2>2, <2>3 DEF SoFar, Fits
  <2>. QED BY <1>2, <1>3, <1>9, <2>4
<1>11. ASSUME NEW k \in 1..Len(c), k - 1 \in G PROVE k \in G
  <2> DEFINE d == taken[k - 1]
             m == c[Len(c) - k + 1]
  <2>1. d \in TakenSet /\ SoFar(d, c, k - 1, maximum, budget)
    BY <1>11
  <2>2. taken[k] = Take(d, m, maximum) /\ m \in PackMessage
    BY <1>2, <1>9
  <2>. HIDE DEF d
  <2>3. SoFar(Take(d, m, maximum), c, k, maximum, budget)
    BY <1>1, <2>1, TakeNext
  <2>4. Take(d, m, maximum) \in TakenSet
    BY <2>1, <2>2, TakeType
  <2>. QED BY <1>2, <2>2, <2>3, <2>4
<1>. HIDE DEF G
<1>12. \A k \in 0..Len(c) : k \in G
  BY <1>2, <1>10, <1>11, UpTo
<1>13. Len(c) \in G
  BY <1>2, <1>12
<1> DEFINE d == taken[Len(c)]
<1>14. d \in TakenSet /\ SoFar(d, c, Len(c), maximum, budget)
  BY <1>13 DEF G
<1>. HIDE DEF d
<1>15. d.more \in BOOLEAN
  BY <1>14 DEF TakenSet
<1>16. CASE d.more
  <2>1. d.messages = Newest(c, Len(c)) /\ Fits(c, Len(c), maximum, budget)
    BY <1>14, <1>16 DEF SoFar
  <2>2. Len(c) = 0 => c = <<>>
    BY <1>1
  <2>3. d.messages = Told(c, Len(c), maximum, budget)
    BY <2>1, <2>2 DEF Told
  <2>. QED BY <1>2, <1>4, <2>1, <2>3 DEF d
<1>17. CASE ~d.more
  <2>1. PICK j \in 0..(Len(c) - 1) :
          /\ Fits(c, j, maximum, budget) /\ ~Fits(c, j + 1, maximum, budget)
          /\ d.messages = Told(c, j, maximum, budget)
    BY <1>14, <1>17 DEF SoFar
  <2>2. j \in 0..Len(c)
    BY <1>2
  <2>. QED BY <1>4, <2>1, <2>2 DEF d
<1>. QED BY <1>15, <1>16, <1>17

\* Fewer fit where more do.
LEMMA FewerFit ==
  ASSUME NEW c \in Seq(PackMessage), NEW n \in 0..Len(c), NEW k \in 0..n, NEW maximum \in Nat,
         NEW budget \in Nat, Fits(c, n, maximum, budget)
  PROVE  Fits(c, k, maximum, budget)
<1> DEFINE G == {i \in 0..n : n - i >= 0 /\ Fits(c, n - i, maximum, budget)}
<1>1. Len(c) \in Nat /\ n \in Nat /\ k \in Nat /\ n - k \in 0..n /\ n - (n - k) = k /\ n - 0 = n
  OBVIOUS
<1>2. 0 \in G
  BY <1>1
<1>3. ASSUME NEW i \in 1..n, i - 1 \in G PROVE i \in G
  <2> DEFINE j == n - (i - 1)
             m == c[Len(c) - j + 1]
  <2>1. /\ j \in 1..Len(c) /\ j - 1 = n - i /\ n - i >= 0 /\ i \in 0..n /\ j - 1 \in 0..Len(c)
        /\ Len(c) - j + 1 \in 1..Len(c) /\ n - i <= j /\ n - i \in Nat /\ j \in Nat
    BY <1>1
  <2>2. Fits(c, j, maximum, budget)
    BY <1>3
  <2>. HIDE DEF j
  <2>3. m \in PackMessage
    BY <2>1
  <2>4. Newest(c, j) = <<m>> \o Newest(c, j - 1) /\ Newest(c, j - 1) \in Seq(PackMessage)
    BY <2>1, NewestAndOne, NewestType
  <2>. HIDE DEF m
  <2>5. Total(Newest(c, j)) = m.length + Total(Newest(c, j - 1)) /\ Total(Newest(c, j - 1)) \in Nat
    BY <2>3, <2>4, TotalOfOneMore, TotalType
  <2>6. m.length \in Nat
    BY <2>3 DEF PackMessage
  <2>7. Fits(c, n - i, maximum, budget)
    BY <2>1, <2>2, <2>5, <2>6 DEF Fits
  <2>. QED BY <2>1, <2>7
<1>. HIDE DEF G
<1>4. \A i \in 0..n : i \in G
  BY <1>1, <1>2, <1>3, UpTo
<1>5. n - k \in G
  BY <1>1, <1>4
<1>. QED BY <1>1, <1>5 DEF G

-----------------------------------------------------------------------------
(* A pack tells HEAD *)

LEMMA SectionOfKind ==
  ASSUME NEW k \in Range(ContextKinds)
  PROVE  Cardinality({s \in DOMAIN Sections : Sections[s] = k}) = 1
<1>1. DOMAIN Sections =
        {"decisions", "requirements", "constraints", "facts", "assumptions", "tasks",
         "openQuestions", "risks", "artifacts", "preferences", "rejectedOptions", "architecture"}
  BY DEF Sections
<1>2. /\ Sections["decisions"] = "decision" /\ Sections["requirements"] = "requirement"
      /\ Sections["constraints"] = "constraint" /\ Sections["facts"] = "fact"
      /\ Sections["assumptions"] = "assumption" /\ Sections["tasks"] = "task"
      /\ Sections["openQuestions"] = "question" /\ Sections["risks"] = "risk"
      /\ Sections["artifacts"] = "artifact" /\ Sections["preferences"] = "preference"
      /\ Sections["rejectedOptions"] = "rejected_option"
      /\ Sections["architecture"] = "architecture"
  BY DEF Sections
<1>3. k \in {"architecture", "artifact", "assumption", "constraint", "decision", "fact",
             "preference", "question", "rejected_option", "requirement", "risk", "task"}
  <2>1. PICK i \in DOMAIN ContextKinds : k = ContextKinds[i]
    BY DEF Range
  <2>2. i \in 1..12
    BY <2>1 DEF ContextKinds
  <2>3. i = 1 \/ i = 2 \/ i = 3 \/ i = 4 \/ i = 5 \/ i = 6 \/ i = 7 \/ i = 8 \/ i = 9
          \/ i = 10 \/ i = 11 \/ i = 12
    BY <2>2
  <2>. QED BY <2>1, <2>3 DEF ContextKinds
<1>4. \E s \in DOMAIN Sections : Sections[s] = k
  BY <1>1, <1>2, <1>3
<1>5. \A s, t \in DOMAIN Sections : Sections[s] = Sections[t] => s = t
  BY <1>1, <1>2
<1>6. PICK s \in DOMAIN Sections : Sections[s] = k
  BY <1>4
<1>7. {t \in DOMAIN Sections : Sections[t] = k} = {s}
  BY <1>5, <1>6
<1>. QED BY <1>7, FS_Singleton

\* Of what HEAD holds, what of is for is told.
LEMMA ToldOf ==
  ASSUME NEW items \in Seq(PackItem), Distinct(items), NEW I \in SUBSET DOMAIN items
  PROVE  Lists(Sorted(Filtered(items, I)), {items[i] : i \in I})
<1>1. Filtered(items, I) \in Seq(PackItem)
  BY FilteredIsTaken
<1>2. Distinct(Filtered(items, I)) /\ Elements(Filtered(items, I)) = {items[i] : i \in I}
  BY FilteredDistinct, FilteredElements
<1>. QED BY <1>1, <1>2, SortedLists

InForce(items) == {x \in Elements(items) : x.lifecycle = "active"}

LEMMA ActiveOf ==
  ASSUME NEW items \in Seq(PackItem), Distinct(items)
  PROVE  /\ Active(items) \in Seq(PackItem) /\ Distinct(Active(items))
         /\ Elements(Active(items)) = InForce(items)
<1> DEFINE I == {i \in DOMAIN items : items[i].lifecycle = "active"}
<1>1. I \in SUBSET DOMAIN items
  OBVIOUS
<1>2. {items[i] : i \in I} = InForce(items)
  BY DEF Elements, InForce
<1>3. Active(items) = Filtered(items, I)
  BY DEF Active
<1>. HIDE DEF I
<1>. QED BY <1>1, <1>2, <1>3, FilteredIsTaken, FilteredDistinct, FilteredElements

LEMMA AuthorityOf ==
  ASSUME NEW items \in Seq(PackItem), Distinct(items), NEW authority
  PROVE  /\ Authority(items, authority) \in Seq(PackItem) /\ Distinct(Authority(items, authority))
         /\ Elements(Authority(items, authority)) = {x \in Elements(items) : x.authority = authority}
<1> DEFINE I == {i \in DOMAIN items : items[i].authority = authority}
<1>1. I \in SUBSET DOMAIN items
  OBVIOUS
<1>2. {items[i] : i \in I} = {x \in Elements(items) : x.authority = authority}
  BY DEF Elements
<1>3. Authority(items, authority) = Filtered(items, I)
  BY DEF Authority
<1>. HIDE DEF I
<1>. QED BY <1>1, <1>2, <1>3, FilteredIsTaken, FilteredDistinct, FilteredElements

LEMMA KindOf ==
  ASSUME NEW items \in Seq(PackItem), Distinct(items), NEW k
  PROVE  Lists(SelectKind(items, k), {x \in Elements(items) : x.kind = k})
<1> DEFINE I == {i \in DOMAIN items : items[i].kind = k}
<1>1. I \in SUBSET DOMAIN items
  OBVIOUS
<1>2. {items[i] : i \in I} = {x \in Elements(items) : x.kind = k}
  BY DEF Elements
<1>3. SelectKind(items, k) = Sorted(Filtered(items, I))
  BY DEF SelectKind
<1>. HIDE DEF I
<1>. QED BY <1>1, <1>2, <1>3, ToldOf

LEMMA BuiltTells ==
  ASSUME NEW input \in PackInputs
  PROVE  /\ \A s \in DOMAIN Sections :
              Lists(Built(input).sections[s],
                    {x \in InForce(input.items) : x.authority = "authoritative" /\ x.kind = Sections[s]})
         /\ Lists(Built(input).alternatives,
                  {x \in InForce(input.items) : x.authority = "alternative"})
         /\ Built(input).recentMessages =
              SelectRecentMessages(input.messages, input.maximum, input.budget)
<1> DEFINE active == Active(input.items)
           authoritative == Authority(active, "authoritative")
           alternative == Authority(active, "alternative")
<1>1. input.items \in Seq(PackItem) /\ Distinct(input.items)
  BY PackAssumption
<1>2. active \in Seq(PackItem) /\ Distinct(active) /\ Elements(active) = InForce(input.items)
  BY <1>1, ActiveOf
<1>3. /\ \A s \in DOMAIN Sections : Built(input).sections[s] = SelectKind(authoritative, Sections[s])
      /\ Built(input).alternatives = Sorted(alternative)
      /\ Built(input).recentMessages =
           SelectRecentMessages(input.messages, input.maximum, input.budget)
  BY DEF Built
<1>. HIDE DEF active
<1>4. /\ authoritative \in Seq(PackItem) /\ Distinct(authoritative)
      /\ Elements(authoritative) = {x \in InForce(input.items) : x.authority = "authoritative"}
      /\ alternative \in Seq(PackItem) /\ Distinct(alternative)
      /\ Elements(alternative) = {x \in InForce(input.items) : x.authority = "alternative"}
  BY <1>2, AuthorityOf
<1>. HIDE DEF authoritative, alternative
<1>5. Lists(Sorted(alternative), Elements(alternative))
  BY <1>4, SortedLists
<1>6. ASSUME NEW s \in DOMAIN Sections
      PROVE  Lists(SelectKind(authoritative, Sections[s]),
                   {x \in InForce(input.items) : x.authority = "authoritative" /\ x.kind = Sections[s]})
  <2>1. {x \in Elements(authoritative) : x.kind = Sections[s]} =
          {x \in InForce(input.items) : x.authority = "authoritative" /\ x.kind = Sections[s]}
    BY <1>4
  <2>2. Lists(SelectKind(authoritative, Sections[s]), {x \in Elements(authoritative) : x.kind = Sections[s]})
    BY <1>4, KindOf
  <2>. QED BY <2>1, <2>2
<1>. QED BY <1>3, <1>4, <1>5, <1>6

\* What is asked for is told, but for what its route withholds.
PackInv ==
  /\ read \in PackInputs
  /\ pack # None =>
       /\ pack.route \in {None} \cup DOMAIN Withheld
       /\ \A s \in DOMAIN Sections :
            pack.sections[s] = IF s \in Hidden THEN <<>> ELSE Built(read).sections[s]
       /\ "alternatives" \notin Hidden => pack.alternatives = Built(read).alternatives
       /\ "recentMessages" \notin Hidden => pack.recentMessages = Built(read).recentMessages

LEMMA PackInvariant == PackSpec => []PackInv
<1>1. PackInit => PackInv
  BY DEF PackInit, PackInv
<1>2. ASSUME PackInv, [PackNext]_packVars PROVE PackInv'
  <2>1. CASE BuildContextPack
    <3> DEFINE b == Built(read)
    <3>1. pack' = b /\ read' = read /\ read \in PackInputs
      BY <1>2, <2>1 DEF BuildContextPack, PackInv
    <3>2. b.route = None
      BY DEF Built
    <3>. HIDE DEF b
    <3>3. Hidden' = {} /\ pack'.route = None
      BY <3>1, <3>2 DEF Hidden
    <3>4. Built(read') = b
      BY <3>1 DEF b
    <3>. QED BY <3>1, <3>3, <3>4 DEF PackInv
  <2>2. ASSUME NEW route \in DOMAIN Withheld, RouteContext(route) PROVE PackInv'
    <3>1. pack # None /\ pack.route = None /\ read' = read
      BY <2>2 DEF RouteContext
    <3>2. Hidden = {}
      BY <3>1 DEF Hidden
    <3>3. /\ pack'.route = route
          /\ \A s \in DOMAIN Sections :
               pack'.sections[s] = IF s \in Withheld[route] THEN <<>> ELSE pack.sections[s]
          /\ "alternatives" \notin Withheld[route] => pack'.alternatives = pack.alternatives
          /\ "recentMessages" \notin Withheld[route] => pack'.recentMessages = pack.recentMessages
      BY <2>2 DEF RouteContext
    <3>4. route # None
      BY PackAssumption
    <3>5. Hidden' = Withheld[route]
      BY <3>3, <3>4 DEF Hidden
    <3>6. /\ read \in PackInputs
          /\ \A s \in DOMAIN Sections : pack.sections[s] = Built(read).sections[s]
          /\ pack.alternatives = Built(read).alternatives
          /\ pack.recentMessages = Built(read).recentMessages
      BY <1>2, <3>1, <3>2 DEF PackInv
    <3>7. Built(read') = Built(read)
      BY <3>1
    <3>. QED BY <3>1, <3>3, <3>5, <3>6, <3>7 DEF PackInv
  <2>3. CASE UNCHANGED packVars
    BY <1>2, <2>3 DEF packVars, PackInv, Hidden
  <2>. QED BY <1>2, <2>1, <2>2, <2>3 DEF PackNext
<1>. QED BY <1>1, <1>2, PTL DEF PackSpec

\* What is in force in HEAD is told once, in its section and in order, and of the
\* conversation as many of the newest messages as fit (buildContextPack, routeContext).
THEOREM PacksTellHead == PackSpec => []PackTellsHead
<1>1. ASSUME PackInv, pack # None PROVE TellsItems(InForce(read.items))
  <2>1. read \in PackInputs
    BY <1>1 DEF PackInv
  <2>2. read.items \in Seq(PackItem)
    BY <2>1, PackAssumption
  <2>3. ASSUME NEW x \in InForce(read.items)
        PROVE  Cardinality({s \in DOMAIN Sections : Sections[s] = x.kind}) = 1
    <3>1. x \in PackItem
      BY <2>2 DEF InForce, Elements
    <3>2. x.kind \in Range(ContextKinds)
      BY <3>1 DEF PackItem
    <3>. QED BY <3>2, SectionOfKind
  <2>4. ASSUME NEW s \in DOMAIN Sections
        PROVE  IF s \in Hidden THEN pack.sections[s] = <<>>
               ELSE Lists(pack.sections[s],
                          {x \in InForce(read.items) : x.authority = "authoritative" /\ x.kind = Sections[s]})
    BY <1>1, <2>1, BuiltTells DEF PackInv
  <2>5. ASSUME "alternatives" \notin Hidden
        PROVE  Lists(pack.alternatives, {x \in InForce(read.items) : x.authority = "alternative"})
    BY <1>1, <2>1, <2>5, BuiltTells DEF PackInv
  <2>. QED BY <2>3, <2>4, <2>5 DEF TellsItems
<1>2. ASSUME PackInv, pack # None, "recentMessages" \notin Hidden
      PROVE  TellsMessages(Candidates(read.messages))
  <2> DEFINE c == Candidates(read.messages)
             fits(n) == n <= read.maximum /\ Total(Newest(c, n)) <= read.budget
             Most(n) == fits(n) /\ \A k \in 0..Len(c) : fits(k) => k <= n
             most == CHOOSE n \in 0..Len(c) : Most(n)
  <2>1. read \in PackInputs
    BY <1>2 DEF PackInv
  <2>2. read.messages \in Seq(PackMessage) /\ read.maximum \in Nat /\ read.budget \in Nat
    BY <2>1, PackAssumption
  <2>3. pack.recentMessages = SelectRecentMessages(read.messages, read.maximum, read.budget)
    BY <1>2, <2>1, BuiltTells DEF PackInv
  <2>4. c \in Seq(PackMessage)
    BY <2>2, CandidatesAreCompleted
  <2>5. PICK n \in 0..Len(c) :
          /\ Fits(c, n, read.maximum, read.budget)
          /\ n < Len(c) => ~Fits(c, n + 1, read.maximum, read.budget)
          /\ pack.recentMessages = Told(c, n, read.maximum, read.budget)
    <3>1. \E n \in 0..Len(c) :
            /\ Fits(c, n, read.maximum, read.budget)
            /\ n < Len(c) => ~Fits(c, n + 1, read.maximum, read.budget)
            /\ SelectRecentMessages(read.messages, read.maximum, read.budget)
                 = Told(c, n, read.maximum, read.budget)
      BY <2>2, RecentAreTold, ZenonT(30)
    <3>. QED BY <2>3, <3>1
  <2>. HIDE DEF c
  <2>6. \A k : fits(k) <=> Fits(c, k, read.maximum, read.budget)
    BY DEF Fits
  <2>7. Len(c) \in Nat /\ n \in Nat
    BY <2>4
  <2>8. ASSUME NEW k \in 0..Len(c), fits(k) PROVE k <= n
    <3>1. SUFFICES ASSUME k > n PROVE FALSE
      BY <2>7
    <3>2. n < Len(c) /\ n + 1 \in 0..k
      BY <2>7, <3>1
    <3>3. Fits(c, k, read.maximum, read.budget)
      BY <2>6, <2>8
    <3>4. Fits(c, n + 1, read.maximum, read.budget)
      BY <2>2, <2>4, <3>2, <3>3, FewerFit
    <3>. QED BY <2>5, <3>2, <3>4
  <2>. HIDE DEF fits
  <2>9. Most(n)
    BY <2>5, <2>6, <2>8
  <2>10. most \in 0..Len(c) /\ Most(most)
    BY <2>9
  <2>11. most = n
    <3>1. most <= n /\ n <= most
      BY <2>9, <2>10
    <3>. QED BY <2>7, <2>10, <3>1
  <2>12. pack.recentMessages =
          IF most = 0 /\ c # <<>> /\ read.maximum > 0 /\ read.budget > 0
          THEN <<[Newest(c, 1)[1] EXCEPT !.length = read.budget]>>
          ELSE Newest(c, most)
    BY <2>5, <2>11 DEF Told
  <2>13. TellsMessages(c)
    BY <2>12 DEF TellsMessages, fits
  <2>. QED BY <2>13 DEF c
<1>3. PackInv => PackTellsHead
  BY <1>1, <1>2 DEF PackTellsHead, InForce, Candidates
<1>. QED BY <1>3, PackInvariant, PTL

-----------------------------------------------------------------------------
(* The messages of an export, and the entries that count *)

LEMMA Largest ==
  ASSUME NEW S \in SUBSET Nat, S # {}, NEW n \in Nat, \A i \in S : i <= n
  PROVE  \E i \in S : \A j \in S : j <= i
<1> DEFINE Gaps == {n - i : i \in S}
<1>1. Gaps \in SUBSET Nat /\ Gaps # {}
  <2>1. \A i \in S : i \in Nat /\ i <= n
    OBVIOUS
  <2>2. \A i \in S : n - i \in Nat
    BY <2>1
  <2>. QED BY <2>2
<1>2. PICK g \in Gaps : \A k \in Gaps : g <= k
  BY <1>1, Least
<1>3. PICK i \in S : g = n - i
  BY <1>2
<1>4. ASSUME NEW j \in S PROVE j <= i
  <2>1. g <= n - j
    BY <1>2
  <2>. QED BY <1>3, <2>1
<1>. QED BY <1>4

ExportedNode ==
  [id : ExternalIds, parent : ExternalIds \cup {None}, role : ExternalRoles, text : BOOLEAN]

Spoken(mapping) == {i \in DOMAIN mapping : HasMessage(mapping[i])}

\* at are the entries that nodes are read from, in their order.
ReadFrom(nodes, mapping, at) ==
  /\ at \in [1..Len(nodes) -> Spoken(mapping)]
  /\ \A j, k \in 1..Len(nodes) : j < k => at[j] < at[k]
  /\ \A i \in Spoken(mapping) : \E k \in 1..Len(nodes) : at[k] = i
  /\ \A k \in 1..Len(nodes) : nodes[k] = Node(mapping[at[k]])

LEMMA NodeType ==
  ASSUME NEW entry \in ExportedEntry, HasMessage(entry)
  PROVE  Node(entry) \in ExportedNode /\ Node(entry).id # None
<1>1. entry.message \in ExportedMessage /\ entry.key \in ExternalIds
      /\ entry.parent \in ExternalIds \cup {None}
  BY DEF ExportedEntry, HasMessage
<1>2. /\ entry.message.id \in ExternalIds \cup {None} /\ entry.message.role \in ExternalRoles
      /\ entry.message.text \in BOOLEAN
  BY <1>1 DEF ExportedMessage
<1>3. None \notin ExternalIds
  BY ExportAssumption
<1> DEFINE id == IF entry.message.id = None THEN entry.key ELSE entry.message.id
<1>4. id \in ExternalIds
  BY <1>1, <1>2
<1>5. Node(entry) = [id |-> id, parent |-> entry.parent, role |-> entry.message.role,
                     text |-> entry.message.text]
  BY DEF Node
<1>. HIDE DEF id
<1>. QED BY <1>1, <1>2, <1>3, <1>4, <1>5 DEF ExportedNode

LEMMA NodesAreRead ==
  ASSUME NEW mapping \in Seq(ExportedEntry)
  PROVE  Nodes(mapping) \in Seq(ExportedNode) /\ \E at : ReadFrom(Nodes(mapping), mapping, at)
<1> DEFINE I == Spoken(mapping)
           rows == Filtered(mapping, I)
           nodes == [i \in DOMAIN rows |-> Node(rows[i])]
<1>1. Nodes(mapping) = nodes
  BY DEF Nodes, Spoken
<1>2. I \in SUBSET DOMAIN mapping /\ \A i \in I : mapping[i] \in ExportedEntry /\ HasMessage(mapping[i])
  BY DEF Spoken
<1>. HIDE DEF I, rows
<1>3. rows \in Seq(ExportedEntry) /\ \E at : TakenFrom(rows, mapping, I, at)
  BY <1>2, FilteredIsTaken DEF rows
<1>4. PICK at : TakenFrom(rows, mapping, I, at)
  BY <1>3
<1>5. DOMAIN rows = 1..Len(rows) /\ Len(rows) \in Nat
  BY <1>3
<1>6. ASSUME NEW k \in 1..Len(rows)
      PROVE  nodes[k] = Node(mapping[at[k]]) /\ nodes[k] \in ExportedNode
  <2>1. at[k] \in I /\ rows[k] = mapping[at[k]]
    BY <1>4 DEF TakenFrom
  <2>2. nodes[k] = Node(mapping[at[k]])
    BY <1>5, <2>1
  <2>. QED BY <1>2, <2>1, <2>2, NodeType
<1>7. DOMAIN nodes = 1..Len(rows)
  BY <1>5
<1>7a. nodes = [k \in 1..Len(rows) |-> nodes[k]]
  BY <1>5
<1>. HIDE DEF nodes
<1>8. nodes \in Seq(ExportedNode) /\ Len(nodes) = Len(rows)
  <2>1. nodes \in [1..Len(rows) -> ExportedNode]
    BY <1>6, <1>7a
  <2>. QED BY <1>5, <2>1
<1>9. ReadFrom(nodes, mapping, at)
  BY <1>4, <1>6, <1>8 DEF TakenFrom, ReadFrom, I
<1>. QED BY <1>1, <1>8, <1>9

LEMMA ExportType ==
  ASSUME export \in Exports
  PROVE  export.mapping \in Seq(ExportedEntry) /\ export.current \in ExternalIds \cup {None}
BY ExportAssumption

LEMMA NamedIs ==
  ASSUME NEW id
  PROVE  Named(id) = {i \in Spoken(export.mapping) : Node(export.mapping[i]).id = id}
BY DEF Named, Spoken, HasMessage, Node

\* What has a name is what is read.
LEMMA NamesAreIds ==
  ASSUME export \in Exports
  PROVE  /\ Names = Ids(Nodes(export.mapping)) /\ Names \subseteq ExternalIds
         /\ IsFiniteSet(Names) /\ None \notin Names
<1> DEFINE mapping == export.mapping
           nodes == Nodes(mapping)
<1>1. mapping \in Seq(ExportedEntry)
  BY ExportType
<1>2. nodes \in Seq(ExportedNode) /\ \E at : ReadFrom(nodes, mapping, at)
  BY <1>1, NodesAreRead
<1>. HIDE DEF nodes
<1>3. PICK at : ReadFrom(nodes, mapping, at)
  BY <1>2
<1>4. DOMAIN nodes = 1..Len(nodes) /\ Len(nodes) \in Nat
  BY <1>2
<1>5. ASSUME NEW id \in Names PROVE id \in Ids(nodes)
  <2>1. PICK i \in Named(id) : TRUE
    BY <1>5 DEF Names
  <2>2. i \in Spoken(mapping) /\ Node(mapping[i]).id = id
    BY <2>1, NamedIs
  <2>3. PICK k \in 1..Len(nodes) : at[k] = i
    BY <1>3, <2>2 DEF ReadFrom
  <2>4. nodes[k].id = id
    BY <1>3, <2>2, <2>3 DEF ReadFrom
  <2>. QED BY <1>4, <2>4 DEF Ids
<1>6. ASSUME NEW k \in 1..Len(nodes) PROVE nodes[k].id \in Names
  <2> DEFINE i == at[k]
             id == Node(mapping[i]).id
  <2>1. i \in Spoken(mapping) /\ nodes[k].id = id
    BY <1>3 DEF ReadFrom
  <2>. HIDE DEF i
  <2>2. i \in Named(id)
    BY <2>1, NamedIs
  <2>3. i \in DOMAIN mapping /\ mapping[i].message # None
    BY <2>1 DEF Spoken, HasMessage
  <2>4. id \in {mapping[i].key} \cup {mapping[i].message.id}
    BY DEF Node
  <2>5. id \in {mapping[i].key} \cup
               (IF mapping[i].message = None THEN {} ELSE {mapping[i].message.id})
    BY <2>3, <2>4
  <2>. HIDE DEF id
  <2>6. id \in Names
    BY <2>2, <2>3, <2>5 DEF Names
  <2>. QED BY <2>1, <2>6
<1>7. Names = Ids(nodes)
  BY <1>4, <1>5, <1>6 DEF Ids
<1>8. IsFiniteSet(Ids(nodes))
  <2> DEFINE f == [k \in 1..Len(nodes) |-> nodes[k].id]
  <2>1. f \in [1..Len(nodes) -> Ids(nodes)] /\ \A id \in Ids(nodes) : \E k \in 1..Len(nodes) : f[k] = id
    BY <1>4 DEF Ids
  <2>. HIDE DEF f
  <2>2. f \in Surjection(1..Len(nodes), Ids(nodes))
    BY <2>1, Fun_IsSurj
  <2>3. IsFiniteSet(1..Len(nodes))
    BY <1>4, FS_Interval
  <2>. QED BY <2>2, <2>3, FS_Surjection
<1>9. Ids(nodes) \subseteq ExternalIds
  <2>1. \A k \in 1..Len(nodes) : nodes[k] \in ExportedNode
    BY <1>2
  <2>2. \A k \in 1..Len(nodes) : nodes[k].id \in ExternalIds
    BY <2>1 DEF ExportedNode
  <2>. QED BY <1>4, <2>2 DEF Ids
<1>10. None \notin ExternalIds
  BY ExportAssumption
<1>. QED BY <1>7, <1>8, <1>9, <1>10 DEF nodes

\* The message that is looked up by a name is the entry that counts.
LEMMA ByIdCounts ==
  ASSUME export \in Exports, NEW id \in Names
  PROVE  /\ ById(Nodes(export.mapping), id) = Node(Counts(id))
         /\ ById(Nodes(export.mapping), id).id = id
         /\ \E k \in DOMAIN Nodes(export.mapping) :
              ById(Nodes(export.mapping), id) = Nodes(export.mapping)[k]
<1> DEFINE mapping == export.mapping
           nodes == Nodes(mapping)
           K == {k \in 1..Len(nodes) : nodes[k].id = id}
<1>1. mapping \in Seq(ExportedEntry)
  BY ExportType
<1>2. /\ nodes \in Seq(ExportedNode) /\ \E at : ReadFrom(nodes, mapping, at)
      /\ id \in Ids(nodes)
  BY <1>1, NodesAreRead, NamesAreIds
<1>. HIDE DEF nodes
<1>3. PICK at : ReadFrom(nodes, mapping, at)
  BY <1>2
<1>4. DOMAIN nodes = 1..Len(nodes) /\ Len(nodes) \in Nat
  BY <1>2
<1>5. K # {} /\ K \in SUBSET Nat /\ \A k \in K : k <= Len(nodes)
  BY <1>2, <1>4 DEF Ids
<1>6. PICK k \in K : \A j \in K : j <= k
  BY <1>4, <1>5, Largest
<1>7. ById(nodes, id) = nodes[k]
  <2>1. ById(nodes, id) = nodes[IF K # {} THEN Max(K) ELSE 0]
    BY DEF ById, SelectLastInSeq
  <2>. HIDE DEF K
  <2>2. Max(K) \in K /\ \A j \in K : Max(K) >= j
    BY <1>5, <1>6 DEF Max
  <2>3. Max(K) \in Nat /\ k \in Nat /\ Max(K) <= k /\ Max(K) >= k
    BY <1>5, <1>6, <2>2
  <2>4. Max(K) = k
    BY <2>3
  <2>. QED BY <1>5, <2>1, <2>4
<1>8. at[k] \in Named(id) /\ nodes[k] = Node(mapping[at[k]])
  <2>1. at[k] \in Spoken(mapping) /\ nodes[k] = Node(mapping[at[k]]) /\ nodes[k].id = id
    BY <1>3, <1>6 DEF ReadFrom
  <2>. QED BY <2>1, NamedIs
<1>9. Named(id) \in SUBSET Nat
  <2>1. DOMAIN mapping \subseteq Nat
    BY <1>1
  <2>. QED BY <2>1, NamedIs DEF Spoken
<1>10. ASSUME NEW j \in Named(id) PROVE j <= at[k]
  <2>1. j \in Spoken(mapping) /\ Node(mapping[j]).id = id
    BY NamedIs
  <2>2. PICK l \in 1..Len(nodes) : at[l] = j
    BY <1>3, <2>1 DEF ReadFrom
  <2>3. l \in K
    BY <1>3, <2>1, <2>2 DEF ReadFrom
  <2>4. l <= k /\ k \in 1..Len(nodes)
    BY <1>6, <2>3
  <2>5. CASE l = k
    BY <1>8, <1>9, <2>2, <2>5
  <2>6. CASE l # k
    <3>1. l < k
      BY <1>4, <2>4, <2>6
    <3>2. at[l] < at[k]
      BY <1>3, <2>4, <3>1 DEF ReadFrom
    <3>. QED BY <1>8, <1>9, <2>2, <3>2
  <2>. QED BY <2>5, <2>6
<1>11. Counts(id) = mapping[at[k]]
  <2> DEFINE Ends(i) == \A j \in Named(id) : j <= i
             last == CHOOSE i \in Named(id) : Ends(i)
  <2>1. Counts(id) = mapping[last]
    BY DEF Counts
  <2>2. last \in Named(id) /\ Ends(last)
    BY <1>8, <1>10
  <2>. HIDE DEF last
  <2>3. last = at[k]
    BY <1>8, <1>9, <1>10, <2>2
  <2>. QED BY <2>1, <2>3
<1>. QED BY <1>4, <1>6, <1>7, <1>8, <1>11 DEF nodes

-----------------------------------------------------------------------------
(* The names that are followed from a message *)

\* What parsing leaves of the export, with what evidence there is.
Conversation(e) ==
  LET nodes == Nodes(export.mapping) IN
    [nodes |-> nodes, current |-> export.current,
     warnings |-> [duplicate |-> Duplicates(nodes), missing |-> MissingParents(nodes),
                   branchPoints |-> Cardinality(Branches(nodes))],
     evidence |-> e]

\* up goes from a name to its parent for ever.
Upward(up) ==
  /\ up \in [Nat -> ExternalIds \cup {None}]
  /\ \A n \in Nat : up[n + 1] = IF up[n] \in Names THEN Counts(up[n]).parent ELSE None

LEMMA ParentIs ==
  ASSUME export \in Exports, NEW id
  PROVE  /\ Parent(Nodes(export.mapping), id) = IF id \in Names THEN Counts(id).parent ELSE None
         /\ Parent(Nodes(export.mapping), id) \in ExternalIds \cup {None}
<1> DEFINE nodes == Nodes(export.mapping)
<1>1. Names = Ids(nodes)
  BY NamesAreIds
<1>2. CASE id \notin Names
  <2>1. Parent(nodes, id) = None
    BY <1>1, <1>2 DEF Parent
  <2>. QED BY <1>2, <2>1
<1>3. CASE id \in Names
  <2>1. Parent(nodes, id) = ById(nodes, id).parent
    BY <1>1, <1>3 DEF Parent
  <2>2. /\ ById(nodes, id) = Node(Counts(id))
        /\ \E k \in DOMAIN nodes : ById(nodes, id) = nodes[k]
    BY <1>3, ByIdCounts
  <2>3. nodes \in Seq(ExportedNode)
    BY ExportType, NodesAreRead
  <2>. HIDE DEF nodes
  <2>4. ById(nodes, id) \in ExportedNode
    <3>1. PICK k \in DOMAIN nodes : ById(nodes, id) = nodes[k]
      BY <2>2
    <3>2. nodes[k] \in ExportedNode
      BY <2>3
    <3>. QED BY <3>1, <3>2
  <2>5. ById(nodes, id).parent \in ExternalIds \cup {None}
    BY <2>4 DEF ExportedNode
  <2>6. Node(Counts(id)).parent = Counts(id).parent
    BY DEF Node
  <2>. QED BY <1>3, <2>1, <2>2, <2>5, <2>6 DEF nodes
<1>. QED BY <1>2, <1>3

\* Without a current message, one that nobody answered.
LEMMA StartIs ==
  ASSUME export \in Exports, NEW c, c.nodes = Nodes(export.mapping), c.current = export.current
  PROVE  /\ Start(c) \in ExternalIds \cup {None}
         /\ export.current # None => Start(c) = export.current
         /\ export.current = None =>
              LET answered == {export.mapping[i].parent :
                                 i \in {i \in DOMAIN export.mapping : export.mapping[i].message # None}}
              IN IF Names \ answered = {} THEN Start(c) = None ELSE Start(c) \in Names \ answered
<1> DEFINE mapping == export.mapping
           nodes == Nodes(mapping)
           answered == {mapping[i].parent : i \in {i \in DOMAIN mapping : mapping[i].message # None}}
           First(n) == \A j \in DOMAIN nodes : nodes[j].parent # n.id
           I == {i \in 1..Len(nodes) : First(nodes[i])}
<1>1. mapping \in Seq(ExportedEntry) /\ export.current \in ExternalIds \cup {None}
  BY ExportType
<1>2. nodes \in Seq(ExportedNode) /\ \E at : ReadFrom(nodes, mapping, at)
  BY <1>1, NodesAreRead
<1>3. Names = Ids(nodes) /\ Names \subseteq ExternalIds
  BY NamesAreIds
<1>4. c.nodes = nodes
  OBVIOUS
<1>. HIDE DEF nodes
<1>5. DOMAIN nodes = 1..Len(nodes) /\ Len(nodes) \in Nat
  BY <1>2
<1>6. answered = {nodes[k].parent : k \in DOMAIN nodes}
  <2>1. PICK at : ReadFrom(nodes, mapping, at)
    BY <1>2
  <2>2. \A k \in 1..Len(nodes) :
          /\ at[k] \in DOMAIN mapping /\ mapping[at[k]].message # None
          /\ nodes[k].parent = mapping[at[k]].parent
    <3> SUFFICES ASSUME NEW k \in 1..Len(nodes)
                 PROVE  /\ at[k] \in DOMAIN mapping /\ mapping[at[k]].message # None
                        /\ nodes[k].parent = mapping[at[k]].parent
      OBVIOUS
    <3>1. at[k] \in Spoken(mapping) /\ nodes[k] = Node(mapping[at[k]])
      BY <2>1 DEF ReadFrom
    <3>. HIDE DEF mapping
    <3>2. at[k] \in DOMAIN mapping /\ mapping[at[k]].message # None
      BY <3>1 DEF Spoken, HasMessage
    <3>3. Node(mapping[at[k]]).parent = mapping[at[k]].parent
      BY DEF Node
    <3>. QED BY <3>1, <3>2, <3>3
  <2>3. \A i \in DOMAIN mapping : mapping[i].message # None =>
          \E k \in 1..Len(nodes) : at[k] = i
    BY <2>1 DEF ReadFrom, Spoken, HasMessage
  <2>4. \A k \in 1..Len(nodes) : nodes[k].parent \in answered
    BY <2>2
  <2>5. \A i \in DOMAIN mapping : mapping[i].message # None =>
          mapping[i].parent \in {nodes[k].parent : k \in DOMAIN nodes}
    BY <1>5, <2>2, <2>3
  <2>. QED BY <1>5, <2>4, <2>5
<1>. HIDE DEF answered
<1>7. \A i \in 1..Len(nodes) : First(nodes[i]) <=> nodes[i].id \notin answered
  BY <1>5, <1>6
<1>8. Leaf(nodes) = LET i == IF I # {} THEN Min(I) ELSE 0 IN IF i = 0 THEN None ELSE nodes[i].id
  BY DEF Leaf, SelectInSeq
<1>. HIDE DEF First
<1>9. CASE I = {}
  <2>1. Leaf(nodes) = None
    BY <1>8, <1>9
  <2>2. Names \ answered = {}
    BY <1>3, <1>5, <1>7, <1>9 DEF Ids
  <2>. QED BY <1>1, <1>4, <2>1, <2>2 DEF Start, answered
<1>10. CASE I # {}
  <2>1. I \in SUBSET Nat
    BY <1>5
  <2>2. PICK i \in I : \A j \in I : i <= j
    BY <1>10, <2>1, Least
  <2>3. Min(I) \in I
    <3>. HIDE DEF I
    <3>. QED BY <2>1, <2>2 DEF Min
  <2>4. Min(I) # 0 /\ Min(I) \in 1..Len(nodes) /\ First(nodes[Min(I)])
    BY <1>5, <2>3
  <2>5. Leaf(nodes) = nodes[Min(I)].id
    BY <1>8, <1>10, <2>4
  <2>6. Leaf(nodes) \in Names \ answered
    BY <1>3, <1>5, <1>7, <2>4, <2>5 DEF Ids
  <2>. QED BY <1>1, <1>3, <1>4, <2>6 DEF Start, answered
<1>. QED BY <1>9, <1>10

LEMMA WalkGoesUp ==
  ASSUME export \in Exports, NEW c, c.nodes = Nodes(export.mapping), c.current = export.current
  PROVE  \E up : /\ Upward(up) /\ up[0] = Start(c)
                 /\ Walk(c) = [n \in 0..Cardinality(Names) |-> up[n]]
<1> DEFINE nodes == Nodes(export.mapping)
           D == ExternalIds \cup {None}
           Of(f) == f = [n \in Nat |-> IF n = 0 THEN Start(c) ELSE Parent(nodes, f[n - 1])]
           up == CHOOSE f : Of(f)
           F == [i \in Nat |-> [d \in D |-> Parent(nodes, d)]]
<1>1. Start(c) \in D /\ \A id : Parent(nodes, id) \in D
  BY StartIs, ParentIs
<1>2. Walk(c) = [n \in 0..Cardinality(Names) |-> up[n]]
  <2>1. Names = Ids(c.nodes) /\ c.nodes = nodes
    BY NamesAreIds
  <2>2. Walk(c) = [n \in 0..Cardinality(Ids(c.nodes)) |->
                     (CHOOSE f : f = [k \in Nat |-> IF k = 0 THEN Start(c)
                                                    ELSE Parent(c.nodes, f[k - 1])])[n]]
    BY DEF Walk
  <2>. QED BY <2>1, <2>2
<1>. HIDE DEF nodes
<1>3. \A i \in Nat : F[i] \in [D -> D]
  BY <1>1
<1>4. PICK f \in [Nat -> D] : Forever(Start(c), F, f)
  <2>. HIDE DEF F, D
  <2>. QED BY <1>1, <1>3, CourseOfAll
<1>5. Of(f)
  <2>1. ASSUME NEW n \in Nat \ {0} PROVE f[n] = Parent(nodes, f[n - 1])
    <3>1. n - 1 \in Nat /\ n \in Nat
      OBVIOUS
    <3>2. f[n - 1] \in D
      BY <3>1
    <3>3. f[n] = F[n][f[n - 1]]
      BY <1>4 DEF Forever
    <3>. QED BY <3>1, <3>2, <3>3
  <2>2. f = [n \in Nat |-> f[n]]
    OBVIOUS
  <2>3. f[0] = Start(c)
    BY <1>4 DEF Forever
  <2>. QED BY <2>1, <2>2, <2>3
<1>6. Of(up)
  BY <1>5
<1>. HIDE DEF up
<1>7. up[0] = Start(c) /\ \A n \in Nat : up[n + 1] = Parent(nodes, up[n])
  <2>1. \A n \in Nat : up[n] = IF n = 0 THEN Start(c) ELSE Parent(nodes, up[n - 1])
    BY <1>6
  <2>2. \A n \in Nat : n + 1 \in Nat /\ n + 1 # 0 /\ (n + 1) - 1 = n
    OBVIOUS
  <2>. QED BY <2>1, <2>2
<1>8. up \in [Nat -> D]
  <2>1. \A n \in Nat : up[n] \in D
    <3>1. \A n \in Nat : up[n] = IF n = 0 THEN Start(c) ELSE Parent(nodes, up[n - 1])
      BY <1>6
    <3>. QED BY <1>1, <3>1
  <2>2. up = [n \in Nat |-> up[n]]
    BY <1>6
  <2>. QED BY <2>1, <2>2
<1>9. \A n \in Nat : up[n + 1] = IF up[n] \in Names THEN Counts(up[n]).parent ELSE None
  BY <1>7, ParentIs DEF nodes
<1>. QED BY <1>2, <1>7, <1>8, <1>9 DEF Upward

\* Who leaves the names stays outside.
LEMMA OutStaysOut ==
  ASSUME export \in Exports, NEW up, Upward(up), NEW n \in Nat, up[n] \notin Names, NEW k \in Nat, k >= n
  PROVE  up[k] \notin Names
<1> DEFINE G == {i \in Nat : up[n + i] \notin Names}
<1>1. 0 \in G
  OBVIOUS
<1>2. ASSUME NEW i \in Nat, i \in G PROVE i + 1 \in G
  <2>1. n + i \in Nat /\ n + (i + 1) = (n + i) + 1
    OBVIOUS
  <2>2. up[(n + i) + 1] = None
    BY <1>2, <2>1 DEF Upward
  <2>3. None \notin Names
    BY NamesAreIds
  <2>4. up[n + (i + 1)] \notin Names
    BY <2>1, <2>2, <2>3
  <2>. QED BY <2>4
<1>. HIDE DEF G
<1>3. \A i \in Nat : i \in G
  BY <1>1, <1>2, Upwards
<1>4. k - n \in Nat /\ n + (k - n) = k
  OBVIOUS
<1>5. k - n \in G
  BY <1>3, <1>4
<1>. QED BY <1>4, <1>5 DEF G

\* Ancestors are what is met on the way up.
LEMMA AncestorsAreMet ==
  ASSUME export \in Exports, NEW up, Upward(up), NEW i \in Nat, up[i] \in Names,
         NEW a \in Ancestors(up[i])
  PROVE  a \in Names /\ \E j \in Nat : j > i /\ a = up[j]
<1> DEFINE S == {b \in Names : \E j \in Nat : j > i /\ b = up[j]}
           Parents(T) == {Counts(b).parent : b \in T} \cap Names
<1>1. ASSUME NEW j \in Nat, j >= i, up[j] \in Names, Counts(up[j]).parent \in Names
      PROVE  Counts(up[j]).parent \in S
  <2>1. up[j + 1] = Counts(up[j]).parent /\ j + 1 \in Nat /\ j + 1 > i
    BY <1>1 DEF Upward
  <2>. QED BY <1>1, <2>1
<1>2. ASSUME NEW b \in S \cup {up[i]}, Counts(b).parent \in Names PROVE Counts(b).parent \in S
  <2>1. CASE b = up[i]
    BY <1>1, <1>2, <2>1
  <2>2. CASE b \in S
    <3>1. PICK j \in Nat : j > i /\ b = up[j] /\ b \in Names
      BY <2>2
    <3>2. j >= i
      BY <3>1
    <3>. QED BY <1>1, <1>2, <3>1, <3>2
  <2>. QED BY <1>2, <2>1, <2>2
<1>3. Parents(S \cup {up[i]}) \subseteq S /\ S \in SUBSET Names
  BY <1>2
<1>. HIDE DEF S
<1>4. a \in S /\ a \in Names
  BY <1>3 DEF Ancestors
<1>. QED BY <1>4 DEF S

LEMMA MetAreAncestors ==
  ASSUME export \in Exports, NEW up, Upward(up), NEW i \in Nat, NEW j \in Nat, i < j, up[j] \in Names
  PROVE  up[j] \in Ancestors(up[i])
<1> DEFINE Parents(T) == {Counts(b).parent : b \in T} \cap Names
<1>1. ASSUME NEW k \in Nat, k <= j PROVE up[k] \in Names
  BY <1>1, OutStaysOut
<1>2. ASSUME NEW S \in SUBSET Names, Parents(S \cup {up[i]}) \subseteq S PROVE up[j] \in S
  <2> DEFINE G == {k \in Nat : k <= j - i - 1 => up[i + 1 + k] \in S}
  <2>1. ASSUME NEW k \in Nat, k + 1 <= j, up[k] \in S \cup {up[i]} PROVE up[k + 1] \in S
    <3>1. up[k] \in Names /\ up[k + 1] \in Names
      BY <1>1, <2>1
    <3>2. up[k + 1] = Counts(up[k]).parent
      BY <2>1, <3>1 DEF Upward
    <3>3. Counts(up[k]).parent \in Parents(S \cup {up[i]})
      BY <2>1, <3>1, <3>2
    <3>. QED BY <1>2, <3>2, <3>3
  <2>2. 0 \in G
    <3>1. i + 1 <= j /\ i + 1 + 0 = i + 1
      OBVIOUS
    <3>. QED BY <2>1, <3>1
  <2>3. ASSUME NEW k \in Nat, k \in G PROVE k + 1 \in G
    <3>1. SUFFICES ASSUME k + 1 <= j - i - 1 PROVE up[i + 1 + (k + 1)] \in S
      OBVIOUS
    <3>2. k <= j - i - 1 /\ i + 1 + k \in Nat /\ (i + 1 + k) + 1 <= j
          /\ (i + 1 + k) + 1 = i + 1 + (k + 1)
      BY <3>1
    <3>3. up[i + 1 + k] \in S
      BY <2>3, <3>2
    <3>4. up[(i + 1 + k) + 1] \in S
      BY <2>1, <3>2, <3>3
    <3>. QED BY <3>2, <3>4
  <2>. HIDE DEF G
  <2>4. \A k \in Nat : k \in G
    BY <2>2, <2>3, Upwards
  <2>5. j - i - 1 \in Nat /\ i + 1 + (j - i - 1) = j
    OBVIOUS
  <2>6. j - i - 1 \in G
    BY <2>4, <2>5
  <2>7. j - i - 1 <= j - i - 1
    BY <2>5
  <2>. QED BY <2>5, <2>6, <2>7 DEF G
<1>. QED BY <1>2 DEF Ancestors

\* Who comes back to a name never leaves the names.
LEMMA NoWayBack ==
  ASSUME export \in Exports, NEW up, Upward(up), NEW h \in Nat, up[h] \notin Names,
         NEW i \in Nat, up[i] \in Names
  PROVE  up[i] \notin Ancestors(up[i])
<1>1. SUFFICES ASSUME up[i] \in Ancestors(up[i]) PROVE FALSE
  OBVIOUS
<1>2. PICK j \in Nat : j > i /\ up[j] = up[i]
  BY <1>1, AncestorsAreMet
<1> DEFINE G == {k \in Nat : up[i + k] = up[j + k]}
<1>3. 0 \in G
  BY <1>2
<1>4. ASSUME NEW k \in Nat, k \in G PROVE k + 1 \in G
  <2>1. /\ i + k \in Nat /\ j + k \in Nat
        /\ (i + k) + 1 = i + (k + 1) /\ (j + k) + 1 = j + (k + 1)
    OBVIOUS
  <2>2. up[i + k] = up[j + k]
    BY <1>4
  <2>3. up[(i + k) + 1] = up[(j + k) + 1]
    BY <2>1, <2>2 DEF Upward
  <2>4. up[i + (k + 1)] = up[j + (k + 1)]
    BY <2>1, <2>3
  <2>. QED BY <2>4
<1>. HIDE DEF G
<1>5. \A k \in Nat : k \in G
  BY <1>3, <1>4, Upwards
<1>6. \A k \in Nat : up[i + k] = up[j + k]
  BY <1>5 DEF G
<1> DEFINE Outside == {n \in Nat : up[n] \notin Names}
<1>7. PICK n \in Outside : \A k \in Outside : n <= k
  <2>1. Outside # {} /\ Outside \in SUBSET Nat
    OBVIOUS
  <2>. HIDE DEF Outside
  <2>. QED BY <2>1, Least
<1>8. n > i
  BY OutStaysOut
<1>9. n - 1 \in Nat /\ n - 1 \notin Outside
  BY <1>7, <1>8
<1>10. up[n - 1] \in Names
  BY <1>9
<1>11. (n - 1) - i \in Nat /\ i + ((n - 1) - i) = n - 1 /\ j + ((n - 1) - i) >= n
       /\ j + ((n - 1) - i) \in Nat
  BY <1>2, <1>8
<1>12. up[n - 1] = up[j + ((n - 1) - i)]
  BY <1>6, <1>11
<1>13. up[j + ((n - 1) - i)] \notin Names
  BY <1>7, <1>11, OutStaysOut
<1>. QED BY <1>10, <1>12, <1>13

-----------------------------------------------------------------------------
(* The current path *)

\* One more name than there are: one comes twice.
LEMMA CyclicLoops ==
  ASSUME export \in Exports, NEW c, c.nodes = Nodes(export.mapping), c.current = export.current,
         Cyclic(c)
  PROVE  Start(c) \in Names /\ Looping(Start(c))
<1> DEFINE N == Cardinality(Names)
<1>1. PICK up : /\ Upward(up) /\ up[0] = Start(c)
                /\ Walk(c) = [n \in 0..N |-> up[n]]
  BY WalkGoesUp
<1>2. IsFiniteSet(Names) /\ Names = Ids(c.nodes)
  BY NamesAreIds
<1>3. N \in Nat
  BY <1>2, FS_CardinalityType
<1>. HIDE DEF N
<1>4. \A n \in 0..N : up[n] \in Names
  BY <1>1, <1>2 DEF Cyclic
<1> DEFINE f == [n \in 0..N |-> up[n]]
<1>5. f \in [0..N -> Names]
  BY <1>4
<1>6. IsFiniteSet(0..N) /\ Cardinality(0..N) = N + 1
  BY <1>3, FS_Interval
<1>7. Cardinality(Names) < Cardinality(0..N)
  BY <1>3, <1>6 DEF N
<1>. HIDE DEF f
<1>8. \E x, y \in 0..N : x # y /\ f[x] = f[y]
  <2> DEFINE S == 0..N
             T == Names
  <2>1. IsFiniteSet(S) /\ IsFiniteSet(T) /\ Cardinality(T) < Cardinality(S) /\ f \in [S -> T]
    BY <1>2, <1>5, <1>6, <1>7
  <2>. HIDE DEF S, T
  <2>2. \E x, y \in S : x # y /\ f[x] = f[y]
    BY <2>1, FS_PigeonHole
  <2>. QED BY <2>2 DEF S
<1>9. PICK i \in 0..N, j \in 0..N : i < j /\ up[i] = up[j]
  <2>1. PICK x \in 0..N, y \in 0..N : x # y /\ f[x] = f[y]
    BY <1>8
  <2>2. up[x] = up[y]
    BY <2>1 DEF f
  <2>3. x < y \/ y < x
    BY <1>3, <2>1
  <2>. QED BY <2>2, <2>3
<1>10. i \in Nat /\ j \in Nat
  BY <1>3
<1>11. up[j] \in Ancestors(up[i])
  BY <1>1, <1>4, <1>9, <1>10, MetAreAncestors
<1>12. up[i] \in Lineage(up[0])
  <2>1. CASE i = 0
    BY <2>1 DEF Lineage
  <2>2. CASE i # 0
    <3>1. 0 \in Nat /\ 0 < i
      BY <1>10, <2>2
    <3>2. up[i] \in Ancestors(up[0])
      BY <1>1, <1>4, <1>10, <3>1, MetAreAncestors
    <3>. QED BY <3>2 DEF Lineage
  <2>. QED BY <2>1, <2>2
<1>13. 0 \in 0..N
  BY <1>3
<1>. QED BY <1>1, <1>4, <1>9, <1>11, <1>12, <1>13 DEF Looping

LEMMA PathIs ==
  ASSUME export \in Exports, NEW c, c.nodes = Nodes(export.mapping), c.current = export.current,
         ~Cyclic(c),
         NEW up, Upward(up), Walk(c) = [n \in 0..Cardinality(Names) |-> up[n]]
  PROVE  \E h \in Nat : /\ \A n \in Nat : n < h <=> up[n] \in Names
                        /\ CurrentPath(c) = [i \in 1..h |-> ById(c.nodes, up[h - i])]
<1> DEFINE N == Cardinality(Names)
           Outside == {n \in Nat : up[n] \notin Names}
<1>1. IsFiniteSet(Names) /\ Names = Ids(c.nodes)
  BY NamesAreIds
<1>2. N \in Nat
  BY <1>1, FS_CardinalityType
<1>3. PICK m \in 0..N : up[m] \notin Names
  BY <1>1 DEF Cyclic
<1>4. m \in Outside
  BY <1>2, <1>3
<1>5. PICK h \in Outside : \A k \in Outside : h <= k
  <2>1. Outside \in SUBSET Nat
    OBVIOUS
  <2>. HIDE DEF Outside
  <2>. QED BY <1>4, <2>1, Least
<1>6. h \in Nat /\ h <= N /\ up[h] \notin Names
  BY <1>2, <1>4, <1>5
<1>7. \A n \in Nat : n < h <=> up[n] \in Names
  <2>1. ASSUME NEW n \in Nat, n < h PROVE up[n] \in Names
    BY <1>5, <1>6, <2>1
  <2>2. ASSUME NEW n \in Nat, up[n] \in Names PROVE n < h
    <3>1. SUFFICES ASSUME n >= h PROVE FALSE
      BY <1>6
    <3>. QED BY <1>6, <2>2, <3>1, OutStaysOut
  <2>. QED BY <2>1, <2>2
<1>. HIDE DEF Outside, N
<1> DEFINE steps == {n \in DOMAIN Walk(c) : Walk(c)[n] \in Ids(c.nodes)}
<1>8. Walk(c) = [n \in 0..N |-> up[n]]
  BY DEF N
<1>9. steps = 0..(h - 1)
  <2>1. steps = {n \in 0..N : up[n] \in Names}
    BY <1>1, <1>8
  <2>2. \A n \in 0..N : up[n] \in Names <=> n \in 0..(h - 1)
    BY <1>2, <1>6, <1>7
  <2>3. 0..(h - 1) \subseteq 0..N
    BY <1>2, <1>6
  <2>. QED BY <2>1, <2>2, <2>3
<1>10. Cardinality(steps) = h
  <2>1. Cardinality(0..(h - 1)) = h
    BY <1>6, FS_Interval
  <2>. QED BY <1>9, <2>1
<1> DEFINE s == [i \in 1..h |-> ById(c.nodes, Walk(c)[i - 1])]
<1>11. CurrentPath(c) = Reverse(s)
  <2>1. CurrentPath(c) = Reverse([i \in 1..Cardinality(steps) |-> ById(c.nodes, Walk(c)[i - 1])])
    BY DEF CurrentPath
  <2>. HIDE DEF steps
  <2>. QED BY <1>10, <2>1
<1>12. Len(s) = h
  BY <1>6
<1>13. ASSUME NEW i \in 1..h PROVE s[(h - i) + 1] = ById(c.nodes, up[h - i])
  <2>1. (h - i) + 1 \in 1..h /\ ((h - i) + 1) - 1 = h - i /\ h - i \in 0..N
    BY <1>2, <1>6
  <2>2. Walk(c)[h - i] = up[h - i]
    BY <1>8, <2>1
  <2>3. s[(h - i) + 1] = ById(c.nodes, Walk(c)[((h - i) + 1) - 1])
    BY <2>1
  <2>. QED BY <2>1, <2>2, <2>3
<1>. HIDE DEF s
<1>14. Reverse(s) = [i \in 1..h |-> s[(h - i) + 1]]
  BY <1>12 DEF Reverse
<1>15. Reverse(s) = [i \in 1..h |-> ById(c.nodes, up[h - i])]
  BY <1>13, <1>14
<1>. QED BY <1>6, <1>7, <1>11, <1>15

HasText(a) == Counts(a).message.role # "unknown" /\ Counts(a).message.text

LineageOf(id) == IF id \in Names THEN Lineage(id) ELSE {}

\* Lineage is what is met before the names are left.
LEMMA LineageIsMet ==
  ASSUME export \in Exports, NEW up, Upward(up), NEW h \in Nat,
         \A n \in Nat : n < h <=> up[n] \in Names
  PROVE  /\ LineageOf(up[0]) = {up[n] : n \in 0..(h - 1)}
         /\ LineageOf(up[0]) # {} => ~Looping(up[0])
<1>1. CASE h = 0
  <2>1. up[0] \notin Names /\ 0..(h - 1) = {}
    BY <1>1
  <2>. QED BY <2>1 DEF LineageOf
<1>2. CASE h # 0
  <2>1. up[0] \in Names /\ 0 \in 0..(h - 1) /\ 0 \in Nat
    BY <1>2
  <2>2. ASSUME NEW a \in Ancestors(up[0]) PROVE a \in {up[n] : n \in 0..(h - 1)}
    <3>1. PICK j \in Nat : a \in Names /\ a = up[j]
      BY <2>1, <2>2, AncestorsAreMet
    <3>2. j < h
      BY <3>1
    <3>. QED BY <3>1, <3>2
  <2>3. ASSUME NEW n \in 0..(h - 1) PROVE up[n] \in Lineage(up[0])
    <3>1. n \in Nat /\ n < h /\ up[n] \in Names
      OBVIOUS
    <3>2. CASE n = 0
      BY <3>2 DEF Lineage
    <3>3. CASE n # 0
      <4>1. 0 < n
        BY <3>1, <3>3
      <4>2. up[n] \in Ancestors(up[0])
        BY <2>1, <3>1, <4>1, MetAreAncestors
      <4>. QED BY <4>2 DEF Lineage
    <3>. QED BY <3>2, <3>3
  <2>4. Lineage(up[0]) = {up[n] : n \in 0..(h - 1)}
    BY <2>1, <2>2, <2>3 DEF Lineage
  <2>5. ASSUME NEW a \in Lineage(up[0]) PROVE a \notin Ancestors(a)
    <3>1. PICK n \in 0..(h - 1) : a = up[n]
      BY <2>4, <2>5
    <3>2. n \in Nat /\ up[n] \in Names /\ up[h] \notin Names
      OBVIOUS
    <3>. QED BY <3>1, <3>2, NoWayBack
  <2>. QED BY <2>1, <2>4, <2>5 DEF LineageOf, Looping
<1>. QED BY <1>1, <1>2

\* A name that is followed to nothing that is there was warned about.
LEMMA MissingIsWarned ==
  ASSUME export \in Exports, NEW a \in Names, Counts(a).parent \notin Names \cup {None}
  PROVE  Counts(a).parent \in MissingParents(Nodes(export.mapping))
<1> DEFINE nodes == Nodes(export.mapping)
<1>1. Names = Ids(nodes)
  BY NamesAreIds
<1>2. PICK k \in DOMAIN nodes : Node(Counts(a)) = nodes[k]
  BY ByIdCounts
<1>3. Node(Counts(a)).parent = Counts(a).parent
  BY DEF Node
<1>. HIDE DEF nodes
<1>4. nodes[k].parent = Counts(a).parent
  BY <1>2, <1>3
<1>5. Counts(a).parent \in MissingParents(nodes)
  BY <1>1, <1>2, <1>4 DEF MissingParents
<1>. QED BY <1>5 DEF nodes

\* What evidence tells of an export, from the name where the path ends.
Tells(e, id) ==
  /\ LineageOf(id) # {} => ~Looping(id)
  /\ {e[i].id : i \in DOMAIN e} = {a \in LineageOf(id) : HasText(a)}
  /\ \A i, j \in DOMAIN e : i < j => e[i].id \in Ancestors(e[j].id)

LEMMA EvidenceOfLineage ==
  ASSUME export \in Exports, NEW c, c.nodes = Nodes(export.mapping), c.current = export.current,
         ~Cyclic(c)
  PROVE  Tells(Evidence(CurrentPath(c)), Start(c))
<1>1. PICK up : /\ Upward(up) /\ up[0] = Start(c)
                /\ Walk(c) = [n \in 0..Cardinality(Names) |-> up[n]]
  BY WalkGoesUp
<1>2. PICK h \in Nat : /\ \A n \in Nat : n < h <=> up[n] \in Names
                       /\ CurrentPath(c) = [i \in 1..h |-> ById(c.nodes, up[h - i])]
  BY <1>1, PathIs, SMTT(30)
<1> DEFINE path == CurrentPath(c)
           I == {i \in DOMAIN path : path[i].role # "unknown" /\ path[i].text}
           e == Filtered(path, I)
<1>3. Evidence(path) = e
  BY DEF Evidence
<1>4. ASSUME NEW i \in 1..h
      PROVE  h - i \in 0..(h - 1) /\ up[h - i] \in Names
  BY <1>2
<1>5. ASSUME NEW i \in 1..h
      PROVE  /\ path[i] = Node(Counts(up[h - i])) /\ path[i].id = up[h - i]
             /\ path[i] \in ExportedNode
  <2> DEFINE id == up[h - i]
             nodes == Nodes(export.mapping)
  <2>1. path[i] = ById(nodes, id)
    BY <1>2
  <2>2. id \in Names
    BY <1>4
  <2>3. nodes \in Seq(ExportedNode)
    BY ExportType, NodesAreRead
  <2>. HIDE DEF id
  <2>4. /\ ById(nodes, id) = Node(Counts(id)) /\ ById(nodes, id).id = id
        /\ \E k \in DOMAIN nodes : ById(nodes, id) = nodes[k]
    BY <2>2, ByIdCounts
  <2>. HIDE DEF nodes, path
  <2>5. path[i] \in ExportedNode
    <3>1. PICK k \in DOMAIN nodes : path[i] = nodes[k]
      BY <2>1, <2>4
    <3>2. nodes[k] \in ExportedNode
      BY <2>3
    <3>. QED BY <3>1, <3>2
  <2>. QED BY <2>1, <2>4, <2>5 DEF id
<1>6. path \in Seq(ExportedNode) /\ Len(path) = h /\ DOMAIN path = 1..h
  <2>1. DOMAIN path = 1..h /\ path = [i \in 1..h |-> path[i]]
    BY <1>2
  <2>. HIDE DEF path
  <2>2. path \in [1..h -> ExportedNode]
    BY <1>5, <2>1
  <2>. QED BY <1>2, <2>1, <2>2
<1>. HIDE DEF path
<1>7. ASSUME NEW i \in 1..h PROVE i \in I <=> HasText(up[h - i])
  <2> DEFINE x == Counts(up[h - i])
  <2>1. path[i] = Node(x)
    BY <1>5
  <2>2. Node(x).role = x.message.role /\ Node(x).text = x.message.text
    BY DEF Node
  <2>3. HasText(up[h - i]) <=> (x.message.role # "unknown" /\ x.message.text)
    BY DEF HasText
  <2>4. i \in I <=> (path[i].role # "unknown" /\ path[i].text)
    BY <1>6
  <2>. HIDE DEF x, I
  <2>. QED BY <2>1, <2>2, <2>3, <2>4
<1>8. I \in SUBSET DOMAIN path
  OBVIOUS
<1>. HIDE DEF I
<1>9. e \in Seq(ExportedNode) /\ \E at : TakenFrom(e, path, I, at)
  BY <1>6, <1>8, FilteredIsTaken
<1>. HIDE DEF e
<1>10. PICK at : TakenFrom(e, path, I, at)
  BY <1>9
<1>11. DOMAIN e = 1..Len(e) /\ Len(e) \in Nat
  BY <1>9
<1>12. ASSUME NEW k \in 1..Len(e)
       PROVE  at[k] \in 1..h /\ at[k] \in I /\ e[k].id = up[h - at[k]]
  <2>1. at[k] \in I /\ e[k] = path[at[k]]
    BY <1>10 DEF TakenFrom
  <2>2. at[k] \in 1..h
    BY <1>6, <1>8, <2>1
  <2>. QED BY <1>5, <2>1, <2>2
<1>13. /\ LineageOf(up[0]) = {up[n] : n \in 0..(h - 1)}
       /\ LineageOf(up[0]) # {} => ~Looping(up[0])
  BY <1>1, <1>2, LineageIsMet
<1>14. ASSUME NEW k \in DOMAIN e PROVE e[k].id \in {a \in LineageOf(up[0]) : HasText(a)}
  <2>1. at[k] \in 1..h /\ at[k] \in I /\ e[k].id = up[h - at[k]]
    BY <1>11, <1>12
  <2>2. h - at[k] \in 0..(h - 1) /\ HasText(up[h - at[k]])
    BY <1>4, <1>7, <2>1
  <2>. QED BY <1>13, <2>1, <2>2
<1>15. ASSUME NEW a \in LineageOf(up[0]), HasText(a) PROVE \E k \in DOMAIN e : e[k].id = a
  <2>1. PICK n \in 0..(h - 1) : a = up[n]
    BY <1>13
  <2>2. h - n \in 1..h /\ h - (h - n) = n
    BY <1>2, <2>1
  <2>3. h - n \in I
    BY <1>7, <1>15, <2>1, <2>2
  <2>4. PICK k \in 1..Len(e) : at[k] = h - n
    BY <1>10, <2>3 DEF TakenFrom
  <2>5. e[k].id = up[h - (h - n)]
    BY <1>12, <2>4
  <2>. QED BY <1>11, <2>1, <2>2, <2>5
<1>16. {e[i].id : i \in DOMAIN e} = {a \in LineageOf(up[0]) : HasText(a)}
  BY <1>14, <1>15
<1>17. ASSUME NEW i \in DOMAIN e, NEW j \in DOMAIN e, i < j PROVE e[i].id \in Ancestors(e[j].id)
  <2>1. at[i] < at[j]
    BY <1>10, <1>11, <1>17 DEF TakenFrom
  <2>2. /\ at[i] \in 1..h /\ e[i].id = up[h - at[i]]
        /\ at[j] \in 1..h /\ e[j].id = up[h - at[j]]
    BY <1>11, <1>12
  <2>3. h - at[j] \in Nat /\ h - at[i] \in Nat /\ h - at[j] < h - at[i]
    BY <2>1, <2>2
  <2>4. up[h - at[i]] \in Names
    BY <1>4, <2>2
  <2>5. up[h - at[i]] \in Ancestors(up[h - at[j]])
    BY <1>1, <2>3, <2>4, MetAreAncestors
  <2>. QED BY <2>2, <2>5
<1>18. Tells(e, up[0])
  BY <1>13, <1>16, <1>17 DEF Tells
<1>. QED BY <1>1, <1>3, <1>18 DEF path

\* An export is read once, and its current path is what is taken from it.
ExportInv ==
  LET all == Conversation(None) IN
    /\ export \in Exports
    /\ \/ parsed = None
       \/ parsed = [refused |-> "LIMIT_EXCEEDED"]
       \/ parsed = [refused |-> "MALFORMED"] /\ Cyclic(all)
       \/ parsed = all
       \/ ~Cyclic(all) /\ parsed = Conversation(Evidence(CurrentPath(all)))

LEMMA ConversationIs ==
  ASSUME NEW e
  PROVE  /\ DOMAIN Conversation(e) = {"nodes", "current", "warnings", "evidence"}
         /\ Conversation(e).nodes = Nodes(export.mapping)
         /\ Conversation(e).current = export.current
         /\ Conversation(e).warnings.missing = MissingParents(Nodes(export.mapping))
         /\ Conversation(e).evidence = e
         /\ \A x : [Conversation(e) EXCEPT !.evidence = x] = Conversation(x)
<1> DEFINE nodes == Nodes(export.mapping)
           missing == MissingParents(nodes)
           warnings == [duplicate |-> Duplicates(nodes), missing |-> missing,
                        branchPoints |-> Cardinality(Branches(nodes))]
           C(x) == [nodes |-> nodes, current |-> export.current, warnings |-> warnings, evidence |-> x]
<1>1. \A x : Conversation(x) = C(x)
  BY DEF Conversation
<1>2. warnings.missing = missing
  OBVIOUS
<1>. HIDE DEF warnings, missing, nodes
<1>3. /\ DOMAIN C(e) = {"nodes", "current", "warnings", "evidence"}
      /\ C(e).nodes = nodes /\ C(e).current = export.current
      /\ C(e).warnings = warnings /\ C(e).evidence = e
  OBVIOUS
<1>4. \A x : [C(e) EXCEPT !.evidence = x] = C(x)
  OBVIOUS
<1>. HIDE DEF C
<1>5. Conversation(e) = C(e)
  BY <1>1
<1>. QED BY <1>1, <1>2, <1>3, <1>4, <1>5 DEF missing, nodes

LEMMA ExportInvariant == ExportSpec => []ExportInv
<1>1. ExportInit => ExportInv
  BY DEF ExportInit, ExportInv
<1>2. ASSUME ExportInv, [ExportNext]_exportVars PROVE ExportInv'
  <2> DEFINE all == Conversation(None)
             told == Conversation(Evidence(CurrentPath(all)))
  <2>1. CASE ParseConversation
    <3>1. export' = export /\ export \in Exports
      BY <1>2, <2>1 DEF ParseConversation, ExportInv
    <3>2. parsed' = [refused |-> "LIMIT_EXCEEDED"] \/ parsed' = Conversation(None)
      BY <2>1 DEF ParseConversation, Conversation
    <3>3. Conversation(None)' = Conversation(None)
      BY <3>1 DEF Conversation
    <3>. QED BY <3>1, <3>2, <3>3 DEF ExportInv
  <2>2. CASE SelectCurrentPath
    <3>1. export' = export /\ export \in Exports
      BY <1>2, <2>2 DEF SelectCurrentPath, ExportInv
    <3>2. parsed # None /\ "evidence" \in DOMAIN parsed /\ parsed.evidence = None
      BY <2>2 DEF SelectCurrentPath
    <3>3. parsed = all
      <4>1. ASSUME NEW code, parsed = [refused |-> code] PROVE FALSE
        BY <3>2, <4>1
      <4>2. ASSUME NEW e, parsed = Conversation(e) PROVE e = None
        BY <3>2, <4>2, ConversationIs
      <4>. HIDE DEF all
      <4>. QED BY <1>2, <3>2, <4>1, <4>2 DEF ExportInv, all
    <3>4. \/ Cyclic(all) /\ parsed' = [refused |-> "MALFORMED"]
          \/ ~Cyclic(all) /\ parsed' = told
      <4>1. [all EXCEPT !.evidence = Evidence(CurrentPath(all))] = told
        BY ConversationIs
      <4>. HIDE DEF all, told
      <4>. QED BY <2>2, <3>3, <4>1 DEF SelectCurrentPath
    <3>5. all' = all
      BY <3>1 DEF Conversation
    <3>6. Cyclic(all)' <=> Cyclic(all)
      BY <3>5 DEF Cyclic, Walk, Start
    <3>7. told' = told
      BY <3>1, <3>5 DEF Conversation, CurrentPath, Walk, Start
    <3>. HIDE DEF told
    <3>. QED BY <3>1, <3>4, <3>5, <3>6, <3>7 DEF ExportInv, told
  <2>3. CASE UNCHANGED exportVars
    <3>1. export' = export /\ parsed' = parsed
      BY <2>3 DEF exportVars
    <3>2. all' = all
      BY <3>1 DEF Conversation
    <3>3. (Cyclic(all)' <=> Cyclic(all)) /\ told' = told
      BY <3>1, <3>2 DEF Conversation, Cyclic, CurrentPath, Walk, Start
    <3>. QED BY <1>2, <3>1, <3>2, <3>3 DEF ExportInv
  <2>. QED BY <1>2, <2>1, <2>2, <2>3 DEF ExportNext
<1>. QED BY <1>1, <1>2, PTL DEF ExportSpec

\* What is taken from an export as evidence is the lineage of its current message, or of
\* one that nobody answered, oldest first, and only a lineage that comes back to itself is
\* refused as malformed (parseConversation and selectCurrentPath).
THEOREM EvidenceIsLineage == ExportSpec => []EvidenceIsTheCurrentPath
<1> DEFINE all == Conversation(None)
           from == Start(all)
           evidence == Evidence(CurrentPath(all))
           answered == {export.mapping[i].parent :
                          i \in {i \in DOMAIN export.mapping : export.mapping[i].message # None}}
           leaves == Names \ answered
           ends == IF export.current # None THEN {export.current}
                   ELSE IF leaves = {} THEN {None} ELSE leaves
           refused == parsed # None /\ "refused" \in DOMAIN parsed
           taken == parsed # None /\ ~refused /\ parsed.evidence # None
<1>1. /\ all.nodes = Nodes(export.mapping) /\ all.current = export.current
      /\ \A e : /\ DOMAIN Conversation(e) = {"nodes", "current", "warnings", "evidence"}
                /\ Conversation(e).evidence = e
                /\ Conversation(e).warnings.missing = MissingParents(Nodes(export.mapping))
  BY ConversationIs
<1>2. ASSUME ExportInv, parsed # None, "refused" \in DOMAIN parsed, parsed.refused = "MALFORMED"
      PROVE  export \in Exports /\ Cyclic(all)
  <2>1. ASSUME NEW e, parsed = Conversation(e) PROVE FALSE
    BY <1>1, <1>2, <2>1
  <2>2. parsed # [refused |-> "LIMIT_EXCEEDED"]
    BY <1>2
  <2>. HIDE DEF all
  <2>. QED BY <1>2, <2>1, <2>2 DEF ExportInv, all
<1>3. ASSUME ExportInv, parsed # None, "refused" \notin DOMAIN parsed, parsed.evidence # None
      PROVE  /\ export \in Exports /\ ~Cyclic(all) /\ parsed.evidence = evidence
             /\ parsed.warnings.missing = MissingParents(Nodes(export.mapping))
  <2>1. ASSUME NEW code, parsed = [refused |-> code] PROVE FALSE
    BY <1>3, <2>1
  <2>2. parsed # all
    BY <1>1, <1>3
  <2>3. export \in Exports /\ ~Cyclic(all) /\ parsed = Conversation(evidence)
    <3>. HIDE DEF all
    <3>. QED BY <1>3, <2>1, <2>2 DEF ExportInv, all
  <2>. HIDE DEF evidence, all
  <2>. QED BY <1>1, <2>3
<1>. HIDE DEF all
<1>4. ASSUME ExportInv, refused, parsed.refused = "MALFORMED"
      PROVE  IF export.current = None THEN \E id \in Names : Looping(id)
             ELSE export.current \in Names /\ Looping(export.current)
  <2>1. export \in Exports /\ Cyclic(all)
    BY <1>2, <1>4
  <2>2. from \in Names /\ Looping(from)
    BY <1>1, <2>1, CyclicLoops
  <2>3. export.current # None => from = export.current
    BY <1>1, <2>1, StartIs
  <2>. HIDE DEF from
  <2>. QED BY <2>2, <2>3
<1>5. ASSUME ExportInv, taken
      PROVE  /\ Tells(parsed.evidence, from) /\ from \in ends
             /\ \A a \in LineageOf(from) :
                  Counts(a).parent \notin Names \cup {None} =>
                    Counts(a).parent \in parsed.warnings.missing
  <2>1. /\ export \in Exports /\ ~Cyclic(all) /\ parsed.evidence = evidence
        /\ parsed.warnings.missing = MissingParents(Nodes(export.mapping))
    BY <1>3, <1>5
  <2>2. Tells(evidence, from)
    BY <1>1, <2>1, EvidenceOfLineage
  <2>3. /\ export.current # None => from = export.current
        /\ export.current = None => IF leaves = {} THEN from = None ELSE from \in leaves
    BY <1>1, <2>1, StartIs
  <2>. HIDE DEF evidence, from
  <2>4. from \in ends
    <3>. HIDE DEF leaves
    <3>. QED BY <2>3
  <2>5. LineageOf(from) \subseteq Names
    BY DEF LineageOf, Lineage, Ancestors
  <2>6. ASSUME NEW a \in LineageOf(from), Counts(a).parent \notin Names \cup {None}
        PROVE  Counts(a).parent \in parsed.warnings.missing
    BY <2>1, <2>5, <2>6, MissingIsWarned
  <2>. QED BY <2>1, <2>2, <2>4, <2>6
<1>. HIDE DEF from, ends
<1>6. ASSUME ExportInv, taken
      PROVE  \E id \in ends :
               LET told(a) == Counts(a).message.role # "unknown" /\ Counts(a).message.text
                   ids == [i \in DOMAIN parsed.evidence |-> parsed.evidence[i].id]
                   lineage == IF id \in Names THEN Lineage(id) ELSE {}
               IN /\ lineage # {} => ~Looping(id)
                  /\ {ids[i] : i \in DOMAIN ids} = {a \in lineage : told(a)}
                  /\ \A i, j \in DOMAIN ids : i < j => ids[i] \in Ancestors(ids[j])
                  /\ \A a \in lineage :
                       Counts(a).parent \notin Names \cup {None} =>
                         Counts(a).parent \in parsed.warnings.missing
  <2> DEFINE ids == [i \in DOMAIN parsed.evidence |-> parsed.evidence[i].id]
  <2>1. /\ DOMAIN ids = DOMAIN parsed.evidence
        /\ \A i \in DOMAIN ids : ids[i] = parsed.evidence[i].id
    OBVIOUS
  <2>2. Tells(parsed.evidence, from) /\ from \in ends
    BY <1>5, <1>6
  <2>. HIDE DEF ids
  <2>3. {ids[i] : i \in DOMAIN ids} = {a \in LineageOf(from) : HasText(a)}
    BY <2>1, <2>2 DEF Tells
  <2>4. \A i, j \in DOMAIN ids : i < j => ids[i] \in Ancestors(ids[j])
    BY <2>1, <2>2 DEF Tells
  <2>5. LineageOf(from) # {} => ~Looping(from)
    BY <2>2 DEF Tells
  <2>6. \A a \in LineageOf(from) :
          Counts(a).parent \notin Names \cup {None} =>
            Counts(a).parent \in parsed.warnings.missing
    BY <1>5, <1>6
  <2>. QED BY <2>2, <2>3, <2>4, <2>5, <2>6 DEF LineageOf, HasText, ids
<1>7. ExportInv => EvidenceIsTheCurrentPath
  BY <1>4, <1>6 DEF EvidenceIsTheCurrentPath, ends
<1>. QED BY <1>7, ExportInvariant, PTL
=============================================================================
