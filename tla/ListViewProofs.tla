-------------------------- MODULE ListViewProofs --------------------------
(***************************************************************************)
(* Proofs about the list page, for any number of chores and any calendar:  *)
(* what the sort and the one-pass loop of Sections compute for every       *)
(* table, and that what they compute stays true while the page grows old.  *)
(*                                                                         *)
(* The theorems of induction cannot be used here.  Least takes their       *)
(* place: a set of numbers that is not empty has a least element.          *)
(***************************************************************************)
EXTENDS ListView, ChoreProofs, FiniteSetTheorems, FunctionTheorems, WellFoundedInduction, TLAPS

LEMMA Least ==
  ASSUME NEW T \in SUBSET Nat, T # {}
  PROVE  \E m \in T : \A n \in T : m <= n
<1> DEFINE F == {0 .. m : m \in T}
<1>1. ASSUME NEW m \in T PROVE 0 .. m \in FiniteSubsetsOf(Nat)
  BY FS_Interval DEF FiniteSubsetsOf
<1>2. F \subseteq FiniteSubsetsOf(Nat) /\ F # {}
  BY <1>1
<1>3. PICK X \in F : \A Y \in F : <<Y, X>> \notin StrictSubsetOrdering(Nat)
  BY <1>2, FS_StrictSubsetOrderingWellFounded, WFMin
<1>4. PICK m \in T : X = 0 .. m
  OBVIOUS
<1>5. ASSUME NEW n \in T, n < m PROVE FALSE
  <2>1. 0 .. n \subseteq 0 .. m /\ m \in 0 .. m /\ m \notin 0 .. n
    BY <1>5
  <2>2. 0 .. n \in SUBSET Nat /\ 0 .. m \in SUBSET Nat /\ 0 .. n # 0 .. m
    BY <2>1
  <2>3. <<0 .. n, 0 .. m>> \in StrictSubsetOrdering(Nat)
    BY <2>1, <2>2 DEF StrictSubsetOrdering
  <2> QED BY <1>3, <1>4, <2>3
<1> QED BY <1>5

-----------------------------------------------------------------------------
(* The sort *)

\* d comes before c.
Before(rows, d, c) ==
  \/ NextCompletion(rows[d]) < NextCompletion(rows[c])
  \/ NextCompletion(rows[d]) = NextCompletion(rows[c]) /\ d < c

LEMMA NextIsNumber ==
  ASSUME NEW row \in Row
  PROVE  NextCompletion(row) \in Int
BY RowNumbers DEF NextCompletion

LEMMA RowsOfChores ==
  ASSUME NEW rows \in Seq(Row)
  PROVE  /\ Len(rows) \in Nat
         /\ \A c \in 1 .. Len(rows) : rows[c] \in Row /\ NextCompletion(rows[c]) \in Int
         /\ Chores(rows) \subseteq 1 .. Len(rows)
         /\ IsFiniteSet(Chores(rows)) /\ Cardinality(Chores(rows)) \in Nat
<1>1. Len(rows) \in Nat /\ \A c \in 1 .. Len(rows) : rows[c] \in Row
  OBVIOUS
<1>2. Chores(rows) \subseteq 1 .. Len(rows)
  BY DEF Chores
<1>3. IsFiniteSet(1 .. Len(rows))
  BY <1>1, FS_Interval
<1>4. IsFiniteSet(Chores(rows))
  BY <1>2, <1>3, FS_Subset
<1>5. Cardinality(Chores(rows)) \in Nat
  BY <1>4, FS_CardinalityType
<1> QED BY <1>1, <1>2, <1>4, <1>5, NextIsNumber

\* How many chores are in front tells two chores apart, and is never too much.
LEMMA Ranks ==
  ASSUME NEW rows \in Seq(Row), NEW c \in Chores(rows)
  PROVE  /\ IsFiniteSet(InFront(rows, c))
         /\ Cardinality(InFront(rows, c)) \in 0 .. Cardinality(Chores(rows)) - 1
         /\ \A d \in Chores(rows) : Before(rows, d, c) =>
              Cardinality(InFront(rows, d)) < Cardinality(InFront(rows, c))
<1> DEFINE S == Chores(rows)
           N(d) == NextCompletion(rows[d])
<1>1. /\ S \subseteq 1 .. Len(rows) /\ IsFiniteSet(S) /\ Cardinality(S) \in Nat
      /\ Len(rows) \in Nat /\ \A d \in S : N(d) \in Int
  BY RowsOfChores
<1>2. ASSUME NEW d \in S
      PROVE  InFront(rows, d) \subseteq S \ {d} /\ IsFiniteSet(InFront(rows, d))
             /\ Cardinality(InFront(rows, d)) \in Nat
  <2>1. InFront(rows, d) \subseteq S \ {d}
    BY <1>1 DEF InFront
  <2>2. IsFiniteSet(InFront(rows, d))
    BY <1>1, <2>1, FS_Subset
  <2> QED BY <2>1, <2>2, FS_CardinalityType
<1>3. Cardinality(InFront(rows, c)) < Cardinality(S)
  <2>1. Cardinality(InFront(rows, c)) <= Cardinality(S \ {c})
    BY <1>1, <1>2, FS_RemoveElement, FS_Subset
  <2>2. Cardinality(S \ {c}) = Cardinality(S) - 1
    BY <1>1, FS_RemoveElement
  <2> QED BY <1>1, <1>2, <2>1, <2>2
<1>4. ASSUME NEW d \in S, Before(rows, d, c)
      PROVE  Cardinality(InFront(rows, d)) < Cardinality(InFront(rows, c))
  <2>1. InFront(rows, d) \subseteq InFront(rows, c)
    BY <1>1, <1>4 DEF InFront, Before
  <2>2. d \in InFront(rows, c) /\ d \notin InFront(rows, d)
    BY <1>2, <1>4 DEF InFront, Before
  <2>3. /\ Cardinality(InFront(rows, d)) <= Cardinality(InFront(rows, c))
        /\ Cardinality(InFront(rows, d)) # Cardinality(InFront(rows, c))
    BY <1>2, <2>1, <2>2, FS_Subset
  <2> QED BY <1>2, <2>3
<1> QED BY <1>1, <1>2, <1>3, <1>4

\* The sort loses no chore, repeats none, and puts them in the order of their due dates,
\* those of one day as the query returned them.
LEMMA Sorted ==
  ASSUME NEW rows \in Seq(Row)
  PROVE  LET s == ByDue(rows) IN
         /\ s \in Seq(Chores(rows))
         /\ Len(s) = Cardinality(Chores(rows))
         /\ \A c \in Chores(rows) : \E k \in 1 .. Len(s) : s[k] = c
         /\ \A k, m \in 1 .. Len(s) : k < m => Before(rows, s[k], s[m])
         /\ \A k, m \in 1 .. Len(s) : s[k] = s[m] => k = m
<1> DEFINE S == Chores(rows)
           n == Cardinality(S)
           s == ByDue(rows)
           rank == [c \in S |-> Cardinality(InFront(rows, c)) + 1]
<1>1. /\ S \subseteq 1 .. Len(rows) /\ IsFiniteSet(S) /\ n \in Nat
      /\ \A c \in S : NextCompletion(rows[c]) \in Int
  BY RowsOfChores
<1>2. \A c, d \in S : c = d \/ Before(rows, c, d) \/ Before(rows, d, c)
  BY <1>1 DEF Before
<1>3. \A c \in S : Cardinality(InFront(rows, c)) \in 0 .. n - 1
  BY Ranks
<1>4. rank \in [S -> 1 .. n]
  BY <1>1, <1>3
<1>5. \A c, d \in S : Before(rows, d, c) => rank[d] < rank[c]
  BY <1>1, <1>3, Ranks
<1>6. rank \in Injection(S, 1 .. n)
  <2>1. \A c, d \in S : rank[c] = rank[d] => c = d
    BY <1>1, <1>2, <1>4, <1>5
  <2> QED BY <1>4, <2>1 DEF Injection, IsInjective
<1>7. rank \in Surjection(S, 1 .. n)
  BY <1>1, <1>6, FS_Interval, FS_Injection
<1>8. \A p \in 1 .. n : \E c \in S : Cardinality(InFront(rows, c)) = p - 1
  <2> TAKE p \in 1 .. n
  <2>1. PICK c \in S : rank[c] = p
    BY <1>7 DEF Surjection
  <2>2. Cardinality(InFront(rows, c)) + 1 = p
    BY <2>1
  <2> QED BY <1>1, <1>3, <2>2
<1>9. s = [p \in 1 .. n |-> CHOOSE c \in S : Cardinality(InFront(rows, c)) = p - 1]
  BY DEF ByDue
<1>10. \A p \in 1 .. n : s[p] \in S /\ Cardinality(InFront(rows, s[p])) = p - 1
  BY <1>8, <1>9
<1>11. s \in [1 .. n -> S] /\ \A p \in 1 .. n : rank[s[p]] = p
  BY <1>1, <1>9, <1>10
<1>12. s \in Seq(S) /\ Len(s) = n
  BY <1>1, <1>11
<1>13. \A c \in S : s[rank[c]] = c
  BY <1>4, <1>6, <1>11 DEF Injection, IsInjective
<1> HIDE DEF rank, s, n, S
<1>14. \A k, m \in 1 .. n : k < m => Before(rows, s[k], s[m])
  <2> SUFFICES ASSUME NEW k \in 1 .. n, NEW m \in 1 .. n, k < m PROVE Before(rows, s[k], s[m])
    OBVIOUS
  <2>1. s[k] \in S /\ s[m] \in S /\ rank[s[k]] = k /\ rank[s[m]] = m
    BY <1>11
  <2>2. k # m /\ ~(m < k)
    BY <1>1
  <2>3. s[k] # s[m] /\ ~Before(rows, s[m], s[k])
    BY <1>5, <2>1, <2>2
  <2> QED BY <1>2, <2>1, <2>3
<1>15. \A c \in S : \E k \in 1 .. n : s[k] = c
  BY <1>4, <1>13
<1>16. \A k, m \in 1 .. n : s[k] = s[m] => k = m
  BY <1>11
<1> QED BY <1>12, <1>14, <1>15, <1>16 DEF s, n, S

-----------------------------------------------------------------------------
(* The loop *)

LEMMA SixLimits ==
  /\ Len(Limits) = 6
  /\ \A i \in 1 .. 6 : Limits[i] \in Int
  /\ \A i, j \in 1 .. 6 : i < j => Limits[i] < Limits[j]
  /\ Limits[2] = 0 /\ Limits[3] = 1 /\ Limits[6] = Latest
BY ListViewAssumption DEF Limits, OneDay

\* The inner loop stops, and where it does depends on what fits alone.
LEMMA TakenIs ==
  ASSUME NEW rows, NEW today, NEW s, Len(s) \in Nat, NEW i, NEW j \in 0 .. Len(s)
  PROVE  LET m == Taken(rows, today, s, i, j) IN
         /\ m \in j .. Len(s)
         /\ \A k \in j + 1 .. m : Fits(rows[s[k]], i, today)
         /\ m < Len(s) => ~Fits(rows[s[m + 1]], i, today)
<1> DEFINE T == {m \in j .. Len(s) : m < Len(s) => ~Fits(rows[s[m + 1]], i, today)}
<1>1. T \in SUBSET Nat /\ Len(s) \in T
  OBVIOUS
<1>2. PICK m \in T : \A n \in T : m <= n
  BY <1>1, Least
<1>3. ASSUME NEW k \in j + 1 .. m PROVE Fits(rows[s[k]], i, today)
  <2>1. k - 1 \in j .. Len(s) /\ k - 1 < m /\ (k - 1) + 1 = k /\ k - 1 < Len(s)
    BY <1>2
  <2>2. k - 1 \notin T
    BY <1>1, <1>2, <2>1
  <2> QED BY <2>1, <2>2
<1>4. \E l \in j .. Len(s) :
        /\ \A k \in j + 1 .. l : Fits(rows[s[k]], i, today)
        /\ l < Len(s) => ~Fits(rows[s[l + 1]], i, today)
  BY <1>2, <1>3
<1> QED BY <1>4 DEF Taken

\* The outer loop is a recursion that has a solution.
LEMMA EndsAre ==
  ASSUME NEW rows, NEW today
  PROVE  LET end == Ends(rows, today) IN
         /\ end[0] = 0
         /\ \A i \in 1 .. 6 : end[i] = Taken(rows, today, ByDue(rows), i, end[i - 1])
<1> DEFINE T(i, j) == Taken(rows, today, ByDue(rows), i, j)
           e1 == T(1, 0)
           e2 == T(2, e1)
           e3 == T(3, e2)
           e4 == T(4, e3)
           e5 == T(5, e4)
           e6 == T(6, e5)
           f == [i \in 0 .. 6 |-> CASE i = 0 -> 0 [] i = 1 -> e1 [] i = 2 -> e2 [] i = 3 -> e3
                                    [] i = 4 -> e4 [] i = 5 -> e5 [] i = 6 -> e6]
           end == Ends(rows, today)
<1>1. f = [i \in 0 .. 6 |-> IF i = 0 THEN 0 ELSE T(i, f[i - 1])]
  <2>1. ASSUME NEW i \in 0 .. 6 PROVE f[i] = IF i = 0 THEN 0 ELSE T(i, f[i - 1])
    <3> HIDE DEF T
    <3> QED OBVIOUS
  <2> HIDE DEF T
  <2> QED BY <2>1
<1>2. end = CHOOSE g : g = [i \in 0 .. 6 |-> IF i = 0 THEN 0 ELSE T(i, g[i - 1])]
  BY SixLimits DEF Ends
<1> HIDE DEF f, T, end
<1>3. end = [i \in 0 .. 6 |-> IF i = 0 THEN 0 ELSE T(i, end[i - 1])]
  BY <1>1, <1>2
<1>4. end[0] = 0 /\ \A i \in 1 .. 6 : end[i] = T(i, end[i - 1])
  BY <1>3
<1> QED BY <1>4 DEF T, end


\* One section: if what is in front of the index fits, then after the inner loop exactly
\* that is in front of it.
LEMMA SectionEnd ==
  ASSUME NEW rows \in Seq(Row), NEW today \in Int, NEW i \in 1 .. 6,
         NEW j \in 0 .. Len(ByDue(rows)),
         \A k \in 1 .. j : Fits(rows[ByDue(rows)[k]], i, today)
  PROVE  LET s == ByDue(rows)
             m == Taken(rows, today, s, i, j)
         IN  /\ m \in j .. Len(s)
             /\ \A k \in 1 .. Len(s) : k <= m <=> Fits(rows[s[k]], i, today)
<1> DEFINE s == ByDue(rows)
           m == Taken(rows, today, s, i, j)
           N(k) == NextCompletion(rows[s[k]])
<1>1. /\ Len(s) \in Nat /\ \A k \in 1 .. Len(s) : s[k] \in Chores(rows)
      /\ \A k, l \in 1 .. Len(s) : k < l => Before(rows, s[k], s[l])
  <2>1. s \in Seq(Chores(rows))
    BY Sorted
  <2>2. Len(s) \in Nat /\ \A k \in 1 .. Len(s) : s[k] \in Chores(rows)
    BY <2>1
  <2> QED BY <2>2, Sorted
<1>2. \A k \in 1 .. Len(s) : N(k) \in Int
  BY <1>1, RowsOfChores
<1>3. \A k, l \in 1 .. Len(s) : k < l => N(k) <= N(l)
  BY <1>1, <1>2 DEF Before
<1>4. /\ m \in j .. Len(s)
      /\ \A k \in j + 1 .. m : Fits(rows[s[k]], i, today)
      /\ m < Len(s) => ~Fits(rows[s[m + 1]], i, today)
  BY <1>1, TakenIs
<1>5. /\ Limits[i] \in Int
      /\ \A k \in 1 .. Len(s) : Fits(rows[s[k]], i, today) <=> N(k) - today <= Limits[i]
  BY SixLimits DEF Fits, DurationToNextFrom
<1> HIDE DEF m, N
<1>6. ASSUME NEW k \in 1 .. Len(s) PROVE k <= m <=> Fits(rows[s[k]], i, today)
  <2>1. CASE k <= j
    BY <1>4, <2>1
  <2>2. CASE k > j /\ k <= m
    BY <1>4, <2>2
  <2>3. CASE k > m
    <3>1. m + 1 \in 1 .. Len(s) /\ m < Len(s) /\ ~Fits(rows[s[m + 1]], i, today)
      BY <1>1, <1>4, <2>3
    <3>2. N(m + 1) <= N(k)
      <4>1. k = m + 1 \/ m + 1 < k
        BY <1>4, <2>3
      <4> QED BY <1>2, <1>3, <3>1, <4>1
    <3>3. N(m + 1) \in Int /\ N(k) \in Int /\ ~(N(m + 1) - today <= Limits[i])
      BY <1>2, <1>5, <3>1
    <3>4. ~(N(k) - today <= Limits[i])
      BY <1>5, <3>2, <3>3
    <3>5. ~Fits(rows[s[k]], i, today)
      BY <1>5, <3>4
    <3> QED BY <1>4, <2>3, <3>5
  <2>4. k \in Int /\ j \in Int /\ m \in Int
    BY <1>1, <1>4
  <2>5. k <= j \/ (k > j /\ k <= m) \/ k > m
    BY <2>4
  <2> QED BY <2>1, <2>2, <2>3, <2>5
<1> QED BY <1>4, <1>6 DEF m

\* All six: the index after section i has exactly the chores that fit i in front of it.
LEMMA Dealt ==
  ASSUME NEW rows \in Seq(Row), NEW today \in Int
  PROVE  LET s == ByDue(rows)
             end == Ends(rows, today)
         IN  /\ end[0] = 0
             /\ \A i \in 1 .. 6 :
                  /\ end[i] \in end[i - 1] .. Len(s)
                  /\ end[i] \in 0 .. Len(s)
                  /\ end[i - 1] \in 0 .. Len(s)
                  /\ \A k \in 1 .. Len(s) : k <= end[i] <=> Fits(rows[s[k]], i, today)
<1> DEFINE s == ByDue(rows)
           end == Ends(rows, today)
           OK(i) == end[i] \in 0 .. Len(s)
                    /\ (i # 0 => \A k \in 1 .. Len(s) : k <= end[i] <=> Fits(rows[s[k]], i, today))
<1>1. Len(s) \in Nat /\ \A k \in 1 .. Len(s) : NextCompletion(rows[s[k]]) \in Int
  <2>1. s \in Seq(Chores(rows))
    BY Sorted
  <2>2. Len(s) \in Nat /\ \A k \in 1 .. Len(s) : s[k] \in Chores(rows)
    BY <2>1
  <2> QED BY <2>2, RowsOfChores
<1>2. end[0] = 0 /\ \A i \in 1 .. 6 : end[i] = Taken(rows, today, s, i, end[i - 1])
  BY EndsAre
<1>3. ASSUME NEW i \in 1 .. 6, OK(i - 1) PROVE OK(i) /\ end[i] \in end[i - 1] .. Len(s)
  <2>1. \A k \in 1 .. end[i - 1] : Fits(rows[s[k]], i, today)
    <3>1. CASE i = 1
      BY <1>2, <3>1
    <3>2. CASE i # 1
      <4>1. /\ Limits[i - 1] \in Int /\ Limits[i] \in Int /\ Limits[i - 1] < Limits[i]
            /\ i - 1 # 0
        BY <3>2, SixLimits
      <4>2. \A k \in 1 .. end[i - 1] : k \in 1 .. Len(s) /\ Fits(rows[s[k]], i - 1, today)
        BY <1>1, <1>3, <4>1
      <4> QED BY <1>1, <4>1, <4>2 DEF Fits, DurationToNextFrom
    <3> QED BY <3>1, <3>2
  <2>2. /\ end[i] \in end[i - 1] .. Len(s)
        /\ \A k \in 1 .. Len(s) : k <= end[i] <=> Fits(rows[s[k]], i, today)
    BY <1>2, <1>3, <2>1, SectionEnd
  <2> QED BY <1>1, <1>3, <2>2
<1>4. OK(0)
  BY <1>1, <1>2
<1> HIDE DEF OK, s, end
<1>5. OK(1)
  BY <1>3, <1>4
<1>6. OK(2)
  BY <1>3, <1>5
<1>7. OK(3)
  BY <1>3, <1>6
<1>8. OK(4)
  BY <1>3, <1>7
<1>9. OK(5)
  BY <1>3, <1>8
<1>10. \A i \in 0 .. 5 : OK(i)
  BY <1>4, <1>5, <1>6, <1>7, <1>8, <1>9
<1>11. \A i \in 1 .. 6 : OK(i - 1) /\ OK(i) /\ end[i] \in end[i - 1] .. Len(s)
  BY <1>3, <1>10
<1> QED BY <1>2, <1>11 DEF OK, s, end

LEMMA Stretch ==
  ASSUME NEW S, NEW s \in Seq(S), NEW a \in 0 .. Len(s), NEW b \in a .. Len(s)
  PROVE  /\ SubSeq(s, a + 1, b) \in Seq(S)
         /\ Len(SubSeq(s, a + 1, b)) = b - a
         /\ \A k \in 1 .. b - a : a + k \in 1 .. Len(s) /\ SubSeq(s, a + 1, b)[k] = s[a + k]
<1>1. Len(s) \in Nat /\ a \in Int /\ b \in Int /\ a <= b /\ b <= Len(s) /\ 0 <= a
  OBVIOUS
<1>2. SubSeq(s, a + 1, b) = [k \in 1 .. b - a |-> s[a + k]]
  <2>1. 1 .. b - (a + 1) + 1 = 1 .. b - a
    BY <1>1
  <2>2. \A k \in 1 .. b - a : (a + 1) + k - 1 = a + k /\ a + k \in 1 .. Len(s)
    BY <1>1
  <2> QED BY <1>1, <2>1, <2>2
<1>3. \A k \in 1 .. b - a : a + k \in 1 .. Len(s) /\ s[a + k] \in S
  BY <1>1
<1>4. b - a \in Nat
  BY <1>1
<1> QED BY <1>2, <1>3, <1>4

\* What section i holds: a stretch of the sorted chores.
LEMMA SectionIs ==
  ASSUME NEW rows \in Seq(Row), NEW today \in Int, NEW i \in 1 .. 6
  PROVE  LET s == ByDue(rows)
             end == Ends(rows, today)
             chores == Sections(rows, today)[i]
         IN  /\ chores \in Seq(Chores(rows))
             /\ Len(chores) = end[i] - end[i - 1]
             /\ \A k \in 1 .. Len(chores) :
                  /\ end[i - 1] + k \in 1 .. Len(s)
                  /\ chores[k] = s[end[i - 1] + k]
<1> DEFINE s == ByDue(rows)
           end == Ends(rows, today)
<1>1. s \in Seq(Chores(rows))
  BY Sorted
<1>2. /\ end[i] \in end[i - 1] .. Len(s) /\ end[i] \in 0 .. Len(s) /\ end[i - 1] \in 0 .. Len(s)
  BY Dealt
<1>3. Sections(rows, today)[i] = SubSeq(s, end[i - 1] + 1, end[i])
  BY SixLimits DEF Sections
<1> HIDE DEF s, end
<1> DEFINE chores == SubSeq(s, end[i - 1] + 1, end[i])
<1> HIDE DEF s, end
<1>4. /\ chores \in Seq(Chores(rows))
      /\ Len(chores) = end[i] - end[i - 1]
      /\ \A k \in 1 .. end[i] - end[i - 1] :
           end[i - 1] + k \in 1 .. Len(s) /\ chores[k] = s[end[i - 1] + k]
  BY <1>1, <1>2, Stretch
<1> HIDE DEF chores
<1> QED BY <1>3, <1>4 DEF s, end, chores

\* A chore is under heading i if it fits there and under no earlier one.
LEMMA SectionHolds ==
  ASSUME NEW rows \in Seq(Row), NEW today \in Int, NEW i \in 1 .. 6, NEW c \in 1 .. Len(rows)
  PROVE  LET chores == Sections(rows, today)[i] IN
         (\E k \in 1 .. Len(chores) : chores[k] = c)
           <=> /\ Listed(rows[c])
               /\ DurationToNextFrom(rows[c], today) <= Limits[i]
               /\ \A j \in 1 .. i - 1 : Limits[j] < DurationToNextFrom(rows[c], today)
<1> DEFINE s == ByDue(rows)
           end == Ends(rows, today)
           chores == Sections(rows, today)[i]
           togo == DurationToNextFrom(rows[c], today)
<1>1. /\ s \in Seq(Chores(rows))
      /\ \A d \in Chores(rows) : \E k \in 1 .. Len(s) : s[k] = d
      /\ \A k, m \in 1 .. Len(s) : s[k] = s[m] => k = m
  BY Sorted
<1>2. /\ end[0] = 0
      /\ \A j \in 1 .. 6 :
           /\ end[j] \in end[j - 1] .. Len(s)
           /\ end[j] \in 0 .. Len(s) /\ end[j - 1] \in 0 .. Len(s)
           /\ \A k \in 1 .. Len(s) : k <= end[j] <=> Fits(rows[s[k]], j, today)
  BY Dealt
<1>3. /\ chores \in Seq(Chores(rows)) /\ Len(chores) = end[i] - end[i - 1]
      /\ \A k \in 1 .. Len(chores) :
           end[i - 1] + k \in 1 .. Len(s) /\ chores[k] = s[end[i - 1] + k]
  BY SectionIs
<1>4. /\ togo \in Int
      /\ \A j \in 1 .. 6 : Limits[j] \in Int /\ (Fits(rows[c], j, today) <=> togo <= Limits[j])
      /\ \A j, l \in 1 .. 6 : j < l => Limits[j] < Limits[l]
  BY RowsOfChores, SixLimits DEF Fits, DurationToNextFrom
<1> DEFINE a == end[i - 1]
           b == end[i]
<1>5. Len(s) \in Nat /\ a \in Int /\ b \in Int /\ 0 <= a /\ a <= b /\ b <= Len(s)
  <2>1. a \in 0 .. Len(s) /\ b \in a .. Len(s)
    BY <1>2
  <2>2. Len(s) \in Nat
    BY <1>1
  <2> HIDE DEF s, a, b
  <2> QED BY <2>1, <2>2
<1>6. Len(chores) = b - a /\ \A k \in 1 .. b - a : a + k \in 1 .. Len(s) /\ chores[k] = s[a + k]
  BY <1>3
<1> HIDE DEF s, end, chores, togo, a, b
<1>7. CASE ~Listed(rows[c])
  <2>1. c \notin Chores(rows)
    BY <1>7 DEF Chores
  <2>2. \A k \in 1 .. Len(chores) : chores[k] # c
    BY <1>3, <2>1
  <2> QED BY <1>7, <2>2 DEF chores, togo
<1>8. CASE Listed(rows[c])
  <2>1. PICK k \in 1 .. Len(s) : s[k] = c
    BY <1>1, <1>8 DEF Chores
  <2>2. (\E n \in 1 .. Len(chores) : chores[n] = c) <=> a < k /\ k <= b
    <3>1. ASSUME NEW n \in 1 .. b - a, chores[n] = c PROVE a < k /\ k <= b
      <4>1. a + n \in 1 .. Len(s) /\ s[a + n] = c
        BY <1>6, <3>1
      <4>2. k = a + n
        BY <1>1, <2>1, <4>1
      <4> QED BY <1>5, <4>2
    <3>2. ASSUME a < k, k <= b PROVE \E n \in 1 .. b - a : chores[n] = c
      <4>1. k - a \in 1 .. b - a /\ a + (k - a) = k
        BY <1>5, <3>2
      <4>2. chores[k - a] = s[k]
        BY <1>6, <4>1
      <4> QED BY <2>1, <4>1, <4>2
    <3> QED BY <1>6, <3>1, <3>2
  <2>3. \A j \in 1 .. 6 : k <= end[j] <=> togo <= Limits[j]
    BY <1>2, <1>4, <2>1
  <2>4. k <= b <=> togo <= Limits[i]
    BY <2>3 DEF b
  <2>5. a < k <=> \A j \in 1 .. i - 1 : Limits[j] < togo
    <3>1. CASE i = 1
      <4>1. a = 0 /\ 1 .. i - 1 = {}
        BY <1>2, <3>1 DEF a
      <4> QED BY <4>1
    <3>2. CASE i # 1
      <4>1. i - 1 \in 1 .. 6 /\ i - 1 \in 1 .. i - 1
        BY <3>2
      <4>2. k <= a <=> togo <= Limits[i - 1]
        BY <2>3, <4>1 DEF a
      <4>3. Limits[i - 1] \in Int
        BY <1>4, <4>1
      <4>4. a < k <=> Limits[i - 1] < togo
        BY <1>4, <1>5, <4>2, <4>3
      <4>5. ASSUME Limits[i - 1] < togo, NEW j \in 1 .. i - 1 PROVE Limits[j] < togo
        <5>1. j \in 1 .. 6 /\ (j = i - 1 \/ j < i - 1)
          OBVIOUS
        <5>2. Limits[j] \in Int /\ (j = i - 1 \/ Limits[j] < Limits[i - 1])
          BY <1>4, <4>1, <5>1
        <5> QED BY <1>4, <4>3, <4>5, <5>2
      <4> QED BY <4>1, <4>4, <4>5
    <3> QED BY <3>1, <3>2
  <2> QED BY <1>8, <2>2, <2>4, <2>5 DEF chores, togo
<1> QED BY <1>7, <1>8

\* Within a section chores come one before the other.
LEMMA SectionSorted ==
  ASSUME NEW rows \in Seq(Row), NEW today \in Int, NEW i \in 1 .. 6
  PROVE  LET chores == Sections(rows, today)[i] IN
         \A k, m \in 1 .. Len(chores) : k < m => Before(rows, chores[k], chores[m])
<1> DEFINE s == ByDue(rows)
           end == Ends(rows, today)
           chores == Sections(rows, today)[i]
<1>1. /\ Len(chores) = end[i] - end[i - 1]
      /\ \A k \in 1 .. Len(chores) :
           end[i - 1] + k \in 1 .. Len(s) /\ chores[k] = s[end[i - 1] + k]
  BY SectionIs
<1>2. end[i] \in 0 .. Len(s) /\ end[i - 1] \in 0 .. Len(s)
  BY Dealt
<1>3. \A k, m \in 1 .. Len(s) : k < m => Before(rows, s[k], s[m])
  BY Sorted
<1> HIDE DEF s, end, chores
<1>4. ASSUME NEW k \in 1 .. Len(chores), NEW m \in 1 .. Len(chores), k < m
      PROVE  Before(rows, chores[k], chores[m])
  <2>1. end[i - 1] + k < end[i - 1] + m
    BY <1>1, <1>2, <1>4
  <2> QED BY <1>1, <1>3, <2>1
<1> QED BY <1>4 DEF chores

-----------------------------------------------------------------------------
(* The invariant *)

\* The last day a row can come to be due, however it is changed.
DueInTime(row) == NextCompletion(row) <= Latest /\ MaxDate + row.interval <= Latest

\* A table that the actions of this module can have made.
TableOK(rows) ==
  /\ rows \in Seq(Row)
  /\ Len(rows) <= MaxChores
  /\ \A c \in 1 .. Len(rows) : DueInTime(rows[c])

PageOK ==
  /\ TableOK(page.rows)
  /\ page.today \in RealDate /\ page.shown \in RealDate
  /\ page.shown <= day
  /\ page.sections = Sections(page.rows, page.today)
  /\ page.snooze = {c \in 1 .. Len(page.rows) : SnoozeOffered(page.rows[c], page.shown)}

CalendarOK ==
  /\ TableOK(calendar.rows)
  /\ calendar.today \in RealDate
  /\ calendar.entries = Entries(calendar.rows, calendar.today)

IInv ==
  /\ TypeOK
  /\ TableOK(table)
  /\ page # NoPage => PageOK
  /\ calendar # NoCalendar => CalendarOK

LEMMA DayIsNumber == RealDate \subseteq Int /\ RealDate = 1 .. MaxDate /\ MaxDate \in Nat \ {0}
BY ChoreAssumption DEF RealDate, Date, ZeroDate

LEMMA CompletedInTime ==
  ASSUME NEW row \in Row, NEW d \in RealDate, DueInTime(row)
  PROVE  CompletedRow(row, d) \in Row /\ DueInTime(CompletedRow(row, d))
<1> DEFINE new == CompletedRow(row, d)
<1>1. /\ new \in Row /\ new.lastCompletion = d /\ new.snoozedFor = NotSnoozed
      /\ new.interval = row.interval
  BY CompletedRowFacts
<1>2. d \in 1 .. MaxDate /\ MaxDate \in Nat /\ row.interval \in Int /\ d # ZeroDate
  BY DayIsNumber, RowNumbers DEF ZeroDate
<1>3. MaxDate + row.interval <= Latest /\ Latest \in Nat
  BY ListViewAssumption DEF DueInTime
<1> HIDE DEF new
<1>4. NextCompletion(new) = d + row.interval
  BY <1>1, <1>2 DEF NextCompletion, NotSnoozed
<1> QED BY <1>1, <1>2, <1>3, <1>4 DEF DueInTime, new

LEMMA SnoozedInTime ==
  ASSUME NEW row \in Row, NEW d \in RealDate, DueInTime(row)
  PROVE  SnoozedRow(row, d, OneDay) \in Row /\ DueInTime(SnoozedRow(row, d, OneDay))
<1> DEFINE new == SnoozedRow(row, d, OneDay)
<1>1. d \in 1 .. MaxDate /\ MaxDate \in Nat /\ d \in Int /\ OneDay \in Int
  BY DayIsNumber DEF OneDay
<1>2. NextCompletion(row) \in Int /\ row.snoozedFor \in Int
  BY NextIsNumber, RowNumbers
<1>3. new \in Row
  BY <1>1, <1>2 DEF SnoozedRow, DurationToNextFrom, Row
<1>4. NextCompletion(new) = d + OneDay
  BY <1>1, SnoozeLands
<1>5. new.interval = row.interval
  BY SnoozedRowFacts
<1>6. MaxDate + OneDay <= Latest /\ Latest \in Nat
  BY ListViewAssumption, LatestAssumption
<1> HIDE DEF new
<1> QED BY <1>1, <1>3, <1>4, <1>5, <1>6 DEF DueInTime, new, OneDay

LEMMA TableGrows ==
  ASSUME TableOK(table), NEW row \in Rows, Len(table) < MaxChores
  PROVE  TableOK(Append(table, row))
<1>1. table \in Seq(Row) /\ row \in Row /\ DueInTime(row) /\ MaxChores \in Nat
  BY ListViewAssumption, LatestAssumption DEF TableOK, DueInTime
<1>2. /\ Append(table, row) \in Seq(Row) /\ Len(Append(table, row)) = Len(table) + 1
      /\ \A c \in 1 .. Len(table) + 1 :
           Append(table, row)[c] = IF c = Len(table) + 1 THEN row ELSE table[c]
  BY <1>1
<1>3. \A c \in 1 .. Len(table) : DueInTime(table[c])
  BY DEF TableOK
<1> QED BY <1>1, <1>2, <1>3 DEF TableOK

LEMMA TableChanges ==
  ASSUME TableOK(table), NEW c \in 1 .. Len(table), NEW row \in Row, DueInTime(row)
  PROVE  TableOK([table EXCEPT ![c] = row])
<1> DEFINE new == [table EXCEPT ![c] = row]
<1>1. table \in Seq(Row)
  BY DEF TableOK
<1>2. /\ new \in Seq(Row) /\ Len(new) = Len(table)
      /\ \A d \in 1 .. Len(table) : new[d] = IF d = c THEN row ELSE table[d]
  BY <1>1
<1> HIDE DEF new
<1>3. TableOK(new)
  BY <1>2 DEF TableOK
<1> QED BY <1>3 DEF new

\* What a page and a calendar are made of has its type.
LEMMA SectionsType ==
  ASSUME NEW rows, TableOK(rows), NEW today \in Int
  PROVE  Sections(rows, today) \in [1 .. Len(Limits) -> Seq(Places)]
<1>1. rows \in Seq(Row) /\ Len(rows) <= MaxChores /\ MaxChores \in Nat /\ Len(rows) \in Nat
  BY ListViewAssumption DEF TableOK
<1>2. Chores(rows) \subseteq Places
  BY <1>1, RowsOfChores DEF Places
<1>3. \A i \in 1 .. 6 : Sections(rows, today)[i] \in Seq(Chores(rows))
  BY <1>1, SectionIs
<1>4. \A i \in 1 .. 6 : Sections(rows, today)[i] \in Seq(Places)
  BY <1>2, <1>3
<1>5. Sections(rows, today) = [i \in 1 .. 6 |-> Sections(rows, today)[i]]
  BY SixLimits DEF Sections
<1> QED BY <1>4, <1>5, SixLimits

LEMMA EntriesType ==
  ASSUME NEW rows, TableOK(rows), NEW today \in Int
  PROVE  Entries(rows, today) \subseteq [chore : Places, date : Int]
<1>1. rows \in Seq(Row) /\ Len(rows) <= MaxChores /\ MaxChores \in Nat /\ Len(rows) \in Nat
  BY ListViewAssumption DEF TableOK
<1>2. Chores(rows) \subseteq Places
  BY <1>1, RowsOfChores DEF Places
<1>3. \A c \in Chores(rows) : NextCompletionOf(rows[c], today) \in Int
  BY <1>1, RowsOfChores DEF NextCompletionOf
<1> QED BY <1>2, <1>3 DEF Entries

LEMMA RenderKeeps ==
  ASSUME IInv, Render
  PROVE  IInv'
<1> DEFINE new == [today |-> reading, shown |-> day, rows |-> table,
                   sections |-> Sections(table, reading),
                   snooze |-> {c \in 1 .. Len(table) : SnoozeOffered(table[c], day)}]
<1>1. /\ page' = new /\ reading' = ZeroDate /\ day' = day /\ table' = table
      /\ calendar' = calendar /\ reading # ZeroDate
  BY DEF Render
<1>2. reading \in RealDate /\ day \in RealDate /\ reading \in Int /\ day \in Int
  BY <1>1, DayIsNumber DEF IInv, TypeOK, RealDate
<1>3. TableOK(table) /\ table \in Seq(Row)
  BY DEF IInv, TableOK
<1>4. new.snooze \subseteq Places
  BY <1>3, ListViewAssumption DEF Places, TableOK
<1>5. Sections(table, reading) \in [1 .. Len(Limits) -> Seq(Places)]
  BY <1>2, <1>3, SectionsType
<1>6. new \in Page
  BY <1>2, <1>3, <1>4, <1>5 DEF Page
<1>7. ZeroDate \in Date
  BY ChoreAssumption DEF Date, ZeroDate
<1>8. TypeOK'
  BY <1>1, <1>6, <1>7 DEF IInv, TypeOK
<1>9. PageOK'
  BY <1>1, <1>2, <1>3 DEF PageOK
<1> QED BY <1>1, <1>8, <1>9 DEF IInv, CalendarOK

LEMMA ExportKeeps ==
  ASSUME IInv, Export
  PROVE  IInv'
<1> DEFINE new == [today |-> day, rows |-> table, entries |-> Entries(table, day)]
<1>1. /\ calendar' = new /\ page' = NoPage /\ day' = day /\ table' = table
      /\ reading' = reading
  BY DEF Export
<1>2. day \in RealDate /\ day \in Int
  BY DayIsNumber DEF IInv, TypeOK
<1>3. TableOK(table) /\ table \in Seq(Row)
  BY DEF IInv, TableOK
<1>4. Entries(table, day) \subseteq [chore : Places, date : Int]
  BY <1>2, <1>3, EntriesType
<1>5. new \in Calendar
  BY <1>2, <1>3, <1>4 DEF Calendar
<1>6. TypeOK'
  BY <1>1, <1>5 DEF IInv, TypeOK
<1>7. CalendarOK'
  BY <1>1, <1>2, <1>3 DEF CalendarOK
<1> QED BY <1>1, <1>6, <1>7 DEF IInv

\* The table changes, what is on the screen stays.
LEMMA ChangeKeeps ==
  ASSUME IInv, TableOK(table'), UNCHANGED <<day, reading, page, calendar>>
  PROVE  IInv'
<1>1. TypeOK'
  BY DEF IInv, TypeOK, TableOK
<1> QED BY <1>1 DEF IInv, PageOK, CalendarOK

LEMMA InvariantStep == IInv /\ [Next]_vars => IInv'
<1> SUFFICES ASSUME IInv, [Next]_vars PROVE IInv'
  OBVIOUS
<1>1. day \in RealDate /\ TableOK(table) /\ table \in Seq(Row)
  BY DEF IInv, TypeOK, TableOK
<1>2. CASE Read
  <2>1. reading' = day /\ page' = NoPage /\ calendar' = NoCalendar /\ day' = day /\ table' = table
    BY <1>2 DEF Read
  <2>2. day \in Date
    BY <1>1 DEF RealDate
  <2> QED BY <2>1, <2>2 DEF IInv, TypeOK
<1>3. ASSUME NEW row \in Rows, AddChore(row) PROVE IInv'
  BY <1>1, <1>3, TableGrows, ChangeKeeps DEF AddChore
<1>4. ASSUME NEW c \in 1 .. Len(table), CompleteChore(c) PROVE IInv'
  <2>1. table[c] \in Row /\ DueInTime(table[c])
    BY <1>1 DEF TableOK
  <2>2. TableOK([table EXCEPT ![c] = CompletedRow(table[c], day)])
    BY <1>1, <2>1, CompletedInTime, TableChanges
  <2>3. table' = [table EXCEPT ![c] = CompletedRow(table[c], day)]
    BY <1>4 DEF CompleteChore
  <2> QED BY <1>4, <2>2, <2>3, ChangeKeeps DEF CompleteChore
<1>5. ASSUME NEW c \in 1 .. Len(table), SnoozeChore(c) PROVE IInv'
  <2>1. table[c] \in Row /\ DueInTime(table[c])
    BY <1>1 DEF TableOK
  <2>2. TableOK([table EXCEPT ![c] = SnoozedRow(table[c], day, OneDay)])
    BY <1>1, <2>1, SnoozedInTime, TableChanges
  <2>3. table' = [table EXCEPT ![c] = SnoozedRow(table[c], day, OneDay)]
    BY <1>5 DEF SnoozeChore
  <2> QED BY <1>5, <2>2, <2>3, ChangeKeeps DEF SnoozeChore
<1>6. CASE NextDay
  <2>1. day' = day + 1 /\ day < MaxDate /\ UNCHANGED <<table, reading, page, calendar>>
    BY <1>6 DEF NextDay
  <2>2. day' \in RealDate /\ day <= day' /\ day \in Int
    BY <1>1, <2>1, DayIsNumber
  <2>3. TypeOK'
    BY <2>1, <2>2 DEF IInv, TypeOK
  <2>4. PageOK => PageOK'
    <3>1. PageOK => page.shown \in Int
      BY DayIsNumber DEF PageOK
    <3> QED BY <2>1, <2>2, <3>1, DayIsNumber DEF PageOK
  <2> QED BY <2>1, <2>3, <2>4 DEF IInv, CalendarOK
<1>7. CASE UNCHANGED vars
  BY <1>1, <1>7, ChangeKeeps DEF vars
<1> QED BY <1>2, <1>3, <1>4, <1>5, <1>6, <1>7, RenderKeeps, ExportKeeps DEF Next

LEMMA InvariantInit == Init => IInv
<1> SUFFICES ASSUME Init PROVE IInv
  OBVIOUS
<1>1. 1 \in RealDate /\ ZeroDate \in Date
  BY ChoreAssumption DEF RealDate, Date, ZeroDate
<1>2. <<>> \in Seq(Row) /\ Len(<<>>) = 0 /\ MaxChores \in Nat
  BY ListViewAssumption
<1> QED BY <1>1, <1>2 DEF Init, IInv, TypeOK, TableOK

LEMMA InvariantHolds == Spec => []IInv
BY InvariantInit, InvariantStep, PTL DEF Spec

-----------------------------------------------------------------------------
(* What the page shows *)

\* Everything on the screen has its type.
THEOREM PageTypes == Spec => []TypeOK
<1>1. IInv => TypeOK
  BY DEF IInv
<1> QED BY <1>1, InvariantHolds, PTL

\* Sections deals every chore that is left to the right heading and to no other, for any
\* list of chores.
THEOREM EveryChoreInItsSection == Spec => []RightSection
<1>1. ASSUME IInv, page # NoPage, NEW c \in 1 .. Len(page.rows), NEW i \in 1 .. 6
      PROVE  On(c, i) <=>
               /\ Listed(page.rows[c])
               /\ DurationToNextFrom(page.rows[c], page.today) <= Limits[i]
               /\ \A k \in 1 .. i - 1 : Limits[k] < DurationToNextFrom(page.rows[c], page.today)
  <2>1. /\ page.rows \in Seq(Row) /\ page.today \in Int
        /\ page.sections = Sections(page.rows, page.today)
    BY <1>1, DayIsNumber DEF IInv, PageOK, TableOK
  <2> DEFINE chores == Sections(page.rows, page.today)[i]
             Fitting == /\ Listed(page.rows[c])
                        /\ DurationToNextFrom(page.rows[c], page.today) <= Limits[i]
                        /\ \A k \in 1 .. i - 1 :
                             Limits[k] < DurationToNextFrom(page.rows[c], page.today)
  <2>2. (\E k \in 1 .. Len(chores) : chores[k] = c) <=> Fitting
    BY <2>1, SectionHolds
  <2>3. On(c, i) <=> \E k \in 1 .. Len(chores) : chores[k] = c
    BY <2>1 DEF On
  <2> QED BY <2>2, <2>3
<1>2. IInv => RightSection
  BY <1>1, SixLimits DEF RightSection
<1> QED BY <1>2, InvariantHolds, PTL

\* The chores of a section stand in the order of their due dates, and each of them once,
\* for any list of chores.
THEOREM PageInDueOrder == Spec => []InDueOrder
<1>1. ASSUME IInv, page # NoPage, NEW i \in 1 .. 6
      PROVE  LET s == page.sections[i] IN
             \A k, m \in 1 .. Len(s) : k < m => Before(page.rows, s[k], s[m])
  <2>1. /\ page.rows \in Seq(Row) /\ page.today \in Int
        /\ page.sections = Sections(page.rows, page.today)
    BY <1>1, DayIsNumber DEF IInv, PageOK, TableOK
  <2> QED BY <2>1, SectionSorted
<1>2. IInv => InDueOrder
  BY <1>1, SixLimits DEF InDueOrder, Before
<1> QED BY <1>2, InvariantHolds, PTL

\* The button of a chore that nobody changed still works, however old the page.
THEOREM OfferHolds == Spec => []OfferStands
<1>1. ASSUME IInv, page # NoPage, NEW c \in 1 .. Len(page.rows), table[c] = page.rows[c]
      PROVE  /\ c \in page.snooze => CanSnooze(table[c], day)
             /\ c \notin page.snooze /\ day = page.shown => CanExpedite(table[c], day)
  <2>1. PageOK /\ day \in Int
    BY <1>1, DayIsNumber DEF IInv, TypeOK
  <2>2. page.shown \in Int /\ page.shown <= day /\ page.rows \in Seq(Row)
    BY <2>1, DayIsNumber DEF PageOK, TableOK
  <2>3. NextCompletion(table[c]) \in Int
    BY <1>1, <2>2, RowsOfChores
  <2>4. c \in page.snooze <=> ~(NextCompletion(table[c]) - page.shown > 0)
    BY <1>1, <2>1 DEF PageOK, SnoozeOffered, DurationToNextFrom
  <2> QED BY <2>1, <2>2, <2>3, <2>4 DEF CanSnooze, CanExpedite, DurationToNextFrom
<1>2. IInv => OfferStands
  BY <1>1 DEF OfferStands
<1> QED BY <1>2, InvariantHolds, PTL

\* The chores under some headings, however many.
Under(rows, today, S) ==
  UNION {{Sections(rows, today)[i][k] : k \in 1 .. Len(Sections(rows, today)[i])} : i \in S}

LEMMA UnderIs ==
  ASSUME NEW rows \in Seq(Row), NEW today \in Int, NEW S \in SUBSET (1 .. 6), NEW c
  PROVE  c \in Under(rows, today, S) <=>
           /\ c \in Chores(rows)
           /\ \E i \in S :
                /\ DurationToNextFrom(rows[c], today) <= Limits[i]
                /\ \A j \in 1 .. i - 1 : Limits[j] < DurationToNextFrom(rows[c], today)
<1> DEFINE chores(i) == Sections(rows, today)[i]
           Fitting(i) == /\ DurationToNextFrom(rows[c], today) <= Limits[i]
                         /\ \A j \in 1 .. i - 1 :
                              Limits[j] < DurationToNextFrom(rows[c], today)
           Shown(i) == {chores(i)[k] : k \in 1 .. Len(chores(i))}
<1>1. c \in Under(rows, today, S) <=> \E i \in S : \E k \in 1 .. Len(chores(i)) : chores(i)[k] = c
  <2>1. Under(rows, today, S) = UNION {Shown(i) : i \in S}
    BY DEF Under
  <2> HIDE DEF chores
  <2>2. ASSUME NEW i \in S
        PROVE  c \in Shown(i) <=> \E k \in 1 .. Len(chores(i)) : chores(i)[k] = c
    OBVIOUS
  <2> HIDE DEF Shown
  <2>3. c \in UNION {Shown(i) : i \in S} <=> \E i \in S : c \in Shown(i)
    BY Zenon
  <2> QED BY <2>1, <2>2, <2>3
<1>2. ASSUME NEW i \in S, NEW k \in 1 .. Len(chores(i)), chores(i)[k] = c PROVE c \in Chores(rows)
  <2>1. chores(i) \in Seq(Chores(rows))
    BY SectionIs
  <2> QED BY <1>2, <2>1
<1>3. ASSUME c \in Chores(rows), NEW i \in S
      PROVE  (\E k \in 1 .. Len(chores(i)) : chores(i)[k] = c) <=> Fitting(i)
  <2>1. c \in 1 .. Len(rows) /\ Listed(rows[c])
    BY <1>3 DEF Chores
  <2>2. (\E k \in 1 .. Len(chores(i)) : chores(i)[k] = c) <=> Listed(rows[c]) /\ Fitting(i)
    BY <2>1, SectionHolds
  <2> QED BY <2>1, <2>2
<1> HIDE DEF chores, Fitting
<1>4. c \in Under(rows, today, S) <=> c \in Chores(rows) /\ \E i \in S : Fitting(i)
  BY <1>1, <1>2, <1>3
<1> QED BY <1>4 DEF Fitting

\* The calendar of a day agrees with the page of that day, and leaves nothing in the past.
THEOREM CalendarHolds == Spec => []CalendarAgrees
<1>1. ASSUME IInv, calendar # NoCalendar
      PROVE  LET on(d) == {e.chore : e \in {e \in calendar.entries : e.date = d}}
                 under(S) == Under(calendar.rows, calendar.today, S)
             IN  /\ on(calendar.today) = under({1, 2})
                 /\ on(calendar.today + 1) = under({3})
                 /\ {e.chore : e \in calendar.entries} = under(1 .. Len(Limits))
                 /\ \A e \in calendar.entries : e.date >= calendar.today
  <2> DEFINE rows == calendar.rows
             today == calendar.today
             N(c) == NextCompletion(rows[c])
             togo(c) == DurationToNextFrom(rows[c], today)
  <2>1. /\ rows \in Seq(Row) /\ today \in 1 .. MaxDate /\ today \in Int
        /\ \A c \in 1 .. Len(rows) : N(c) <= Latest
        /\ calendar.entries = Entries(rows, today)
    BY <1>1, DayIsNumber DEF IInv, CalendarOK, TableOK, DueInTime
  <2>2. /\ Chores(rows) \subseteq 1 .. Len(rows)
        /\ \A c \in Chores(rows) : N(c) \in Int /\ N(c) <= Latest /\ togo(c) = N(c) - today
    BY <2>1, RowsOfChores DEF DurationToNextFrom
  <2> DEFINE D(c) == NextCompletionOf(rows[c], today)
             entry(c) == [chore |-> c, date |-> D(c)]
             all == calendar.entries
  <2>3. all = {entry(c) : c \in Chores(rows)}
    BY <2>1 DEF Entries
  <2>4. \A c : entry(c).chore = c /\ entry(c).date = D(c)
    OBVIOUS
  <2>5. \A c \in Chores(rows) : D(c) = IF togo(c) > 0 THEN today + togo(c) ELSE today
    BY <2>1, <2>2 DEF NextCompletionOf
  <2>6. \A c \in Chores(rows) : togo(c) \in Int /\ togo(c) <= Latest
    BY <2>1, <2>2, ListViewAssumption
  <2>7. /\ Limits[1] = -1 /\ Limits[2] = 0 /\ Limits[3] = 1
        /\ Limits[4] = Week /\ Limits[5] = Month /\ Limits[6] = Latest
        /\ Week \in Nat /\ Month \in Nat /\ Latest \in Nat
        /\ 1 < Week /\ Week < Month /\ Month < Latest
    BY ListViewAssumption DEF Limits, OneDay
  <2>8. \A S \in SUBSET (1 .. 6) : \A c :
          c \in Under(rows, today, S) <=>
            /\ c \in Chores(rows)
            /\ \E i \in S : togo(c) <= Limits[i] /\ \A j \in 1 .. i - 1 : Limits[j] < togo(c)
    BY <2>1, UnderIs
  <2> HIDE DEF rows, today, N, togo, D, entry, all
  <2>9. \A e \in all : e.date >= today
    BY <2>1, <2>3, <2>4, <2>5, <2>6
  <2>10. {e.chore : e \in all} = Chores(rows)
    BY <2>3, <2>4
  <2>11. \A d : {e.chore : e \in {e \in all : e.date = d}} = {c \in Chores(rows) : D(c) = d}
    BY <2>3, <2>4
  <2>12. \A c \in Chores(rows) : /\ D(c) = today <=> togo(c) <= 0
                                 /\ D(c) = today + 1 <=> togo(c) = 1
    BY <2>1, <2>5, <2>6
  <2>13. Under(rows, today, {1, 2}) = {c \in Chores(rows) : togo(c) <= 0}
    <3>1. \A c \in Chores(rows) :
            togo(c) <= 0 <=>
              \E i \in {1, 2} : togo(c) <= Limits[i] /\ \A j \in 1 .. i - 1 : Limits[j] < togo(c)
      <4> TAKE c \in Chores(rows)
      <4>1. togo(c) \in Int /\ 1 .. 1 - 1 = {} /\ 1 .. 2 - 1 = {1}
        BY <2>6
      <4> QED BY <2>7, <4>1
    <3> QED BY <2>8, <3>1
  <2>14. Under(rows, today, {3}) = {c \in Chores(rows) : togo(c) = 1}
    <3>1. \A c \in Chores(rows) :
            togo(c) = 1 <=> togo(c) <= Limits[3] /\ \A j \in 1 .. 3 - 1 : Limits[j] < togo(c)
      <4> TAKE c \in Chores(rows)
      <4>1. togo(c) \in Int /\ 1 .. 3 - 1 = {1, 2}
        BY <2>6
      <4> QED BY <2>7, <4>1
    <3> QED BY <2>8, <3>1
  <2>15. Under(rows, today, 1 .. 6) = Chores(rows)
    <3>1. ASSUME NEW c \in Chores(rows)
          PROVE  \E i \in 1 .. 6 : togo(c) <= Limits[i] /\ \A j \in 1 .. i - 1 : Limits[j] < togo(c)
      <4> DEFINE T == {i \in 1 .. 6 : togo(c) <= Limits[i]}
      <4>1. T \in SUBSET Nat /\ T # {}
        BY <2>6, <2>7
      <4>2. PICK i \in T : \A j \in T : i <= j
        BY <4>1, Least
      <4>3. \A j \in 1 .. i - 1 : j \notin T /\ j \in 1 .. 6
        BY <4>2
      <4>4. \A j \in 1 .. i - 1 : Limits[j] < togo(c)
        BY <2>6, <4>3, SixLimits
      <4> QED BY <4>2, <4>4
    <3> QED BY <2>8, <3>1
  <2>16. /\ {e.chore : e \in {e \in all : e.date = today}} = Under(rows, today, {1, 2})
         /\ {e.chore : e \in {e \in all : e.date = today + 1}} = Under(rows, today, {3})
    BY <2>11, <2>12, <2>13, <2>14
  <2> QED BY <2>9, <2>10, <2>15, <2>16, SixLimits DEF rows, today, all
<1>2. IInv => CalendarAgrees
  <2> SUFFICES ASSUME IInv, calendar # NoCalendar PROVE CalendarAgrees
    BY DEF CalendarAgrees
  <2> QED BY <1>1 DEF CalendarAgrees, Under
<1> QED BY <1>2, InvariantHolds, PTL

=============================================================================
