--------------------------- MODULE EventListProofs ---------------------------
(***************************************************************************)
(* What the operators of EventList return, preserve and keep in order, for *)
(* lists of events of any length.                                          *)
(***************************************************************************)
EXTENDS EventList, FiniteSetTheorems, SequenceTheorems, WellFoundedInduction, TLAPS

\* A set of natural numbers that is not empty has a least element: for
\* 0 .. x with x in the set, inclusion is well-founded.
LEMMA Least ==
    ASSUME NEW T \in SUBSET Nat, T # {}
    PROVE  \E x \in T : \A y \in T : x <= y
  <1> DEFINE below == {0 .. x : x \in T}
  <1>1. below \subseteq FiniteSubsetsOf(Nat) /\ below # {}
    <2>1. ASSUME NEW x \in T
          PROVE  0 .. x \in SUBSET Nat /\ IsFiniteSet(0 .. x)
      <3>1. x \in Int /\ 0 \in Int
        OBVIOUS
      <3>2. IsFiniteSet(0 .. x)
        BY <3>1, FS_Interval
      <3> QED BY <3>2
    <2> QED BY <2>1 DEF FiniteSubsetsOf
  <1>2. \E A \in below : \A B \in below : <<B, A>> \notin StrictSubsetOrdering(Nat)
    <2> HIDE DEF below
    <2> QED BY <1>1, FS_StrictSubsetOrderingWellFounded, WFMin
  <1>3. PICK x \in T :
          \A y \in T : <<0 .. y, 0 .. x>> \notin StrictSubsetOrdering(Nat)
    BY <1>2
  <1>4. ASSUME NEW y \in T, y < x
        PROVE  FALSE
    <2>1. 0 .. y \subseteq 0 .. x /\ x \in 0 .. x /\ x \notin 0 .. y
      BY <1>4
    <2>2. <<0 .. y, 0 .. x>> \in (SUBSET Nat) \X (SUBSET Nat)
      BY <1>4
    <2>3. 0 .. y # 0 .. x
      BY <2>1
    <2>4. <<0 .. y, 0 .. x>> \in StrictSubsetOrdering(Nat)
      BY <2>1, <2>2, <2>3 DEF StrictSubsetOrdering
    <2> QED BY <2>4, <1>3
  <1> QED BY <1>4

\* The set of the elements of a sequence, by its positions.
LEMMA ToSetOfSeq ==
    ASSUME NEW S, NEW s \in Seq(S)
    PROVE  /\ ToSet(s) = {s[i] : i \in 1 .. Len(s)}
           /\ ToSet(s) \subseteq S
           /\ DOMAIN s = 1 .. Len(s)
           /\ Len(s) \in Nat
  BY DEF ToSet

-----------------------------------------------------------------------------
(* InsertEvent *)

\* InsertEvent puts e behind what is not later and in front of what is.
LEMMA InsertPositionProperties ==
    ASSUME NEW S, NEW s \in Seq(S), NEW e,
           e.click \in Nat, \A x \in S : x.click \in Nat
    PROVE  /\ InsertPosition(s, e) \in 1 .. Len(s) + 1
           /\ \A i \in 1 .. Len(s) :
                i < InsertPosition(s, e) => s[i].click <= e.click
           /\ InsertPosition(s, e) <= Len(s) =>
                e.click < s[InsertPosition(s, e)].click
  <1> DEFINE later == {i \in DOMAIN s : e.click < s[i].click}
             p     == InsertPosition(s, e)
  <1>0. /\ DOMAIN s = 1 .. Len(s)
        /\ Len(s) \in Nat
        /\ \A i \in 1 .. Len(s) : s[i].click \in Nat
    OBVIOUS
  <1>1. CASE later = {}
    <2>1. p = Len(s) + 1
      BY <1>1 DEF InsertPosition
    <2> QED BY <2>1, <1>0, <1>1
  <1>2. CASE later # {}
    <2>1. \E i \in later : \A j \in later : i <= j
      <3>1. later \in SUBSET Nat
        BY <1>0
      <3> HIDE DEF later
      <3> QED BY <3>1, <1>2, Least
    <2>2. p = CHOOSE i \in later : \A j \in later : i <= j
      BY <1>2 DEF InsertPosition
    <2>3. p \in later /\ \A j \in later : p <= j
      BY <2>1, <2>2
    <2>4. p \in 1 .. Len(s) /\ e.click < s[p].click
      BY <2>3, <1>0
    <2>5. ASSUME NEW i \in 1 .. Len(s), i < p
          PROVE  s[i].click <= e.click
      <3>1. i \notin later
        BY <2>3, <2>4, <2>5
      <3> QED BY <3>1, <1>0
    <2> QED BY <2>4, <2>5, <1>0
  <1> QED BY <1>1, <1>2

\* The list after InsertEvent, element by element.
LEMMA InsertEventProperties ==
    ASSUME NEW S, NEW s \in Seq(S), NEW e \in S,
           \A x \in S : x.click \in Nat
    PROVE  /\ InsertEvent(s, e) \in Seq(S)
           /\ Len(InsertEvent(s, e)) = Len(s) + 1
           /\ \A i \in 1 .. Len(s) + 1 :
                InsertEvent(s, e)[i] =
                    IF i < InsertPosition(s, e) THEN s[i]
                    ELSE IF i = InsertPosition(s, e) THEN e
                    ELSE s[i - 1]
  <1> DEFINE p == InsertPosition(s, e)
             a == SubSeq(s, 1, p - 1)
             b == SubSeq(s, p, Len(s))
  <1>1. p \in 1 .. Len(s) + 1
    BY InsertPositionProperties
  <1>2. /\ a \in Seq(S) /\ Len(a) = p - 1
        /\ \A i \in 1 .. p - 1 : a[i] = s[i]
    <2> HIDE DEF p
    <2> QED BY <1>1, SubSeqProperties
  <1>3. /\ b \in Seq(S) /\ Len(b) = Len(s) + 1 - p
        /\ \A i \in 1 .. Len(s) + 1 - p : b[i] = s[p + i - 1]
    <2> HIDE DEF p
    <2> QED BY <1>1, SubSeqProperties
  <1>4. InsertEvent(s, e) = a \o <<e>> \o b
    BY DEF InsertEvent, InsertAt
  <1> HIDE DEF p, a, b
  <1>5. /\ a \o <<e>> \in Seq(S)
        /\ Len(a \o <<e>>) = p
        /\ \A i \in 1 .. p : (a \o <<e>>)[i] = IF i < p THEN s[i] ELSE e
    BY <1>1, <1>2
  <1> DEFINE c == a \o <<e>>
  <1>6. /\ c \o b \in Seq(S)
        /\ Len(c \o b) = Len(s) + 1
        /\ \A i \in 1 .. Len(s) + 1 :
             (c \o b)[i] = IF i < p THEN s[i] ELSE IF i = p THEN e ELSE s[i - 1]
    <2> HIDE DEF c
    <2>0. c \in Seq(S) /\ Len(c) = p
      BY <1>5 DEF c
    <2>1. c \o b \in Seq(S) /\ Len(c \o b) = Len(s) + 1
      <3>1. c \o b \in Seq(S) /\ Len(c \o b) = Len(c) + Len(b)
        BY <2>0, <1>3, ConcatProperties
      <3> QED BY <3>1, <2>0, <1>1, <1>3
    <2>2. ASSUME NEW i \in 1 .. Len(s) + 1
          PROVE  (c \o b)[i] = IF i <= p THEN c[i] ELSE b[i - p]
      BY <1>1, <1>3, <1>5, ConcatProperties DEF c
    <2>3. ASSUME NEW i \in 1 .. Len(s) + 1, i > p
          PROVE  b[i - p] = s[i - 1]
      BY <1>1, <1>3, <2>3
    <2> QED BY <2>1, <2>2, <2>3, <1>1, <1>5 DEF c
  <1> QED BY <1>4, <1>6 DEF p

\* InsertEvent adds e to the events of the list, and nothing else.
LEMMA InsertEventSet ==
    ASSUME NEW S, NEW s \in Seq(S), NEW e \in S,
           \A x \in S : x.click \in Nat
    PROVE  ToSet(InsertEvent(s, e)) = ToSet(s) \cup {e}
  <1> DEFINE p == InsertPosition(s, e)
             t == InsertEvent(s, e)
  <1>1. p \in 1 .. Len(s) + 1
    BY InsertPositionProperties
  <1>2. /\ t \in Seq(S) /\ Len(t) = Len(s) + 1
        /\ \A i \in 1 .. Len(s) + 1 :
             t[i] = IF i < p THEN s[i] ELSE IF i = p THEN e ELSE s[i - 1]
    BY InsertEventProperties
  <1> HIDE DEF p, t
  <1>3. ASSUME NEW x \in ToSet(t) PROVE x \in ToSet(s) \cup {e}
    <2>1. PICK i \in 1 .. Len(s) + 1 : x = t[i]
      BY <1>2, ToSetOfSeq
    <2>2. CASE i < p
      <3>1. x = s[i] /\ i \in 1 .. Len(s)
        BY <2>1, <2>2, <1>1, <1>2
      <3> QED BY <3>1, ToSetOfSeq
    <2>3. CASE i = p
      BY <2>1, <2>3, <1>2
    <2>4. CASE i > p
      <3>1. x = s[i - 1] /\ i - 1 \in 1 .. Len(s)
        BY <2>1, <2>4, <1>1, <1>2
      <3> QED BY <3>1, ToSetOfSeq
    <2> QED BY <2>2, <2>3, <2>4, <1>1
  <1>4. e \in ToSet(t)
    BY <1>1, <1>2, ToSetOfSeq
  <1>5. ASSUME NEW x \in ToSet(s) PROVE x \in ToSet(t)
    <2>1. PICK i \in 1 .. Len(s) : x = s[i]
      BY ToSetOfSeq
    <2>2. CASE i < p
      <3>1. t[i] = x /\ i \in 1 .. Len(t)
        BY <2>1, <2>2, <1>1, <1>2
      <3> QED BY <3>1, <1>2, ToSetOfSeq
    <2>3. CASE i >= p
      <3>1. t[i + 1] = x /\ i + 1 \in 1 .. Len(t)
        BY <2>1, <2>3, <1>1, <1>2
      <3> QED BY <3>1, <1>2, ToSetOfSeq
    <2> QED BY <2>2, <2>3, <1>1
  <1> QED BY <1>3, <1>4, <1>5 DEF t

\* A list that is ordered by time is ordered by time after InsertEvent.
LEMMA InsertEventOrdered ==
    ASSUME NEW S, NEW s \in Seq(S), NEW e \in S,
           \A x \in S : x.click \in Nat,
           TimeOrdered(s)
    PROVE  TimeOrdered(InsertEvent(s, e))
  <1> DEFINE p == InsertPosition(s, e)
             t == InsertEvent(s, e)
  <1>1. /\ p \in 1 .. Len(s) + 1
        /\ \A i \in 1 .. Len(s) : i < p => s[i].click <= e.click
        /\ p <= Len(s) => e.click < s[p].click
    BY InsertPositionProperties
  <1>2. /\ t \in Seq(S) /\ Len(t) = Len(s) + 1
        /\ \A i \in 1 .. Len(s) + 1 :
             t[i] = IF i < p THEN s[i] ELSE IF i = p THEN e ELSE s[i - 1]
    BY InsertEventProperties
  <1>3. /\ Len(s) \in Nat
        /\ \A i \in 1 .. Len(s) : s[i].click \in Nat
        /\ \A i, j \in 1 .. Len(s) : i < j => s[i].click <= s[j].click
    BY DEF TimeOrdered
  <1>4. \A j \in 1 .. Len(s) : j >= p => e.click <= s[j].click
    <2> HIDE DEF p
    <2> SUFFICES ASSUME NEW j \in 1 .. Len(s), j >= p
                 PROVE  e.click <= s[j].click
      OBVIOUS
    <2>1. p \in 1 .. Len(s) /\ e.click < s[p].click
      BY <1>1
    <2>2. s[p].click <= s[j].click
      BY <2>1, <1>1, <1>3
    <2> QED BY <2>1, <2>2, <1>3
  <1> HIDE DEF p, t
  <1> SUFFICES ASSUME NEW i \in 1 .. Len(s) + 1, NEW j \in 1 .. Len(s) + 1, i < j
               PROVE  t[i].click <= t[j].click
    BY <1>2 DEF TimeOrdered, t
  <1>5. CASE j < p
    <2>1. i \in 1 .. Len(s) /\ j \in 1 .. Len(s) /\ i < p
      BY <1>5, <1>1, <1>3
    <2>2. t[i] = s[i] /\ t[j] = s[j]
      BY <2>1, <1>5, <1>2
    <2> QED BY <2>1, <2>2, <1>3
  <1>6. CASE j = p
    <2>1. i \in 1 .. Len(s) /\ i < p
      BY <1>6, <1>1, <1>3
    <2>2. t[i] = s[i] /\ t[j] = e
      BY <2>1, <1>6, <1>1, <1>2
    <2> QED BY <2>1, <2>2, <1>1
  <1>7. CASE i < p /\ j > p
    <2>1. j - 1 \in 1 .. Len(s) /\ j - 1 >= p /\ i \in 1 .. Len(s)
      BY <1>7, <1>1, <1>3
    <2>2. t[i] = s[i] /\ t[j] = s[j - 1]
      BY <1>7, <1>1, <1>2
    <2>3. i < j - 1
      BY <1>7, <1>1
    <2> QED BY <2>1, <2>2, <2>3, <1>3
  <1>8. CASE i = p
    <2>1. j - 1 \in 1 .. Len(s) /\ j - 1 >= p
      BY <1>8, <1>1, <1>3
    <2>2. t[i] = e /\ t[j] = s[j - 1]
      BY <1>8, <1>1, <1>2
    <2> QED BY <2>1, <2>2, <1>4
  <1>9. CASE i > p
    <2>1. j - 1 \in 1 .. Len(s) /\ i - 1 \in 1 .. Len(s) /\ i - 1 < j - 1
      BY <1>9, <1>1, <1>3
    <2>2. t[i] = s[i - 1] /\ t[j] = s[j - 1]
      BY <1>9, <1>1, <1>2
    <2> QED BY <2>1, <2>2, <1>3
  <1> QED BY <1>1, <1>5, <1>6, <1>7, <1>8, <1>9
-----------------------------------------------------------------------------
(* Tail: PopFirst *)

\* PopFirst takes an element away, and leaves the others in their order.
LEMMA TailProperties ==
    ASSUME NEW S, NEW s \in Seq(S), s # <<>>
    PROVE  /\ Tail(s) \in Seq(S)
           /\ Head(s) \in S
           /\ Head(s) \in ToSet(s)
           /\ ToSet(s) = {Head(s)} \cup ToSet(Tail(s))
           /\ TimeOrdered(s) => TimeOrdered(Tail(s))
  <1> DEFINE t == Tail(s)
  <1>1. /\ t \in Seq(S) /\ Head(s) \in S
        /\ Len(t) = Len(s) - 1
        /\ Len(s) \in Nat \ {0}
        /\ \A i \in 1 .. Len(t) : t[i] = s[i + 1]
        /\ Head(s) = s[1]
    BY HeadTailProperties, EmptySeq
  <1> HIDE DEF t
  <1>2. /\ ToSet(s) = {s[i] : i \in 1 .. Len(s)}
        /\ ToSet(t) = {t[i] : i \in 1 .. Len(t)}
    BY <1>1, ToSetOfSeq
  <1>3. Head(s) \in ToSet(s)
    BY <1>1, <1>2
  <1>4. ASSUME NEW x \in ToSet(t) PROVE x \in ToSet(s)
    <2>1. PICK i \in 1 .. Len(t) : x = t[i]
      BY <1>2
    <2>2. x = s[i + 1] /\ i + 1 \in 1 .. Len(s)
      BY <2>1, <1>1
    <2> QED BY <2>2, <1>2
  <1>5. ASSUME NEW x \in ToSet(s), x # Head(s) PROVE x \in ToSet(t)
    <2>1. PICK i \in 1 .. Len(s) : x = s[i]
      BY <1>2
    <2>2. i - 1 \in 1 .. Len(t) /\ t[i - 1] = x
      BY <2>1, <1>1, <1>5
    <2> QED BY <2>2, <1>2
  <1>6. ASSUME TimeOrdered(s) PROVE TimeOrdered(t)
    <2>1. DOMAIN t = 1 .. Len(t) /\ DOMAIN s = 1 .. Len(s)
      BY <1>1
    <2>2. ASSUME NEW i \in 1 .. Len(t), NEW j \in 1 .. Len(t), i < j
          PROVE  t[i].click <= t[j].click
      <3>1. i + 1 \in 1 .. Len(s) /\ j + 1 \in 1 .. Len(s) /\ i + 1 < j + 1
        BY <2>2, <1>1
      <3>2. s[i + 1].click <= s[j + 1].click
        BY <3>1, <2>1, <1>6 DEF TimeOrdered
      <3> QED BY <3>2, <1>1
    <2> QED BY <2>1, <2>2 DEF TimeOrdered
  <1> QED BY <1>1, <1>3, <1>4, <1>5, <1>6 DEF t

-----------------------------------------------------------------------------
(* Without: DeleteAllId and DeleteAllBefore *)

\* t is made of the elements of s at the positions in kept, in their order.
Picks(t, s, kept) ==
    \E f \in [1 .. Len(t) -> kept] :
        /\ \A q, r \in 1 .. Len(t) : q < r => f[q] < f[r]
        /\ \A r \in 1 .. Len(t) : t[r] = s[f[r]]
        /\ \A i \in kept : \E r \in 1 .. Len(t) : f[r] = i

\* The rank of the positions that are kept is a bijection that keeps their
\* order, so Without(s, D) is s without the positions in D.
LEMMA WithoutProperties ==
    ASSUME NEW S, NEW s \in Seq(S), NEW D
    PROVE  /\ Without(s, D) \in Seq(S)
           /\ Picks(Without(s, D), s, (1 .. Len(s)) \ D)
  <1> DEFINE kept    == DOMAIN s \ D
             upto(i) == {k \in kept : k <= i}
             Rank(i) == Cardinality(upto(i))
             m       == Cardinality(kept)
             g       == [i \in kept |-> Rank(i)]
             f       == [r \in 1 .. m |-> CHOOSE i \in kept : Rank(i) = r]
  <1>1. /\ DOMAIN s = 1 .. Len(s) /\ Len(s) \in Nat
        /\ kept = (1 .. Len(s)) \ D
    OBVIOUS
  <1>2. IsFiniteSet(kept) /\ m \in Nat
    <2>1. IsFiniteSet(1 .. Len(s))
      BY <1>1, FS_Interval
    <2> QED BY <2>1, <1>1, FS_Subset, FS_CardinalityType
  <1>3. ASSUME NEW i \in kept PROVE Rank(i) \in 1 .. m
    <2>1. upto(i) \in SUBSET kept /\ i \in upto(i)
      BY <1>1
    <2> HIDE DEF kept, upto
    <2>2. IsFiniteSet(upto(i)) /\ Rank(i) <= m
      BY <2>1, <1>2, FS_Subset
    <2>3. Rank(i) \in Nat /\ Rank(i) # 0
      BY <2>1, <2>2, FS_CardinalityType, FS_EmptySet
    <2> QED BY <2>2, <2>3, <1>2
  <1>4. ASSUME NEW i \in kept, NEW j \in kept, i < j PROVE Rank(i) < Rank(j)
    <2>1. /\ upto(i) \in SUBSET upto(j) /\ upto(j) \in SUBSET kept
          /\ j \in upto(j) /\ j \notin upto(i)
      BY <1>1, <1>4
    <2> HIDE DEF kept, upto
    <2>2. IsFiniteSet(upto(j))
      BY <2>1, <1>2, FS_Subset
    <2>3. Rank(i) <= Rank(j) /\ Rank(i) # Rank(j)
      BY <2>1, <2>2, FS_Subset
    <2> QED BY <2>3, <1>3
  <1>5. \A r \in 1 .. m : \E i \in kept : Rank(i) = r
    <2>1. g \in Injection(kept, 1 .. m)
      <3>1. g \in [kept -> 1 .. m]
        BY <1>3
      <3>2. ASSUME NEW i \in kept, NEW j \in kept, g[i] = g[j] PROVE i = j
        <4>1. Rank(i) = Rank(j) /\ Rank(i) \in Nat /\ Rank(j) \in Nat
          BY <3>2, <1>3
        <4>2. ~ (i < j) /\ ~ (j < i)
          <5> HIDE DEF kept, Rank
          <5> QED BY <4>1, <1>4
        <4> QED BY <4>2, <1>1
      <3> HIDE DEF g, kept
      <3> QED BY <3>1, <3>2 DEF Injection, IsInjective
    <2>2. IsFiniteSet(1 .. m) /\ Cardinality(1 .. m) = m
      BY <1>2, FS_Interval
    <2>3. g \in Surjection(kept, 1 .. m)
      <3> HIDE DEF g, kept
      <3> QED BY <2>1, <2>2, FS_Injection DEF m
    <2>4. \A r \in 1 .. m : \E i \in kept : g[i] = r
      <3> HIDE DEF g, kept
      <3> QED BY <2>3 DEF Surjection
    <2> QED BY <2>4
  <1>6. /\ f \in [1 .. m -> kept]
        /\ \A r \in 1 .. m : Rank(f[r]) = r
    <2> HIDE DEF kept, Rank, m
    <2> QED BY <1>5
  <1>7. ASSUME NEW q \in 1 .. m, NEW r \in 1 .. m, q < r PROVE f[q] < f[r]
    <2>1. f[q] \in kept /\ f[r] \in kept /\ Rank(f[q]) = q /\ Rank(f[r]) = r
      BY <1>6
    <2>2. ~ (f[r] < f[q]) /\ f[r] # f[q]
      <3> HIDE DEF kept, Rank, m, f
      <3> QED BY <2>1, <1>4, <1>7
    <2> HIDE DEF f
    <2> QED BY <2>1, <2>2, <1>1
  <1>8. \A i \in kept : Rank(i) \in 1 .. m /\ f[Rank(i)] = i
    <2> TAKE i \in kept
    <2>1. Rank(i) \in 1 .. m
      BY <1>3
    <2>2. f[Rank(i)] \in kept /\ Rank(f[Rank(i)]) = Rank(i)
      <3> HIDE DEF kept, Rank, m, f
      <3> QED BY <2>1, <1>6
    <2>3. ~ (f[Rank(i)] < i) /\ ~ (i < f[Rank(i)])
      <3> HIDE DEF kept, m, f
      <3>1. Rank(i) \in Nat
        BY <2>1, <1>2
      <3> HIDE DEF Rank
      <3> QED BY <3>1, <2>2, <1>4
    <2> HIDE DEF f, Rank
    <2> QED BY <2>1, <2>2, <2>3, <1>1
  <1>9. Without(s, D) = [r \in 1 .. m |-> s[f[r]]]
    BY DEF Without
  <1> HIDE DEF f, m, Rank, kept
  <1>10. Without(s, D) \in Seq(S) /\ Len(Without(s, D)) = m
    <2>1. \A r \in 1 .. m : s[f[r]] \in S
      BY <1>1, <1>6
    <2> QED BY <2>1, <1>2, <1>9
  <1>11. Picks(Without(s, D), s, kept)
    BY <1>6, <1>7, <1>8, <1>9, <1>10 DEF Picks
  <1> QED BY <1>1, <1>10, <1>11

\* Deleting leaves the events that stay in their order.
LEMMA WithoutOrdered ==
    ASSUME NEW S, NEW s \in Seq(S), NEW D
    PROVE  /\ Without(s, D) \in Seq(S)
           /\ ToSet(Without(s, D)) = {s[i] : i \in (1 .. Len(s)) \ D}
           /\ ToSet(Without(s, D)) \subseteq ToSet(s)
           /\ TimeOrdered(s) => TimeOrdered(Without(s, D))
  <1> DEFINE t == Without(s, D)
  <1>1. t \in Seq(S) /\ Picks(t, s, (1 .. Len(s)) \ D)
    BY WithoutProperties
  <1> HIDE DEF t
  <1>2. PICK f \in [1 .. Len(t) -> (1 .. Len(s)) \ D] :
          /\ \A q, r \in 1 .. Len(t) : q < r => f[q] < f[r]
          /\ \A r \in 1 .. Len(t) : t[r] = s[f[r]]
          /\ \A i \in (1 .. Len(s)) \ D : \E r \in 1 .. Len(t) : f[r] = i
    BY <1>1 DEF Picks
  <1>3. ToSet(t) = {t[r] : r \in 1 .. Len(t)} /\ ToSet(s) = {s[i] : i \in 1 .. Len(s)}
    BY <1>1, ToSetOfSeq
  <1>4. ASSUME NEW r \in 1 .. Len(t) PROVE f[r] \in (1 .. Len(s)) \ D
    BY <1>2
  <1>5. ToSet(t) = {s[i] : i \in (1 .. Len(s)) \ D}
    <2>1. ASSUME NEW x \in ToSet(t) PROVE \E i \in (1 .. Len(s)) \ D : x = s[i]
      BY <1>2, <1>3, <1>4
    <2>2. ASSUME NEW i \in (1 .. Len(s)) \ D PROVE s[i] \in ToSet(t)
      BY <1>2, <1>3
    <2> QED BY <2>1, <2>2
  <1>6. ASSUME TimeOrdered(s) PROVE TimeOrdered(t)
    <2>1. DOMAIN t = 1 .. Len(t) /\ DOMAIN s = 1 .. Len(s)
      BY <1>1
    <2> SUFFICES ASSUME NEW q \in 1 .. Len(t), NEW r \in 1 .. Len(t), q < r
                 PROVE  t[q].click <= t[r].click
      BY <2>1 DEF TimeOrdered
    <2>2. f[q] \in 1 .. Len(s) /\ f[r] \in 1 .. Len(s) /\ f[q] < f[r]
      BY <1>2, <1>4
    <2>3. s[f[q]].click <= s[f[r]].click
      BY <1>6, <2>1, <2>2 DEF TimeOrdered
    <2> QED BY <2>3, <1>2
  <1> QED BY <1>1, <1>3, <1>5, <1>6 DEF t

\* There is only one way to keep the elements at some positions in their order.
LEMMA PicksUnique ==
    ASSUME NEW S, NEW s, NEW t \in Seq(S), NEW u \in Seq(S), NEW kept \in SUBSET Nat,
           Picks(t, s, kept), Picks(u, s, kept)
    PROVE  t = u
  <1>1. PICK f \in [1 .. Len(t) -> kept] :
          /\ \A q, r \in 1 .. Len(t) : q < r => f[q] < f[r]
          /\ \A r \in 1 .. Len(t) : t[r] = s[f[r]]
          /\ \A i \in kept : \E r \in 1 .. Len(t) : f[r] = i
    BY DEF Picks
  <1>2. PICK g \in [1 .. Len(u) -> kept] :
          /\ \A q, r \in 1 .. Len(u) : q < r => g[q] < g[r]
          /\ \A r \in 1 .. Len(u) : u[r] = s[g[r]]
          /\ \A i \in kept : \E r \in 1 .. Len(u) : g[r] = i
    BY DEF Picks
  <1>3. /\ Len(t) \in Nat /\ Len(u) \in Nat
        /\ \A r \in 1 .. Len(t) : f[r] \in kept /\ f[r] \in Nat
        /\ \A r \in 1 .. Len(u) : g[r] \in kept /\ g[r] \in Nat
    <2>1. \A r \in 1 .. Len(t) : f[r] \in kept
      OBVIOUS
    <2>2. \A r \in 1 .. Len(u) : g[r] \in kept
      OBVIOUS
    <2>3. Len(t) \in Nat /\ Len(u) \in Nat
      OBVIOUS
    <2> QED BY <2>1, <2>2, <2>3
  <1> DEFINE T == {r \in (1 .. Len(t)) \cap (1 .. Len(u)) : f[r] # g[r]}
  <1>4. T = {}
    <2> SUFFICES ASSUME T # {} PROVE FALSE
      OBVIOUS
    <2>1. PICK x \in T : \A y \in T : x <= y
      <3>1. T \in SUBSET Nat
        BY <1>3
      <3> HIDE DEF T
      <3> QED BY <3>1, Least
    <2>2. /\ x \in 1 .. Len(t) /\ x \in 1 .. Len(u) /\ f[x] # g[x]
          /\ \A r \in (1 .. Len(t)) \cap (1 .. Len(u)) : r < x => f[r] = g[r]
      BY <1>3, <2>1
    <2>3. CASE f[x] < g[x]
      <3>1. PICK r \in 1 .. Len(u) : g[r] = f[x]
        BY <1>2, <1>3, <2>2
      <3>2. r < x
        BY <1>2, <1>3, <2>2, <2>3, <3>1
      <3>3. r \in 1 .. Len(t) /\ f[r] = g[r]
        BY <1>3, <2>2, <3>1, <3>2
      <3>4. f[r] < f[x]
        BY <1>1, <2>2, <3>2, <3>3
      <3> QED BY <1>3, <2>2, <3>1, <3>3, <3>4
    <2>4. CASE g[x] < f[x]
      <3>1. PICK r \in 1 .. Len(t) : f[r] = g[x]
        BY <1>1, <1>3, <2>2
      <3>2. r < x
        BY <1>1, <1>3, <2>2, <2>4, <3>1
      <3>3. r \in 1 .. Len(u) /\ f[r] = g[r]
        BY <1>3, <2>2, <3>1, <3>2
      <3>4. g[r] < g[x]
        BY <1>2, <2>2, <3>2, <3>3
      <3> QED BY <1>3, <2>2, <3>1, <3>3, <3>4
    <2> QED BY <1>3, <2>2, <2>3, <2>4
  <1>5. \A r \in 1 .. Len(t) : r \in 1 .. Len(u) => f[r] = g[r]
    BY <1>4
  <1> HIDE DEF T
  <1>6. ~ Len(t) < Len(u)
    <2> SUFFICES ASSUME Len(t) < Len(u) PROVE FALSE
      OBVIOUS
    <2>1. Len(u) \in 1 .. Len(u)
      BY <1>3
    <2>2. PICK r \in 1 .. Len(t) : f[r] = g[Len(u)]
      BY <1>1, <1>3, <2>1
    <2>3. r \in 1 .. Len(u) /\ r < Len(u)
      BY <1>3, <2>2
    <2>4. g[r] = g[Len(u)] /\ g[r] < g[Len(u)]
      BY <1>2, <1>5, <2>1, <2>2, <2>3
    <2> QED BY <1>3, <2>1, <2>4
  <1>7. ~ Len(u) < Len(t)
    <2> SUFFICES ASSUME Len(u) < Len(t) PROVE FALSE
      OBVIOUS
    <2>1. Len(t) \in 1 .. Len(t)
      BY <1>3
    <2>2. PICK r \in 1 .. Len(u) : g[r] = f[Len(t)]
      BY <1>2, <1>3, <2>1
    <2>3. r \in 1 .. Len(t) /\ r < Len(t)
      BY <1>3, <2>2
    <2>4. f[r] = f[Len(t)] /\ f[r] < f[Len(t)]
      BY <1>1, <1>5, <2>1, <2>2, <2>3
    <2> QED BY <1>3, <2>1, <2>4
  <1>8. Len(t) = Len(u)
    BY <1>3, <1>6, <1>7
  <1>9. \A r \in 1 .. Len(t) : t[r] = u[r]
    BY <1>1, <1>2, <1>5, <1>8
  <1> QED BY <1>8, <1>9

\* Deleting nothing changes nothing.
LEMMA WithoutNothing ==
    ASSUME NEW S, NEW s \in Seq(S)
    PROVE  Without(s, {}) = s
  <1>1. (1 .. Len(s)) \ {} = 1 .. Len(s) /\ (1 .. Len(s)) \in SUBSET Nat
    OBVIOUS
  <1>2. Picks(s, s, 1 .. Len(s))
    <2> DEFINE f == [r \in 1 .. Len(s) |-> r]
    <2>1. /\ f \in [1 .. Len(s) -> 1 .. Len(s)]
          /\ \A r \in 1 .. Len(s) : f[r] = r
      OBVIOUS
    <2> HIDE DEF f
    <2> QED BY <2>1 DEF Picks
  <1>3. Without(s, {}) \in Seq(S) /\ Picks(Without(s, {}), s, 1 .. Len(s))
    BY <1>1, WithoutProperties
  <1> QED BY <1>1, <1>2, <1>3, PicksUnique

\* Deleting at D what includes p is taking p out, and deleting the rest of D.
LEMMA WithoutRemoved ==
    ASSUME NEW S, NEW s \in Seq(S), NEW t \in Seq(S), NEW p \in 1 .. Len(s),
           NEW D, NEW C, p \in D, Len(t) = Len(s) - 1,
           \A i \in 1 .. Len(t) : t[i] = IF i < p THEN s[i] ELSE s[i + 1],
           \A i \in 1 .. Len(t) : i \in C <=> (IF i < p THEN i ELSE i + 1) \in D
    PROVE  Without(t, C) = Without(s, D)
  <1> DEFINE w    == Without(t, C)
             a(i) == IF i < p THEN i ELSE i + 1
             kept == (1 .. Len(s)) \ D
             left == (1 .. Len(t)) \ C
  <1>1. /\ Len(s) \in Nat /\ Len(t) \in Nat /\ p \in Nat
        /\ \A i \in 1 .. Len(t) : i \in Nat
    OBVIOUS
  <1>2. w \in Seq(S) /\ Picks(w, t, left)
    BY WithoutProperties
  <1> HIDE DEF w
  <1>3. PICK f \in [1 .. Len(w) -> left] :
          /\ \A q, r \in 1 .. Len(w) : q < r => f[q] < f[r]
          /\ \A r \in 1 .. Len(w) : w[r] = t[f[r]]
          /\ \A i \in left : \E r \in 1 .. Len(w) : f[r] = i
    BY <1>2 DEF Picks
  <1>4. \A i \in 1 .. Len(t) : a(i) \in 1 .. Len(s) /\ t[i] = s[a(i)]
    BY <1>1
  <1>5. \A i \in left : i \in 1 .. Len(t) /\ a(i) \in kept
    BY <1>4
  <1>6. \A i \in kept : \E j \in left : a(j) = i
    <2> TAKE i \in kept
    <2>1. i \in 1 .. Len(s) /\ i # p /\ i \notin D
      OBVIOUS
    <2>2. CASE i < p
      <3>1. i \in 1 .. Len(t) /\ a(i) = i
        BY <1>1, <2>1, <2>2
      <3>2. i \in left
        BY <2>1, <3>1
      <3> QED BY <3>1, <3>2
    <2>3. CASE i > p
      <3>1. i - 1 \in 1 .. Len(t) /\ a(i - 1) = i
        BY <1>1, <2>1, <2>3
      <3>2. i - 1 \in left
        BY <2>1, <3>1
      <3> QED BY <3>1, <3>2
    <2> QED BY <1>1, <2>1, <2>2, <2>3
  <1>7. \A i, j \in 1 .. Len(t) : i < j => a(i) < a(j)
    BY <1>1
  <1> HIDE DEF a, kept, left
  <1>8. Picks(w, s, kept)
    <2> DEFINE g == [r \in 1 .. Len(w) |-> a(f[r])]
    <2>1. \A r \in 1 .. Len(w) : f[r] \in left /\ f[r] \in 1 .. Len(t) /\ g[r] = a(f[r])
      BY <1>5
    <2>2. g \in [1 .. Len(w) -> kept]
      BY <1>5
    <2> HIDE DEF g
    <2>3. ASSUME NEW q \in 1 .. Len(w), NEW r \in 1 .. Len(w), q < r
          PROVE  g[q] < g[r]
      <3>1. f[q] < f[r] /\ f[q] \in 1 .. Len(t) /\ f[r] \in 1 .. Len(t)
        BY <1>3, <2>1, <2>3
      <3>2. a(f[q]) < a(f[r])
        BY <1>7, <3>1
      <3> QED BY <2>1, <3>2
    <2>4. ASSUME NEW r \in 1 .. Len(w) PROVE w[r] = s[g[r]]
      <3>1. w[r] = t[f[r]] /\ f[r] \in 1 .. Len(t) /\ g[r] = a(f[r])
        BY <1>3, <2>1
      <3> QED BY <1>4, <3>1
    <2>5. ASSUME NEW i \in kept PROVE \E r \in 1 .. Len(w) : g[r] = i
      <3>1. PICK j \in left : a(j) = i
        BY <1>6
      <3>2. PICK r \in 1 .. Len(w) : f[r] = j
        BY <1>3
      <3> QED BY <2>1, <3>1, <3>2
    <2> QED BY <2>2, <2>3, <2>4, <2>5 DEF Picks
  <1>9. Without(s, D) \in Seq(S) /\ Picks(Without(s, D), s, kept)
    BY WithoutProperties DEF kept
  <1>10. kept \in SUBSET Nat
    BY <1>1 DEF kept
  <1> QED BY <1>2, <1>8, <1>9, <1>10, PicksUnique DEF w

\* There is only one position behind what is not later and in front of what is.
LEMMA InsertPositionUnique ==
    ASSUME NEW S, NEW s \in Seq(S), NEW e, e.click \in Nat, \A x \in S : x.click \in Nat,
           NEW p \in 1 .. Len(s) + 1,
           \A i \in 1 .. Len(s) : i < p => s[i].click <= e.click,
           \A i \in 1 .. Len(s) : i >= p => e.click < s[i].click
    PROVE  InsertPosition(s, e) = p
  <1> DEFINE q == InsertPosition(s, e)
  <1>1. /\ q \in 1 .. Len(s) + 1
        /\ \A i \in 1 .. Len(s) : i < q => s[i].click <= e.click
        /\ q <= Len(s) => e.click < s[q].click
    BY InsertPositionProperties
  <1>2. Len(s) \in Nat /\ \A i \in 1 .. Len(s) : s[i].click \in Nat
    OBVIOUS
  <1> HIDE DEF q
  <1>3. ~ p < q
    <2> SUFFICES ASSUME p < q PROVE FALSE
      OBVIOUS
    <2>1. p \in 1 .. Len(s)
      BY <1>1, <1>2
    <2> QED BY <1>1, <1>2, <2>1
  <1>4. ~ q < p
    <2> SUFFICES ASSUME q < p PROVE FALSE
      OBVIOUS
    <2>1. q \in 1 .. Len(s)
      BY <1>1, <1>2
    <2> QED BY <1>1, <1>2, <2>1
  <1> QED BY <1>1, <1>3, <1>4 DEF q

\* s with e at position p.
Insertion(s, p, e) ==
    [i \in 1 .. Len(s) + 1 |-> IF i < p THEN s[i] ELSE IF i = p THEN e ELSE s[i - 1]]

\* InsertEvent inserts at the position that is behind what is not later and in
\* front of what is.
LEMMA InsertEventAt ==
    ASSUME NEW S, NEW s \in Seq(S), NEW e \in S, \A x \in S : x.click \in Nat,
           NEW p \in 1 .. Len(s) + 1,
           \A i \in 1 .. Len(s) : i < p => s[i].click <= e.click,
           \A i \in 1 .. Len(s) : i >= p => e.click < s[i].click
    PROVE  InsertEvent(s, e) = Insertion(s, p, e)
  <1>1. InsertPosition(s, e) = p
    BY InsertPositionUnique
  <1> DEFINE t == InsertEvent(s, e)
  <1>2. /\ t \in Seq(S) /\ Len(t) = Len(s) + 1
        /\ \A i \in 1 .. Len(s) + 1 :
              t[i] = IF i < p THEN s[i] ELSE IF i = p THEN e ELSE s[i - 1]
    BY <1>1, InsertEventProperties
  <1> HIDE DEF t
  <1>3. t = [i \in 1 .. Len(s) + 1 |-> t[i]]
    BY <1>2
  <1> QED BY <1>2, <1>3 DEF Insertion, t
=============================================================================
