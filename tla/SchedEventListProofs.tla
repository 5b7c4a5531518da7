------------------------ MODULE SchedEventListProofs ------------------------
(***************************************************************************)
(* The doubly linked list, under its lock, is the sequence that EventQueue *)
(* says it is: for any number of events, and any sequence of operations,   *)
(* whatever step of a deleting loop is looked at.                          *)
(***************************************************************************)
EXTENDS SchedEventList, EventListProofs

-----------------------------------------------------------------------------
(* Sequences *)

\* s without what is at position p.
Removal(s, p) ==
    [i \in 1 .. Len(s) - 1 |-> IF i < p THEN s[i] ELSE s[i + 1]]

Distinct(s) == \A i, j \in 1 .. Len(s) : s[i] = s[j] => i = j

\* An insertion is a sequence again, with one element more.
LEMMA InsertionProperties ==
    ASSUME NEW S, NEW s \in Seq(S), NEW p \in 1 .. Len(s) + 1, NEW e \in S
    PROVE  /\ Insertion(s, p, e) \in Seq(S)
           /\ Len(Insertion(s, p, e)) = Len(s) + 1
           /\ \A i \in 1 .. Len(s) + 1 :
                Insertion(s, p, e)[i] =
                    IF i < p THEN s[i] ELSE IF i = p THEN e ELSE s[i - 1]
           /\ ToSet(Insertion(s, p, e)) = ToSet(s) \cup {e}
           /\ Distinct(s) /\ e \notin ToSet(s) => Distinct(Insertion(s, p, e))
  <1> DEFINE t == Insertion(s, p, e)
  <1>1. Len(s) \in Nat /\ \A i \in 1 .. Len(s) : s[i] \in S
    OBVIOUS
  <1>2. \A i \in 1 .. Len(s) + 1 :
            (IF i < p THEN s[i] ELSE IF i = p THEN e ELSE s[i - 1]) \in S
    BY <1>1
  <1>3. /\ t \in Seq(S) /\ Len(t) = Len(s) + 1
        /\ \A i \in 1 .. Len(s) + 1 :
              t[i] = IF i < p THEN s[i] ELSE IF i = p THEN e ELSE s[i - 1]
    BY <1>1, <1>2 DEF Insertion
  <1> HIDE DEF t
  <1>4. /\ ToSet(s) = {s[i] : i \in 1 .. Len(s)}
        /\ ToSet(t) = {t[i] : i \in 1 .. Len(s) + 1}
    BY <1>3, ToSetOfSeq
  <1>5. ASSUME NEW i \in 1 .. Len(s) + 1 PROVE t[i] \in ToSet(s) \cup {e}
    <2>1. i < p => i \in 1 .. Len(s)
      BY <1>1
    <2>2. i > p => i - 1 \in 1 .. Len(s)
      BY <1>1
    <2>3. i < p \/ i = p \/ i > p
      BY <1>1
    <2> QED BY <1>3, <1>4, <2>1, <2>2, <2>3
  <1>6. ASSUME NEW i \in 1 .. Len(s) PROVE s[i] \in ToSet(t)
    <2>1. CASE i < p
      BY <1>1, <1>3, <1>4, <2>1
    <2>2. CASE i >= p
      <3>1. i + 1 \in 1 .. Len(s) + 1 /\ t[i + 1] = s[i]
        BY <1>1, <1>3, <2>2
      <3> QED BY <1>4, <3>1
    <2> QED BY <1>1, <2>1, <2>2
  <1>7. e \in ToSet(t)
    BY <1>3, <1>4
  <1>8. ToSet(t) = ToSet(s) \cup {e}
    BY <1>4, <1>5, <1>6, <1>7
  <1>9. ASSUME Distinct(s), e \notin ToSet(s) PROVE Distinct(t)
    <2>1. \A i \in 1 .. Len(s) : s[i] # e
      BY <1>4, <1>9
    <2>2. \A i, j \in 1 .. Len(s) : s[i] = s[j] => i = j
      BY <1>9 DEF Distinct
    <2> SUFFICES ASSUME NEW i \in 1 .. Len(s) + 1, NEW j \in 1 .. Len(s) + 1, t[i] = t[j]
                 PROVE  i = j
      BY <1>3 DEF Distinct
    <2> DEFINE a(n) == IF n < p THEN n ELSE n - 1
    <2>3. \A n \in 1 .. Len(s) + 1 :
              IF n = p THEN t[n] = e ELSE t[n] = s[a(n)] /\ a(n) \in 1 .. Len(s)
      BY <1>1, <1>3
    <2>4. CASE i = p \/ j = p
      BY <2>1, <2>3, <2>4
    <2>5. CASE i # p /\ j # p
      <3>1. a(i) = a(j)
        <4> HIDE DEF a
        <4> QED BY <2>2, <2>3, <2>5
      <3> QED BY <2>5, <3>1, <1>1
    <2> QED BY <2>4, <2>5
  <1> QED BY <1>3, <1>8, <1>9 DEF t

\* A removal is one with one element fewer.
LEMMA RemovalProperties ==
    ASSUME NEW S, NEW s \in Seq(S), Distinct(s), NEW p \in 1 .. Len(s)
    PROVE  /\ Removal(s, p) \in Seq(S)
           /\ Len(Removal(s, p)) = Len(s) - 1
           /\ \A i \in 1 .. Len(s) - 1 :
                Removal(s, p)[i] = IF i < p THEN s[i] ELSE s[i + 1]
           /\ ToSet(Removal(s, p)) = ToSet(s) \ {s[p]}
           /\ Distinct(Removal(s, p))
  <1> DEFINE t == Removal(s, p)
  <1>1. Len(s) \in Nat /\ \A i \in 1 .. Len(s) : s[i] \in S
    OBVIOUS
  <1>2. \A i \in 1 .. Len(s) - 1 : (IF i < p THEN s[i] ELSE s[i + 1]) \in S
    BY <1>1
  <1>3. /\ t \in Seq(S) /\ Len(t) = Len(s) - 1
        /\ \A i \in 1 .. Len(s) - 1 : t[i] = IF i < p THEN s[i] ELSE s[i + 1]
    BY <1>1, <1>2 DEF Removal
  <1> HIDE DEF t
  <1>4. /\ ToSet(s) = {s[i] : i \in 1 .. Len(s)}
        /\ ToSet(t) = {t[i] : i \in 1 .. Len(s) - 1}
    BY <1>3, ToSetOfSeq
  <1>5. \A i, j \in 1 .. Len(s) : s[i] = s[j] => i = j
    BY DEF Distinct
  <1> DEFINE a(n) == IF n < p THEN n ELSE n + 1
  <1>6. \A n \in 1 .. Len(s) - 1 : t[n] = s[a(n)] /\ a(n) \in 1 .. Len(s) /\ a(n) # p
    BY <1>1, <1>3
  <1>7. ASSUME NEW i \in 1 .. Len(s), i # p PROVE s[i] \in ToSet(t)
    <2>1. CASE i < p
      BY <1>1, <1>3, <1>4, <2>1
    <2>2. CASE i > p
      <3>1. i - 1 \in 1 .. Len(s) - 1 /\ t[i - 1] = s[i]
        BY <1>1, <1>3, <2>2
      <3> QED BY <1>4, <3>1
    <2> QED BY <1>1, <1>7, <2>1, <2>2
  <1>8. ToSet(t) = ToSet(s) \ {s[p]}
    <2> HIDE DEF a
    <2>1. ASSUME NEW x \in ToSet(t) PROVE x \in ToSet(s) \ {s[p]}
      <3>1. PICK n \in 1 .. Len(s) - 1 : x = t[n]
        BY <1>4
      <3>2. x = s[a(n)] /\ a(n) \in 1 .. Len(s) /\ a(n) # p
        BY <1>6, <3>1
      <3>3. x # s[p]
        BY <1>5, <3>2
      <3> QED BY <1>4, <3>2, <3>3
    <2> QED BY <1>4, <1>7, <2>1
  <1>9. Distinct(t)
    <2> SUFFICES ASSUME NEW i \in 1 .. Len(s) - 1, NEW j \in 1 .. Len(s) - 1, t[i] = t[j]
                 PROVE  i = j
      BY <1>3 DEF Distinct
    <2>1. a(i) = a(j)
      <3> HIDE DEF a
      <3> QED BY <1>5, <1>6
    <2> QED BY <2>1, <1>1
  <1> QED BY <1>3, <1>8, <1>9 DEF t

-----------------------------------------------------------------------------
(* The links represent a sequence *)

\* From m_first, the links lead through s to m_last and then to NULL, and back.
Chain(s, f, l, nx, pv) ==
    /\ s \in Seq(Ids) /\ Distinct(s)
    /\ s = <<>> => f = Null
    /\ s # <<>> => f = s[1] /\ l = s[Len(s)]
    /\ \A i \in 1 .. Len(s) :
          /\ nx[s[i]] = IF i = Len(s) THEN Null ELSE s[i + 1]
          /\ pv[s[i]] = IF i = 1 THEN Null ELSE s[i - 1]

IsChain(s) == Chain(s, first, last, next, prev)

ChainNext(s) == Chain(s, first', last', next', prev')

\* A sequence without repetition is no longer than there are addresses.
LEMMA DistinctIsShort ==
    ASSUME NEW s \in Seq(Ids), Distinct(s)
    PROVE  Len(s) \in Nat /\ Cardinality(Ids) \in Nat /\ Len(s) <= Cardinality(Ids)
  <1>1. Len(s) \in Nat /\ DOMAIN s = 1 .. Len(s)
    OBVIOUS
  <1>2. s \in Injection(1 .. Len(s), Ids)
    BY DEF Distinct, Injection, IsInjective
  <1>3. Cardinality(1 .. Len(s)) = Len(s)
    BY <1>1, FS_Interval
  <1> QED BY <1>1, <1>2, <1>3, ListAssumption, FS_Injection, FS_CardinalityType

\* What the traversal from m_first meets is this sequence.
TraversalsFollowChains ==
    \A s \in Seq(Ids) : IsChain(s) => Contents = s /\ Length = Len(s)

\* Reached is recursive; that it follows the chain is shown by the least position
\* where it would not.
LEMMA ChainIsContents == TraversalsFollowChains
  <1> SUFFICES ASSUME NEW s \in Seq(Ids), IsChain(s)
               PROVE  Contents = s /\ Length = Len(s)
    BY DEF TraversalsFollowChains
  <1> DEFINE max  == Cardinality(Ids)
             F(g) == [n \in 0 .. max |->
                         IF n = 0 THEN first
                         ELSE IF g[n - 1] = Null THEN Null ELSE next[g[n - 1]]]
             h    == [n \in 0 .. max |-> IF n < Len(s) THEN s[n + 1] ELSE Null]
  <1>1. Len(s) \in Nat /\ max \in Nat /\ Len(s) <= max
    BY DistinctIsShort DEF IsChain, Chain
  <1>2. /\ \A i \in 1 .. Len(s) : s[i] \in Ids /\ s[i] # Null
        /\ \A i \in 1 .. Len(s) : next[s[i]] = IF i = Len(s) THEN Null ELSE s[i + 1]
        /\ first = IF Len(s) = 0 THEN Null ELSE s[1]
    BY ListAssumption, EmptySeq DEF IsChain, Chain
  <1> HIDE DEF max
  <1>3. h = F(h)
    <2> SUFFICES ASSUME NEW n \in 0 .. max
                 PROVE  h[n] = IF n = 0 THEN first
                               ELSE IF h[n - 1] = Null THEN Null ELSE next[h[n - 1]]
      OBVIOUS
    <2>1. CASE n = 0
      BY <1>1, <1>2, <2>1
    <2>2. CASE n # 0 /\ n - 1 < Len(s)
      <3>1. n \in 1 .. Len(s) /\ h[n - 1] = s[n] /\ n - 1 \in 0 .. max
        BY <1>1, <2>2
      <3> QED BY <1>1, <1>2, <2>2, <3>1
    <2>3. CASE n # 0 /\ ~ n - 1 < Len(s)
      BY <1>1, <2>3
    <2> QED BY <2>1, <2>2, <2>3
  <1>4. Reached = F(Reached)
    <2>1. Reached = CHOOSE g : g = F(g)
      BY DEF Reached, max
    <2> HIDE DEF F, h
    <2> QED BY <1>3, <2>1
  <1>5. \A n \in 0 .. max : Reached[n] = h[n]
    <2> DEFINE T == {n \in 0 .. max : Reached[n] # h[n]}
    <2>1. CASE T = {}
      BY <2>1
    <2>2. CASE T # {}
      <3>1. T \in SUBSET Nat
        BY <1>1
      <3>2. PICK x \in T : \A y \in T : x <= y
        <4> HIDE DEF T
        <4> QED BY <2>2, <3>1, Least
      <3>3. x # 0
        BY <1>1, <1>3, <1>4, <3>2
      <3>4. x - 1 \in 0 .. max /\ Reached[x - 1] = h[x - 1]
        BY <1>1, <3>2, <3>3
      <3>5. Reached[x] = F(Reached)[x] /\ h[x] = F(h)[x]
        <4> HIDE DEF F, h
        <4> QED BY <1>3, <1>4
      <3> QED BY <3>2, <3>3, <3>4, <3>5
    <2> QED BY <2>1, <2>2
  <1> HIDE DEF F
  <1>6. DOMAIN Reached = 0 .. max
    BY <1>4 DEF F
  <1>7. Length = Len(s)
    <2>1. \A n \in 0 .. max : h[n] # Null <=> n < Len(s)
      BY <1>1, <1>2
    <2> HIDE DEF h
    <2>2. {n \in DOMAIN Reached : Reached[n] # Null} = {n \in 0 .. max : n < Len(s)}
      BY <1>5, <1>6, <2>1
    <2>3. {n \in 0 .. max : n < Len(s)} = 0 .. Len(s) - 1
      BY <1>1
    <2>4. Cardinality(0 .. Len(s) - 1) = Len(s)
      <3>1. 0 \in Int /\ Len(s) - 1 \in Int
        BY <1>1
      <3>2. Cardinality(0 .. Len(s) - 1) =
                IF 0 > Len(s) - 1 THEN 0 ELSE (Len(s) - 1) - 0 + 1
        BY <3>1, FS_Interval
      <3> QED BY <1>1, <3>2
    <2> QED BY <2>2, <2>3, <2>4 DEF Length
  <1>8. Contents = s
    <2>1. s = [i \in 1 .. Len(s) |-> s[i]]
      OBVIOUS
    <2>2. \A i \in 1 .. Len(s) : Reached[i - 1] = s[i]
      BY <1>1, <1>5
    <2> HIDE DEF h
    <2> QED BY <1>7, <2>1, <2>2 DEF Contents
  <1> QED BY <1>7, <1>8

-----------------------------------------------------------------------------
(* Linking and unlinking *)

LinkTypes ==
    /\ next \in [Ids -> Ids \cup {Null}] /\ prev \in [Ids -> Ids \cup {Null}]
    /\ first \in Ids \cup {Null} /\ last \in Ids \cup {Null}

\* What the links have to become for e to be at position p of s.
Splices(s, p, e) ==
    /\ first' = IF p = 1 THEN e ELSE first
    /\ last' = IF p = Len(s) + 1 THEN e ELSE last
    /\ next'[e] = IF p = Len(s) + 1 THEN Null ELSE s[p]
    /\ prev'[e] = IF p = 1 THEN Null ELSE s[p - 1]
    /\ \A i \in 1 .. Len(s) : next'[s[i]] = IF i = p - 1 THEN e ELSE next[s[i]]
    /\ \A i \in 1 .. Len(s) : prev'[s[i]] = IF i = p THEN e ELSE prev[s[i]]

\* Then the links lead through s with e in it.
LEMMA InsertionIsChain ==
    ASSUME NEW s \in Seq(Ids), IsChain(s), NEW p \in 1 .. Len(s) + 1,
           NEW e \in Ids, e \notin ToSet(s), Splices(s, p, e)
    PROVE  ChainNext(Insertion(s, p, e))
  <1> USE DEF Splices
  <1> DEFINE t == Insertion(s, p, e)
  <1>1. /\ t \in Seq(Ids) /\ Len(t) = Len(s) + 1 /\ Distinct(t)
        /\ \A i \in 1 .. Len(s) + 1 :
              t[i] = IF i < p THEN s[i] ELSE IF i = p THEN e ELSE s[i - 1]
    BY InsertionProperties DEF IsChain, ChainNext, Chain
  <1> HIDE DEF t
  <1>2. Len(s) \in Nat /\ t # <<>>
    BY <1>1
  <1>3. /\ s # <<>> => first = s[1] /\ last = s[Len(s)]
        /\ s = <<>> <=> Len(s) = 0
        /\ \A i \in 1 .. Len(s) :
              /\ next[s[i]] = IF i = Len(s) THEN Null ELSE s[i + 1]
              /\ prev[s[i]] = IF i = 1 THEN Null ELSE s[i - 1]
    BY EmptySeq DEF IsChain, ChainNext, Chain
  <1>4. first' = t[1] /\ last' = t[Len(s) + 1]
    BY <1>1, <1>2, <1>3
  <1>5. ASSUME NEW i \in 1 .. Len(s) + 1
        PROVE  /\ next'[t[i]] = IF i = Len(s) + 1 THEN Null ELSE t[i + 1]
               /\ prev'[t[i]] = IF i = 1 THEN Null ELSE t[i - 1]
    <2>1. CASE i < p
      <3>1. t[i] = s[i] /\ i \in 1 .. Len(s)
        BY <1>1, <1>2, <2>1
      <3>2. prev'[t[i]] = IF i = 1 THEN Null ELSE t[i - 1]
        BY <1>1, <1>2, <1>3, <2>1, <3>1
      <3>3. CASE i = p - 1
        BY <1>1, <1>2, <3>1, <3>2, <3>3
      <3>4. CASE i # p - 1
        BY <1>1, <1>2, <1>3, <2>1, <3>1, <3>2, <3>4
      <3> QED BY <3>3, <3>4
    <2>2. CASE i = p
      BY <1>1, <1>2, <2>2
    <2>3. CASE i > p
      <3>1. t[i] = s[i - 1] /\ i - 1 \in 1 .. Len(s)
        BY <1>1, <1>2, <2>3
      <3>2. next'[t[i]] = IF i = Len(s) + 1 THEN Null ELSE t[i + 1]
        BY <1>1, <1>2, <1>3, <2>3, <3>1
      <3>3. CASE i = p + 1
        BY <1>1, <1>2, <3>1, <3>2, <3>3
      <3>4. CASE i # p + 1
        <4> DEFINE j == i - 1
        <4>1. j \in 1 .. Len(s) /\ j > p /\ j # 1
          BY <1>2, <2>3, <3>4
        <4>2. prev'[s[j]] = s[j - 1]
          <5> HIDE DEF j
          <5> QED BY <1>2, <1>3, <4>1
        <4>3. t[j] = s[j - 1]
          <5> HIDE DEF j
          <5> QED BY <1>1, <1>2, <4>1
        <4> QED BY <1>2, <2>3, <3>1, <3>2, <4>2, <4>3
      <3> QED BY <3>3, <3>4
    <2> QED BY <1>2, <2>1, <2>2, <2>3
  <1>6. ChainNext(t)
    BY <1>1, <1>2, <1>4, <1>5 DEF IsChain, ChainNext, Chain
  <1> QED BY <1>6 DEF t

\* What the links have to become for the event at position p to leave s; m_last
\* need not when the list gets empty.
Cuts(s, p) ==
    /\ Len(s) = 1 => first' = Null
    /\ Len(s) # 1 => /\ first' = IF p = 1 THEN s[2] ELSE first
                     /\ last' = IF p = Len(s) THEN s[p - 1] ELSE last
    /\ \A i \in 1 .. Len(s) :
          i # p => /\ next'[s[i]] = IF i = p - 1 THEN next[s[p]] ELSE next[s[i]]
                   /\ prev'[s[i]] = IF i = p + 1 THEN prev[s[p]] ELSE prev[s[i]]

\* Then the links lead through s without it.
LEMMA RemovalIsChain ==
    ASSUME NEW s \in Seq(Ids), IsChain(s), NEW p \in 1 .. Len(s), Cuts(s, p)
    PROVE  ChainNext(Removal(s, p))
  <1> USE DEF Cuts
  <1> DEFINE t == Removal(s, p)
  <1>1. /\ t \in Seq(Ids) /\ Len(t) = Len(s) - 1 /\ Distinct(t)
        /\ \A i \in 1 .. Len(s) - 1 : t[i] = IF i < p THEN s[i] ELSE s[i + 1]
    BY RemovalProperties DEF IsChain, ChainNext, Chain
  <1> HIDE DEF t
  <1>2. /\ Len(s) \in Nat \ {0} /\ s # <<>>
        /\ t = <<>> <=> Len(s) = 1
    <2>1. Len(t) = 0 <=> t = <<>>
      BY <1>1, EmptySeq
    <2>2. Len(s) \in Nat \ {0} /\ s # <<>>
      BY EmptySeq
    <2> QED BY <1>1, <2>1, <2>2
  <1>3. /\ first = s[1] /\ last = s[Len(s)]
        /\ \A i \in 1 .. Len(s) :
              /\ next[s[i]] = IF i = Len(s) THEN Null ELSE s[i + 1]
              /\ prev[s[i]] = IF i = 1 THEN Null ELSE s[i - 1]
    BY <1>2 DEF IsChain, ChainNext, Chain
  <1>4. Len(s) # 1 => first' = t[1] /\ last' = t[Len(s) - 1]
    BY <1>1, <1>2, <1>3
  <1>5. ASSUME NEW i \in 1 .. Len(s) - 1
        PROVE  /\ next'[t[i]] = IF i = Len(s) - 1 THEN Null ELSE t[i + 1]
               /\ prev'[t[i]] = IF i = 1 THEN Null ELSE t[i - 1]
    <2>1. CASE i < p
      <3>1. t[i] = s[i] /\ i \in 1 .. Len(s) /\ i # p
        BY <1>1, <1>2, <2>1
      <3>2. prev'[t[i]] = IF i = 1 THEN Null ELSE t[i - 1]
        BY <1>1, <1>2, <1>3, <2>1, <3>1
      <3>3. CASE i = p - 1
        BY <1>1, <1>2, <1>3, <3>1, <3>2, <3>3
      <3>4. CASE i # p - 1
        <4>1. t[i + 1] = s[i + 1] /\ i # Len(s) /\ i # Len(s) - 1
          BY <1>1, <1>2, <2>1, <3>4
        <4>2. next'[s[i]] = s[i + 1]
          BY <1>2, <1>3, <3>1, <3>4, <4>1
        <4> QED BY <3>1, <3>2, <4>1, <4>2
      <3> QED BY <3>3, <3>4
    <2>2. CASE i >= p
      <3>1. t[i] = s[i + 1] /\ i + 1 \in 1 .. Len(s) /\ i + 1 # p
        BY <1>1, <1>2, <2>2
      <3> DEFINE j == i + 1
      <3>2. next'[t[i]] = IF i = Len(s) - 1 THEN Null ELSE t[i + 1]
        <4>1. next'[s[j]] = IF j = Len(s) THEN Null ELSE s[j + 1]
          <5>1. j # p - 1
            BY <1>2, <2>2
          <5> HIDE DEF j
          <5> QED BY <1>2, <1>3, <3>1, <5>1 DEF j
        <4>2. j # Len(s) => t[j] = s[j + 1]
          <5>1. j # Len(s) => j \in 1 .. Len(s) - 1 /\ ~ j < p
            BY <1>2, <2>2
          <5> HIDE DEF j
          <5> QED BY <1>1, <5>1
        <4> QED BY <1>2, <3>1, <4>1, <4>2
      <3>3. CASE i = p
        BY <1>1, <1>2, <1>3, <3>1, <3>2, <3>3
      <3>4. CASE i # p
        <4>1. prev'[s[j]] = s[i]
          <5>1. j # p + 1 /\ j # 1 /\ j \in 1 .. Len(s) /\ j # p /\ i = j - 1
            BY <1>2, <2>2, <3>4
          <5> HIDE DEF j
          <5> QED BY <1>3, <5>1
        <4>2. t[i - 1] = s[i] /\ i # 1
          <5>1. i - 1 \in 1 .. Len(s) - 1 /\ ~ i - 1 < p /\ i - 1 + 1 = i
            BY <1>2, <2>2, <3>4
          <5> QED BY <1>1, <5>1
        <4> QED BY <3>1, <3>2, <4>1, <4>2
      <3> QED BY <3>3, <3>4
    <2> QED BY <1>2, <2>1, <2>2
  <1>6. ChainNext(t)
    BY <1>1, <1>2, <1>4, <1>5 DEF IsChain, ChainNext, Chain
  <1> QED BY <1>6 DEF t

\* The list is in the order of the clicks.
Ordered(s) ==
    \A i, j \in 1 .. Len(s) : i < j => ev[s[i]].click <= ev[s[j]].click

\* InsertEvent's four cases put e behind what is not later, in front of what is.
LEMMA LinkInserts ==
    ASSUME NEW s \in Seq(Ids), IsChain(s), LinkTypes, Ordered(s),
           \A i \in 1 .. Len(s) : ev[s[i]].click \in Nat,
           NEW e \in Ids, e \notin ToSet(s), NEW click \in Nat, Link(e, click)
    PROVE  \E p \in 1 .. Len(s) + 1 :
              /\ ChainNext(Insertion(s, p, e))
              /\ \A i \in 1 .. Len(s) : i < p => ev[s[i]].click <= click
              /\ \A i \in 1 .. Len(s) : i >= p => click < ev[s[i]].click
  <1>1. /\ Len(s) \in Nat
        /\ s = <<>> => Len(s) = 0 /\ first = Null
        /\ s # <<>> => Len(s) > 0 /\ first = s[1] /\ last = s[Len(s)]
        /\ \A i \in 1 .. Len(s) : s[i] \in Ids /\ s[i] # Null /\ s[i] # e
        /\ \A i, j \in 1 .. Len(s) : s[i] = s[j] => i = j
        /\ \A i \in 1 .. Len(s) :
              /\ next[s[i]] = IF i = Len(s) THEN Null ELSE s[i + 1]
              /\ prev[s[i]] = IF i = 1 THEN Null ELSE s[i - 1]
    BY EmptySeq, ListAssumption, ToSetOfSeq DEF IsChain, Chain, Distinct
  <1>2. CASE LinkEmpty(e, click)
    <2>1. s = <<>> /\ Len(s) = 0
      BY <1>1, <1>2 DEF LinkEmpty
    <2>2. first' = e /\ last' = e /\ next'[e] = Null /\ prev'[e] = Null
      BY <1>2 DEF LinkEmpty, LinkTypes
    <2>3. ChainNext(Insertion(s, 1, e))
      <3>1. Splices(s, 1, e) /\ 1 \in 1 .. Len(s) + 1
        BY <2>1, <2>2 DEF Splices
      <3> QED BY <3>1, InsertionIsChain
    <2> QED BY <2>1, <2>3
  <1>3. CASE LinkFront(e, click)
    <2>1. Len(s) > 0 /\ first = s[1] /\ click < ev[s[1]].click
      BY <1>1, <1>3 DEF LinkFront
    <2>2. /\ next' = [next EXCEPT ![e] = s[1]]
          /\ prev' = [prev EXCEPT ![e] = Null, ![s[1]] = e]
          /\ first' = e /\ last' = last
      BY <1>3, <2>1 DEF LinkFront
    <2>3. /\ next'[e] = s[1] /\ prev'[e] = Null
          /\ \A i \in 1 .. Len(s) : next'[s[i]] = next[s[i]]
          /\ \A i \in 1 .. Len(s) : prev'[s[i]] = IF i = 1 THEN e ELSE prev[s[i]]
      BY <1>1, <2>1, <2>2 DEF LinkTypes
    <2>4. ChainNext(Insertion(s, 1, e))
      <3>1. 1 # Len(s) + 1 /\ \A i \in 1 .. Len(s) : i # 1 - 1
        BY <1>1, <2>1
      <3>2. Splices(s, 1, e)
        BY <2>1, <2>2, <2>3, <3>1 DEF Splices
      <3> QED BY <3>2, <1>1, <2>1, <2>2, <2>3, <3>1, InsertionIsChain
    <2>5. \A i \in 1 .. Len(s) : click < ev[s[i]].click
      BY <1>1, <2>1 DEF Ordered
    <2> QED BY <1>1, <2>4, <2>5
  <1>4. CASE LinkBack(e, click)
    <2> DEFINE n == Len(s)
    <2>1. n > 0 /\ last = s[n] /\ click >= ev[s[n]].click
      BY <1>1, <1>4 DEF LinkBack
    <2>2. /\ next' = [next EXCEPT ![e] = Null, ![s[n]] = e]
          /\ prev' = [prev EXCEPT ![e] = s[n]]
          /\ last' = e /\ first' = first
      BY <1>4, <2>1 DEF LinkBack
    <2>3. /\ next'[e] = Null /\ prev'[e] = s[n]
          /\ \A i \in 1 .. n : next'[s[i]] = IF i = n THEN e ELSE next[s[i]]
          /\ \A i \in 1 .. n : prev'[s[i]] = prev[s[i]]
      BY <1>1, <2>1, <2>2 DEF LinkTypes
    <2>4. ChainNext(Insertion(s, n + 1, e))
      <3> DEFINE p == n + 1
      <3>0. p # 1 /\ p = Len(s) + 1 /\ p - 1 = n /\ \A i \in 1 .. n : i # p
        BY <1>1, <2>1
      <3>1. Splices(s, n + 1, e)
        <4>1. Splices(s, p, e)
          <5> HIDE DEF p
          <5> QED BY <2>2, <2>3, <3>0 DEF Splices
        <4> QED BY <4>1
      <3> QED BY <1>1, <2>1, <2>2, <2>3, <3>1, InsertionIsChain
    <2>5. \A i \in 1 .. n : ev[s[i]].click <= click
      BY <1>1, <2>1 DEF Ordered
    <2> QED BY <1>1, <2>4, <2>5
  <1>5. CASE LinkMiddle(e, click)
    <2>1. Contents = s /\ Length = Len(s)
      BY ChainIsContents DEF TraversalsFollowChains
    <2>2. Len(s) > 0 /\ first = s[1] /\ click >= ev[s[1]].click
      BY <1>1, <1>5 DEF LinkMiddle
    <2>3. PICK n \in 1 .. Len(s) :
            /\ click < ev[s[n]].click
            /\ \A m \in 1 .. n - 1 : click >= ev[s[m]].click
            /\ next' = [next EXCEPT ![prev[s[n]]] = e, ![e] = s[n]]
            /\ prev' = [prev EXCEPT ![e] = prev[s[n]], ![s[n]] = e]
      BY <1>5, <2>1 DEF LinkMiddle
    <2>4. n > 1 /\ prev[s[n]] = s[n - 1] /\ n - 1 \in 1 .. Len(s)
      BY <1>1, <2>2, <2>3
    <2>5. /\ next'[e] = s[n] /\ prev'[e] = s[n - 1]
          /\ \A i \in 1 .. Len(s) : next'[s[i]] = IF i = n - 1 THEN e ELSE next[s[i]]
          /\ \A i \in 1 .. Len(s) : prev'[s[i]] = IF i = n THEN e ELSE prev[s[i]]
      BY <1>1, <2>3, <2>4 DEF LinkTypes
    <2>6. first' = first /\ last' = last
      BY <1>5 DEF LinkMiddle
    <2>7. ChainNext(Insertion(s, n, e))
      <3>1. Splices(s, n, e)
        BY <1>1, <2>4, <2>5, <2>6 DEF Splices
      <3> QED BY <1>1, <2>4, <2>5, <2>6, <3>1, InsertionIsChain
    <2>8. \A i \in 1 .. Len(s) : i < n => ev[s[i]].click <= click
      BY <1>1, <2>3
    <2>9. \A i \in 1 .. Len(s) : i >= n => click < ev[s[i]].click
      BY <1>1, <2>3 DEF Ordered
    <2> QED BY <1>1, <2>7, <2>8, <2>9
  <1> QED BY <1>2, <1>3, <1>4, <1>5 DEF Link

\* Arithmetic about the first two of several positions.
LEMMA TwoOrMore ==
    \A n \in Nat : n > 0 /\ n # 1 => 1 \in 1 .. n /\ 2 \in 1 .. n /\ 1 + 1 = 2 /\ 1 # n
  OBVIOUS

\* PopFirst takes the first event off the list.
LEMMA PopRemoves ==
    ASSUME NEW s \in Seq(Ids), IsChain(s), LinkTypes, PopFirst
    PROVE  s # <<>> /\ first = s[1] /\ ChainNext(Removal(s, 1))
  <1>1. s # <<>> /\ first = s[1] /\ Len(s) \in Nat \ {0}
    BY EmptySeq DEF PopFirst, IsChain, Chain
  <1>0. Len(s) \in Nat /\ Len(s) > 0
    BY <1>1
  <1>2. /\ \A i \in 1 .. Len(s) : s[i] \in Ids /\ s[i] # Null
        /\ \A i, j \in 1 .. Len(s) : s[i] = s[j] => i = j
        /\ \A i \in 1 .. Len(s) : next[s[i]] = IF i = Len(s) THEN Null ELSE s[i + 1]
        /\ \A i \in 1 .. Len(s) : prev[s[i]] = IF i = 1 THEN Null ELSE s[i - 1]
    BY ListAssumption DEF IsChain, Chain, Distinct
  <1>3. first' = next[s[1]] /\ last' = last /\ next' = next
    BY <1>1 DEF PopFirst
  <1>4. \A i \in 1 .. Len(s) :
            i # 1 => prev'[s[i]] = IF i = 2 THEN prev[s[1]] ELSE prev[s[i]]
    <2>1. CASE Len(s) = 1
      BY <2>1
    <2>2. CASE Len(s) # 1
      <3>0. 1 \in 1 .. Len(s) /\ 2 \in 1 .. Len(s) /\ 1 + 1 = 2
        BY <1>0, <2>2, TwoOrMore
      <3>1. next[first] = s[2] /\ s[2] # Null
        BY <1>1, <1>2, <2>2, <3>0
      <3>2. prev' = [prev EXCEPT ![s[2]] = Null]
        BY <3>1 DEF PopFirst
      <3> QED BY <1>1, <1>2, <3>0, <3>2 DEF LinkTypes
    <2> QED BY <2>1, <2>2
  <1>5. ChainNext(Removal(s, 1))
    <2>a. 1 \in 1 .. Len(s) /\ 1 + 1 = 2 /\ \A i \in 1 .. Len(s) : i # 1 - 1
      BY <1>0
    <2>0. next[s[1]] = IF 1 = Len(s) THEN Null ELSE s[2]
      BY <1>2, <2>a
    <2>1. Cuts(s, 1)
      <3>1. Len(s) # 1 => last' = last /\ 1 # Len(s)
        BY <1>3
      <3> QED BY <1>1, <1>3, <1>4, <2>a, <2>0, <3>1 DEF Cuts
    <2> QED BY <1>1, <1>2, <1>3, <1>4, <2>1, RemovalIsChain
  <1> QED BY <1>1, <1>5

\* A deleting loop unlinks an event, be it the last, the first or in between.
LEMMA UnlinkRemoves ==
    ASSUME NEW s \in Seq(Ids), IsChain(s), LinkTypes, NEW p \in 1 .. Len(s),
           UnlinkLast(s[p]) \/ UnlinkFirst(s[p]) \/ UnlinkMiddle(s[p])
    PROVE  ChainNext(Removal(s, p))
  <1>1. /\ Len(s) \in Nat \ {0} /\ first = s[1] /\ last = s[Len(s)]
        /\ \A i \in 1 .. Len(s) : s[i] \in Ids /\ s[i] # Null
        /\ \A i, j \in 1 .. Len(s) : s[i] = s[j] => i = j
        /\ \A i \in 1 .. Len(s) : next[s[i]] = IF i = Len(s) THEN Null ELSE s[i + 1]
        /\ \A i \in 1 .. Len(s) : prev[s[i]] = IF i = 1 THEN Null ELSE s[i - 1]
    BY ListAssumption, EmptySeq DEF IsChain, Chain, Distinct
  <1>2. CASE UnlinkLast(s[p])
    <2>1. p = Len(s)
      BY <1>1, <1>2 DEF UnlinkLast
    <2>2. CASE Len(s) = 1
      <3>1. first' = Null
        BY <1>1, <1>2, <2>1, <2>2 DEF UnlinkLast
      <3> QED
        <4>1. Cuts(s, p)
          BY <2>1, <2>2, <3>1 DEF Cuts
        <4> QED BY <2>1, <2>2, <3>1, <4>1, RemovalIsChain
    <2>3. CASE Len(s) # 1
      <3>1. prev[s[p]] = s[p - 1] /\ p - 1 \in 1 .. Len(s)
        BY <1>1, <2>1, <2>3
      <3>2. /\ next' = [next EXCEPT ![s[p - 1]] = Null]
            /\ last' = s[p - 1] /\ first' = first /\ prev' = prev
        BY <1>1, <1>2, <3>1 DEF UnlinkLast
      <3>3. \A i \in 1 .. Len(s) :
                i # p => next'[s[i]] = IF i = p - 1 THEN next[s[p]] ELSE next[s[i]]
        BY <1>1, <2>1, <3>1, <3>2 DEF LinkTypes
      <3> QED
        <4>1. Cuts(s, p)
          BY <1>1, <2>1, <2>3, <3>2, <3>3 DEF Cuts
        <4> QED BY <1>1, <2>1, <2>3, <3>2, <3>3, <4>1, RemovalIsChain
    <2> QED BY <2>2, <2>3
  <1>3. CASE UnlinkFirst(s[p])
    <2>1. p = 1 /\ Len(s) # 1
      BY <1>1, <1>3 DEF UnlinkFirst
    <2>2. next[s[1]] = s[2] /\ 2 \in 1 .. Len(s)
      <3>1. 1 \in 1 .. Len(s) /\ 2 \in 1 .. Len(s) /\ 1 + 1 = 2 /\ 1 # Len(s)
        <4>1. Len(s) \in Nat /\ Len(s) > 0
          BY <1>1
        <4> QED BY <2>1, <4>1, TwoOrMore
      <3> QED BY <1>1, <3>1
    <2>3. /\ prev' = [prev EXCEPT ![s[2]] = Null]
          /\ first' = s[2] /\ last' = last /\ next' = next
      BY <1>1, <1>3, <2>1, <2>2 DEF UnlinkFirst
    <2>4. \A i \in 1 .. Len(s) :
              i # p => prev'[s[i]] = IF i = p + 1 THEN prev[s[p]] ELSE prev[s[i]]
      BY <1>1, <2>1, <2>2, <2>3 DEF LinkTypes
    <2> QED
      <3>1. Cuts(s, p)
        BY <1>1, <2>1, <2>3, <2>4 DEF Cuts
      <3> QED BY <1>1, <2>1, <2>3, <2>4, <3>1, RemovalIsChain
  <1>4. CASE UnlinkMiddle(s[p])
    <2>1. p # 1 /\ p # Len(s)
      BY <1>1, <1>4 DEF UnlinkMiddle
    <2>2. /\ prev[s[p]] = s[p - 1] /\ next[s[p]] = s[p + 1]
          /\ p - 1 \in 1 .. Len(s) /\ p + 1 \in 1 .. Len(s)
      BY <1>1, <2>1
    <2>3. /\ next' = [next EXCEPT ![s[p - 1]] = s[p + 1]]
          /\ prev' = [prev EXCEPT ![s[p + 1]] = s[p - 1]]
          /\ first' = first /\ last' = last
      BY <1>4, <2>2 DEF UnlinkMiddle
    <2>4. \A i \in 1 .. Len(s) :
              i # p => next'[s[i]] = IF i = p - 1 THEN next[s[p]] ELSE next[s[i]]
      BY <1>1, <2>2, <2>3 DEF LinkTypes
    <2>5. \A i \in 1 .. Len(s) :
              i # p => prev'[s[i]] = IF i = p + 1 THEN prev[s[p]] ELSE prev[s[i]]
      BY <1>1, <2>2, <2>3 DEF LinkTypes
    <2> QED
      <3>1. Cuts(s, p)
        BY <1>1, <2>1, <2>3, <2>4, <2>5 DEF Cuts
      <3> QED BY <1>1, <2>1, <2>3, <2>4, <2>5, <3>1, RemovalIsChain
  <1> QED BY <1>2, <1>3, <1>4

-----------------------------------------------------------------------------
(* The invariant *)

\* An event that is allocated is what a constructor made of some click and data.
EventsOK ==
    /\ ev = [e \in Ids |-> ev[e]]
    /\ \A e \in live : \E click \in Clicks, d \in Data : ev[e] = Event(e, click, d)

LoopOK ==
    /\ loop = [op |-> loop.op, cursorid |-> loop.cursorid, before |-> loop.before,
               e |-> loop.e]
    /\ loop.op \in {"none", "DeleteAll", "DeleteAllId", "DeleteAllBefore"}
    /\ loop.op = "none" => loop.e = Null

\* A deleting loop is at position k of the list s.  DeleteAll has deleted what
\* is in front of it, and left the links; the others have spared what is in
\* front, and unlinked what they deleted.
LoopAt(s, k) ==
    /\ k \in 1 .. Len(s) + 1
    /\ loop.e = IF k <= Len(s) THEN s[k] ELSE Null
    /\ IF loop.op = "DeleteAll"
       THEN live \ held = {s[i] : i \in k .. Len(s)}
       ELSE /\ live \ held = ToSet(s)
            /\ Ordered(s)
            /\ \A i \in 1 .. k - 1 : ~ Doomed(s[i])

LoopNext(s, k) == LoopAt(s, k)'

\* The links represent s.
Represents(s, k) ==
    /\ FieldTypes /\ EventsOK /\ LoopOK
    /\ s \in Seq(Ids) /\ IsChain(s) /\ LoopAt(s, k)

RepresentsNext(s, k) ==
    /\ FieldTypes' /\ EventsOK' /\ LoopOK'
    /\ s \in Seq(Ids) /\ ChainNext(s) /\ LoopNext(s, k)

ListInv == \E s \in Seq(Ids), k \in Nat : Represents(s, k)

\* A sequence that will be represented keeps the invariant.
LEMMA NextListInv ==
    ASSUME NEW s, NEW k, RepresentsNext(s, k)
    PROVE  ListInv'
  <1>1. k \in Nat /\ s \in Seq(Ids)
    BY DEF RepresentsNext, LoopNext, LoopAt
  <1> QED BY <1>1 DEF RepresentsNext, ChainNext, LoopNext, ListInv, Represents, IsChain

\* What the other proofs use of the sequence.
LEMMA RepresentsFacts ==
    ASSUME NEW s, NEW k, Represents(s, k)
    PROVE  /\ s \in Seq(Ids) /\ Len(s) \in Nat /\ k \in 1 .. Len(s) + 1
           /\ IsChain(s) /\ LinkTypes
           /\ \A i \in 1 .. Len(s) : s[i] \in Ids /\ s[i] # Null
           /\ \A i, j \in 1 .. Len(s) : s[i] = s[j] => i = j
           /\ ToSet(s) = {s[i] : i \in 1 .. Len(s)}
           /\ \A e \in live : ev[e].click \in Clicks /\ ev[e].click \in Nat
           /\ loop.op # "DeleteAll" =>
                 Ordered(s) /\ \A i \in 1 .. Len(s) : s[i] \in live
           /\ loop.op = "none" => k = Len(s) + 1
  <1>1. s \in Seq(Ids) /\ Len(s) \in Nat /\ k \in 1 .. Len(s) + 1
    BY DEF Represents, LoopAt
  <1>2. IsChain(s) /\ LinkTypes
    BY DEF Represents, FieldTypes, LinkTypes
  <1>3. /\ \A i \in 1 .. Len(s) : s[i] \in Ids /\ s[i] # Null
        /\ ToSet(s) = {s[i] : i \in 1 .. Len(s)}
        /\ \A i, j \in 1 .. Len(s) : s[i] = s[j] => i = j
    BY <1>1, <1>2, ListAssumption, ToSetOfSeq DEF IsChain, Chain, Distinct
  <1>4. \A e \in live : ev[e].click \in Clicks /\ ev[e].click \in Nat
    <2> TAKE e \in live
    <2>1. PICK click \in Clicks, d \in Data : ev[e] = Event(e, click, d)
      BY DEF Represents, EventsOK
    <2>2. ev[e].click = click
      BY <2>1 DEF Event
    <2> QED BY <2>2, ListAssumption
  <1>5. ASSUME loop.op # "DeleteAll"
        PROVE  Ordered(s) /\ \A i \in 1 .. Len(s) : s[i] \in live
    BY <1>3, <1>5 DEF Represents, LoopAt
  <1>6. ASSUME loop.op = "none" PROVE k = Len(s) + 1
    BY <1>1, <1>3, <1>6 DEF Represents, LoopAt, LoopOK
  <1> QED BY <1>1, <1>2, <1>3, <1>4, <1>5, <1>6

\* The empty list is represented by NULL in m_first.
LEMMA InitRepresents == Init => ListInv
  <1> SUFFICES ASSUME Init PROVE Represents(<<>>, 1)
    BY DEF ListInv, Represents
  <1>1. ToSet(<<>>) = {} /\ Len(<<>>) = 0 /\ <<>> \in Seq(Ids)
    BY DEF ToSet
  <1>2. IsChain(<<>>)
    BY <1>1 DEF Init, IsChain, Chain, Distinct
  <1>3. FieldTypes /\ EventsOK /\ LoopOK
    BY DEF Init, NoLoop, FieldTypes, EventsOK, LoopOK
  <1>4. LoopAt(<<>>, 1)
    BY <1>1 DEF Init, NoLoop, LoopAt, Ordered
  <1> QED BY <1>1, <1>2, <1>3, <1>4 DEF Represents

\* An event joins the list, be it a new one or one that was popped.
Joins(e, click) ==
    /\ Link(e, click)
    /\ ev'[e].click = click /\ \A x \in Ids : x # e => ev'[x] = ev[x]
    /\ live' \ held' = (live \ held) \cup {e}
    /\ UNCHANGED loop

\* It joins at one position: behind what is not later, in front of what is.
LEMMA JoiningInserts ==
    ASSUME NEW s, NEW k, Represents(s, k), loop.op = "none",
           NEW e \in Ids, e \notin live \ held, NEW click \in Clicks, Joins(e, click)
    PROVE  \E p \in 1 .. Len(s) + 1 :
              /\ Insertion(s, p, e) \in Seq(Ids)
              /\ ChainNext(Insertion(s, p, e))
              /\ LoopNext(Insertion(s, p, e), Len(s) + 2)
              /\ \A i \in 1 .. Len(s) : i < p => ev[s[i]].click <= click
              /\ \A i \in 1 .. Len(s) : i >= p => click < ev[s[i]].click
  <1>1. /\ s \in Seq(Ids) /\ Len(s) \in Nat /\ IsChain(s) /\ LinkTypes
        /\ ToSet(s) = {s[i] : i \in 1 .. Len(s)}
        /\ \A i \in 1 .. Len(s) : s[i] \in Ids /\ ev[s[i]].click \in Nat
        /\ Ordered(s) /\ click \in Nat
    BY RepresentsFacts, ListAssumption
  <1>2. e \notin ToSet(s) /\ live \ held = ToSet(s)
    BY DEF Represents, LoopAt
  <1>3. PICK p \in 1 .. Len(s) + 1 :
              /\ ChainNext(Insertion(s, p, e))
              /\ \A i \in 1 .. Len(s) : i < p => ev[s[i]].click <= click
              /\ \A i \in 1 .. Len(s) : i >= p => click < ev[s[i]].click
    BY <1>1, <1>2, LinkInserts DEF Joins
  <1> DEFINE t == Insertion(s, p, e)
  <1>4. /\ t \in Seq(Ids) /\ Len(t) = Len(s) + 1
        /\ \A i \in 1 .. Len(s) + 1 :
              t[i] = IF i < p THEN s[i] ELSE IF i = p THEN e ELSE s[i - 1]
        /\ ToSet(t) = ToSet(s) \cup {e}
    BY <1>1, InsertionProperties
  <1> HIDE DEF t
  <1>5. ev'[e].click = click /\ \A i \in 1 .. Len(s) : ev'[s[i]] = ev[s[i]]
    BY <1>1, <1>2 DEF Joins
  <1>6. ASSUME NEW i \in 1 .. Len(s) + 1, NEW j \in 1 .. Len(s) + 1, i < j
        PROVE  ev'[t[i]].click <= ev'[t[j]].click
    <2>1. CASE j < p
      <3>1. i \in 1 .. Len(s) /\ j \in 1 .. Len(s) /\ t[i] = s[i] /\ t[j] = s[j]
        BY <1>1, <1>4, <1>6, <2>1
      <3> QED BY <1>1, <1>5, <1>6, <3>1 DEF Ordered
    <2>2. CASE j = p
      <3>1. i \in 1 .. Len(s) /\ i < p /\ t[i] = s[i] /\ t[j] = e
        BY <1>1, <1>4, <1>6, <2>2
      <3> QED BY <1>3, <1>5, <3>1
    <2>3. CASE i < p /\ j > p
      <3>1. i \in 1 .. Len(s) /\ j - 1 \in 1 .. Len(s) /\ i < j - 1
        BY <1>1, <2>3
      <3>2. t[i] = s[i] /\ t[j] = s[j - 1]
        BY <1>1, <1>4, <2>3
      <3> QED BY <1>1, <1>5, <3>1, <3>2 DEF Ordered
    <2>4. CASE i = p
      <3>1. j - 1 \in 1 .. Len(s) /\ j - 1 >= p /\ t[i] = e /\ t[j] = s[j - 1]
        BY <1>1, <1>4, <1>6, <2>4
      <3>2. click < ev[s[j - 1]].click /\ ev[s[j - 1]].click \in Nat
        BY <1>1, <1>3, <3>1
      <3> QED BY <1>1, <1>5, <3>1, <3>2
    <2>5. CASE i > p
      <3>1. i - 1 \in 1 .. Len(s) /\ j - 1 \in 1 .. Len(s) /\ i - 1 < j - 1
            /\ t[i] = s[i - 1] /\ t[j] = s[j - 1]
        BY <1>1, <1>4, <1>6, <2>5
      <3> QED BY <1>1, <1>5, <3>1 DEF Ordered
    <2> QED BY <1>1, <1>6, <2>1, <2>2, <2>3, <2>4, <2>5
  <1>7. Ordered(t)'
    BY <1>4, <1>6 DEF Ordered
  <1>8. LoopNext(t, Len(s) + 2)
    <2>1. loop' = loop /\ loop.e = Null
      BY DEF Joins, Represents, LoopOK
    <2>2. live' \ held' = ToSet(t)
      BY <1>2, <1>4 DEF Joins
    <2>3. \A e2 : ~ Doomed(e2)'
      BY <2>1 DEF Doomed
    <2>4. Len(s) + 2 \in 1 .. Len(t) + 1 /\ ~ Len(s) + 2 <= Len(t)
      BY <1>1, <1>4
    <2> QED BY <1>7, <2>1, <2>2, <2>3, <2>4 DEF LoopNext, LoopAt
  <1> QED BY <1>3, <1>4, <1>8 DEF t

\* PopFirst takes the first event off the list.
LEMMA PoppingRemoves ==
    ASSUME NEW s, NEW k, Represents(s, k), loop.op = "none", PopFirst
    PROVE  /\ s # <<>> /\ first = s[1]
           /\ ChainNext(Removal(s, 1)) /\ LoopNext(Removal(s, 1), Len(s))
  <1>1. /\ s \in Seq(Ids) /\ Len(s) \in Nat /\ IsChain(s) /\ LinkTypes /\ Ordered(s)
        /\ Distinct(s)
    BY RepresentsFacts DEF IsChain, Chain
  <1>2. s # <<>> /\ first = s[1] /\ ChainNext(Removal(s, 1))
    BY <1>1, PopRemoves
  <1>3. Len(s) > 0 /\ 1 \in 1 .. Len(s)
    BY <1>1, <1>2, EmptySeq
  <1> DEFINE t == Removal(s, 1)
  <1>4. /\ t \in Seq(Ids) /\ Len(t) = Len(s) - 1 /\ ToSet(t) = ToSet(s) \ {s[1]}
        /\ \A i \in 1 .. Len(s) - 1 : t[i] = s[i + 1]
    BY <1>1, <1>3, RemovalProperties
  <1> HIDE DEF t
  <1>5. live' \ held' = ToSet(t) /\ loop' = loop /\ ev' = ev /\ loop.e = Null
    BY <1>2, <1>4 DEF PopFirst, Represents, LoopAt, LoopOK
  <1>6. Ordered(t)'
    <2> SUFFICES ASSUME NEW i \in 1 .. Len(t), NEW j \in 1 .. Len(t), i < j
                 PROVE  ev[t[i]].click <= ev[t[j]].click
      BY <1>5 DEF Ordered
    <2>1. i + 1 \in 1 .. Len(s) /\ j + 1 \in 1 .. Len(s) /\ i + 1 < j + 1
      BY <1>1, <1>4
    <2> QED BY <1>1, <1>4, <2>1 DEF Ordered
  <1>7. \A e : ~ Doomed(e)'
    BY <1>5 DEF Doomed
  <1>8. Len(s) \in 1 .. Len(t) + 1 /\ ~ Len(s) <= Len(t)
    BY <1>1, <1>3, <1>4
  <1>9. LoopNext(t, Len(s))
    BY <1>5, <1>6, <1>7, <1>8 DEF LoopNext, LoopAt
  <1> QED BY <1>2, <1>9 DEF t

\* What is not linked and loops over nothing does not disturb the list.
LEMMA DeletingKeepsList ==
    ASSUME NEW s, NEW k, Represents(s, k), loop.op = "none", Delete
    PROVE  ChainNext(s) /\ LoopNext(s, k) /\ \A i \in 1 .. Len(s) : ev'[s[i]] = ev[s[i]]
  <1>1. PICK e \in held : Free(e) /\ held' = held \ {e} /\ UNCHANGED <<links, loop>>
    BY DEF Delete
  <1>2. ChainNext(s)
    BY <1>1 DEF Represents, IsChain, ChainNext, links
  <1>3. /\ live' \ held' = live \ held
        /\ \A x \in live \ held : ev'[x] = ev[x]
    BY <1>1 DEF Free, Represents, FieldTypes, EventsOK
  <1>4. \A i \in 1 .. Len(s) : s[i] \in live \ held /\ ev'[s[i]] = ev[s[i]]
    BY <1>3, RepresentsFacts DEF Represents, LoopAt
  <1>5. Ordered(s)'
    BY <1>4, RepresentsFacts DEF Ordered
  <1>6. loop' = loop /\ \A i \in 1 .. Len(s) : ~ Doomed(s[i])'
    BY <1>1 DEF Doomed
  <1>7. k \in 1 .. Len(s) + 1 /\ Len(s) \in Nat
    BY RepresentsFacts
  <1>8. LoopNext(s, k)
    BY <1>3, <1>5, <1>6, <1>7 DEF Represents, LoopNext, LoopAt, Doomed
  <1> QED BY <1>2, <1>4, <1>8

\* A loop starts at the first event, and has deleted nothing.
LEMMA LoopStarts ==
    ASSUME NEW s, NEW k, Represents(s, k), StartLoop
    PROVE  ChainNext(s) /\ LoopNext(s, 1)
  <1>1. loop.op = "none" /\ loop'.e = first /\ UNCHANGED <<links, ev, live, held>>
    BY DEF StartLoop
  <1>2. /\ s \in Seq(Ids) /\ Len(s) \in Nat /\ IsChain(s) /\ Ordered(s)
        /\ live \ held = ToSet(s) /\ ToSet(s) = {s[i] : i \in 1 .. Len(s)}
    BY <1>1, RepresentsFacts DEF Represents, LoopAt
  <1>3. ChainNext(s)
    BY <1>1, <1>2 DEF IsChain, ChainNext, links
  <1>4. loop'.e = IF 1 <= Len(s) THEN s[1] ELSE Null
    <2>1. s = <<>> <=> Len(s) = 0
      BY <1>2, EmptySeq
    <2> QED BY <1>1, <1>2, <2>1 DEF IsChain, Chain
  <1>5. Ordered(s)' /\ live' \ held' = ToSet(s)
    BY <1>1, <1>2 DEF Ordered
  <1>6. 1 \in 1 .. Len(s) + 1 /\ \A i \in 1 .. 1 - 1 : FALSE
    BY <1>2
  <1> QED BY <1>2, <1>3, <1>4, <1>5, <1>6 DEF LoopNext, LoopAt

\* A loop ends behind the last event; DeleteAll then forgets the links.
LEMMA LoopEnds ==
    ASSUME NEW s, NEW k, Represents(s, k), EndLoop
    PROVE  /\ loop.op = "DeleteAll" => ChainNext(<<>>) /\ LoopNext(<<>>, 1)
           /\ loop.op # "DeleteAll" => ChainNext(s) /\ LoopNext(s, k)
           /\ k = Len(s) + 1
  <1>1. /\ loop.e = Null /\ loop' = NoLoop /\ UNCHANGED <<next, prev, ev, live, held>>
    BY DEF EndLoop
  <1>2. /\ k = Len(s) + 1 /\ Len(s) \in Nat
    BY <1>1, RepresentsFacts DEF Represents, LoopAt
  <1>3. \A e : ~ Doomed(e)'
    BY <1>1 DEF Doomed, NoLoop
  <1>4. loop'.e = Null /\ loop'.op = "none"
    BY <1>1 DEF NoLoop
  <1>5. CASE loop.op = "DeleteAll"
    <2>1. first' = Null
      BY <1>5 DEF EndLoop
    <2>2. ToSet(<<>>) = {} /\ Len(<<>>) = 0 /\ <<>> \in Seq(Ids)
      BY DEF ToSet
    <2>3. ChainNext(<<>>)
      BY <2>1, <2>2 DEF ChainNext, Chain, Distinct
    <2>4. live' \ held' = {}
      <3>1. \A i : i \notin k .. Len(s)
        BY <1>2
      <3> QED BY <1>1, <1>5, <3>1 DEF Represents, LoopAt
    <2>5. Ordered(<<>>)' /\ 1 \in 1 .. Len(<<>>) + 1 /\ ~ 1 <= Len(<<>>)
      BY <2>2 DEF Ordered
    <2>6. LoopNext(<<>>, 1)
      BY <1>3, <1>4, <2>2, <2>4, <2>5 DEF LoopNext, LoopAt
    <2> QED BY <1>2, <1>5, <2>3, <2>6
  <1>6. CASE loop.op # "DeleteAll"
    <2>1. ChainNext(s)
      BY <1>1, <1>6 DEF EndLoop, Represents, IsChain, ChainNext
    <2>2. Ordered(s)' /\ live' \ held' = ToSet(s)
      BY <1>1, <1>6 DEF Represents, LoopAt, Ordered
    <2>3. ~ k <= Len(s) /\ k \in 1 .. Len(s) + 1
      BY <1>2
    <2>4. LoopNext(s, k)
      BY <1>3, <1>4, <2>2, <2>3 DEF LoopNext, LoopAt
    <2> QED BY <1>2, <1>6, <2>1, <2>4
  <1> QED BY <1>5, <1>6

\* One iteration of a deleting loop goes on to the next event, whether it keeps
\* the one it is at or not.
LEMMA IterationMoves ==
    ASSUME NEW s, NEW k, Represents(s, k), Iterate
    PROVE  /\ k \in 1 .. Len(s) /\ loop.e = s[k] /\ loop.op # "none"
           /\ loop' = [loop EXCEPT !.e = next[s[k]]]
           /\ loop'.op = loop.op /\ loop'.cursorid = loop.cursorid
           /\ loop'.before = loop.before
           /\ loop'.e = IF k = Len(s) THEN Null ELSE s[k + 1]
           /\ held' = held
           /\ \A x \in Ids : x # s[k] => ev'[x] = ev[x] /\ (Doomed(x)' <=> Doomed(x))
           /\ ~ Doomed(s[k]) => UNCHANGED <<links, ev, live>> /\ (Doomed(s[k])' <=> Doomed(s[k]))
           /\ Doomed(s[k]) => Free(s[k])
  <1>1. /\ s \in Seq(Ids) /\ Len(s) \in Nat /\ k \in 1 .. Len(s) + 1 /\ IsChain(s)
    BY RepresentsFacts
  <1>2. loop.e = (IF k <= Len(s) THEN s[k] ELSE Null) /\ loop.e # Null
    BY DEF Represents, LoopAt, Iterate
  <1>3. k \in 1 .. Len(s) /\ loop.e = s[k]
    BY <1>1, <1>2
  <1>4. loop.op # "none"
    BY <1>2 DEF Represents, LoopOK
  <1>5. loop' = [loop EXCEPT !.e = next[s[k]]]
    BY <1>3 DEF Iterate
  <1>6. /\ loop'.op = loop.op /\ loop'.cursorid = loop.cursorid
        /\ loop'.before = loop.before /\ loop'.e = next[s[k]]
    BY <1>5 DEF Represents, LoopOK
  <1>7. loop'.e = IF k = Len(s) THEN Null ELSE s[k + 1]
    BY <1>1, <1>3, <1>6 DEF IsChain, Chain
  <1>8. /\ held' = held
        /\ ~ Doomed(s[k]) => UNCHANGED <<links, ev, live>>
        /\ Doomed(s[k]) => Free(s[k])
    BY <1>3 DEF Iterate
  <1>9. ASSUME NEW x \in Ids, x # s[k] PROVE ev'[x] = ev[x]
    <2>1. CASE Doomed(s[k])
      BY <1>8, <1>9, <2>1 DEF Free, Represents, EventsOK
    <2>2. CASE ~ Doomed(s[k])
      BY <1>8, <2>2
    <2> QED BY <2>1, <2>2
  <1>10. ASSUME NEW x, ev'[x] = ev[x] PROVE Doomed(x)' <=> Doomed(x)
    BY <1>6, <1>10 DEF Doomed
  <1> QED BY <1>3, <1>4, <1>5, <1>6, <1>7, <1>8, <1>9, <1>10

\* What is kept stays in the list, and so do the links of what DeleteAll deletes.
LEMMA IterationKeepsChain ==
    ASSUME NEW s, NEW k, Represents(s, k), Iterate,
           loop.op = "DeleteAll" \/ ~ Doomed(s[k])
    PROVE  ChainNext(s) /\ LoopNext(s, k + 1)
  <1>1. /\ s \in Seq(Ids) /\ Len(s) \in Nat /\ k \in 1 .. Len(s) + 1 /\ IsChain(s)
        /\ \A i \in 1 .. Len(s) : s[i] \in Ids
        /\ \A i, j \in 1 .. Len(s) : s[i] = s[j] => i = j
    BY RepresentsFacts
  <1>2. /\ k \in 1 .. Len(s) /\ loop.e = s[k] /\ loop'.op = loop.op
        /\ loop'.e = (IF k = Len(s) THEN Null ELSE s[k + 1]) /\ held' = held
        /\ \A x \in Ids : x # s[k] => ev'[x] = ev[x] /\ (Doomed(x)' <=> Doomed(x))
        /\ ~ Doomed(s[k]) => UNCHANGED <<links, ev, live>> /\ (Doomed(s[k])' <=> Doomed(s[k]))
    BY IterationMoves
  <1>3. UNCHANGED links
    BY <1>2 DEF Iterate
  <1>4. ChainNext(s)
    BY <1>1, <1>3 DEF IsChain, ChainNext, links
  <1>5. /\ k + 1 \in 1 .. Len(s) + 1
        /\ loop'.e = IF k + 1 <= Len(s) THEN s[k + 1] ELSE Null
    BY <1>1, <1>2
  <1>6. CASE loop.op = "DeleteAll"
    <2>1. Free(s[k])
      BY <1>6, IterationMoves DEF Doomed
    <2>2. live \ held = {s[i] : i \in k .. Len(s)} /\ held' = held
      BY <1>2, <1>6 DEF Represents, LoopAt
    <2>3. live' \ held' = (live \ held) \ {s[k]}
      BY <2>1, <2>2 DEF Free
    <2>4. {s[i] : i \in k .. Len(s)} \ {s[k]} = {s[i] : i \in k + 1 .. Len(s)}
      <3>1. \A i \in k .. Len(s) : i \in 1 .. Len(s) /\ (i = k \/ i \in k + 1 .. Len(s))
        BY <1>1, <1>2
      <3>2. \A i \in k + 1 .. Len(s) : i \in 1 .. Len(s) /\ i \in k .. Len(s) /\ i # k
        BY <1>1, <1>2
      <3> QED BY <1>1, <1>2, <3>1, <3>2
    <2> QED BY <1>2, <1>4, <1>5, <1>6, <2>2, <2>3, <2>4 DEF LoopNext, LoopAt
  <1>7. CASE loop.op # "DeleteAll"
    <2>1. ~ Doomed(s[k]) /\ UNCHANGED <<ev, live>>
      BY <1>2, <1>7
    <2>2. live' \ held' = ToSet(s) /\ Ordered(s)'
      BY <1>2, <1>7, <2>1 DEF Represents, LoopAt, Ordered
    <2>3. ASSUME NEW i \in 1 .. k + 1 - 1 PROVE ~ Doomed(s[i])'
      <3>1. i \in 1 .. Len(s) /\ (i \in 1 .. k - 1 \/ i = k)
        BY <1>1, <1>2
      <3>2. ~ Doomed(s[i])
        BY <1>7, <2>1, <3>1 DEF Represents, LoopAt
      <3> QED BY <1>1, <1>2, <2>1, <3>1, <3>2
    <2> QED BY <1>2, <1>4, <1>5, <1>7, <2>2, <2>3 DEF LoopNext, LoopAt
  <1> QED BY <1>6, <1>7

\* What DeleteAllId and DeleteAllBefore delete leaves the list.
LEMMA IterationRemoves ==
    ASSUME NEW s, NEW k, Represents(s, k), Iterate,
           loop.op # "DeleteAll", Doomed(s[k])
    PROVE  ChainNext(Removal(s, k)) /\ LoopNext(Removal(s, k), k)
  <1>1. /\ s \in Seq(Ids) /\ Len(s) \in Nat /\ IsChain(s) /\ LinkTypes
        /\ Distinct(s) /\ Ordered(s)
        /\ \A i \in 1 .. Len(s) : s[i] \in Ids
        /\ \A i, j \in 1 .. Len(s) : s[i] = s[j] => i = j
    BY RepresentsFacts DEF IsChain, Chain
  <1>2. /\ k \in 1 .. Len(s) /\ loop.e = s[k] /\ loop'.op = loop.op
        /\ loop'.e = (IF k = Len(s) THEN Null ELSE s[k + 1]) /\ held' = held
        /\ \A x \in Ids : x # s[k] => ev'[x] = ev[x] /\ (Doomed(x)' <=> Doomed(x))
        /\ Free(s[k])
    BY IterationMoves
  <1>3. ChainNext(Removal(s, k))
    BY <1>1, <1>2, UnlinkRemoves DEF Iterate
  <1> DEFINE t == Removal(s, k)
  <1>4. /\ t \in Seq(Ids) /\ Len(t) = Len(s) - 1 /\ ToSet(t) = ToSet(s) \ {s[k]}
        /\ \A i \in 1 .. Len(s) - 1 : t[i] = IF i < k THEN s[i] ELSE s[i + 1]
    BY <1>1, <1>2, RemovalProperties
  <1> HIDE DEF t
  <1> DEFINE a(n) == IF n < k THEN n ELSE n + 1
  <1>5. /\ \A n \in 1 .. Len(t) : t[n] = s[a(n)] /\ a(n) \in 1 .. Len(s) /\ a(n) # k
        /\ \A m, n \in 1 .. Len(t) : m < n => a(m) < a(n)
    <2>1. \A n \in 1 .. Len(t) : t[n] = s[a(n)] /\ a(n) \in 1 .. Len(s) /\ a(n) # k
      BY <1>1, <1>2, <1>4
    <2>2. k \in Int /\ \A n \in 1 .. Len(t) : n \in Int
      BY <1>2
    <2>3. \A m, n \in 1 .. Len(t) : m < n => a(m) < a(n)
      BY <2>2
    <2> QED BY <2>1, <2>3
  <1> HIDE DEF a
  <1>6. ASSUME NEW n \in 1 .. Len(t)
        PROVE  ev'[t[n]] = ev[s[a(n)]] /\ (Doomed(t[n])' <=> Doomed(s[a(n)]))
    <2>1. s[a(n)] \in Ids /\ s[a(n)] # s[k]
      BY <1>1, <1>2, <1>5
    <2> QED BY <1>2, <1>5, <2>1
  <1>7. Ordered(t)'
    <2> SUFFICES ASSUME NEW m \in 1 .. Len(t), NEW n \in 1 .. Len(t), m < n
                 PROVE  ev'[t[m]].click <= ev'[t[n]].click
      BY DEF Ordered
    <2>1. a(m) \in 1 .. Len(s) /\ a(n) \in 1 .. Len(s) /\ a(m) < a(n)
      BY <1>5
    <2>2. ev[s[a(m)]].click <= ev[s[a(n)]].click
      BY <1>1, <2>1 DEF Ordered
    <2> QED BY <1>6, <2>2
  <1>8. live' \ held' = ToSet(t)
    BY <1>2, <1>4 DEF Free, Represents, LoopAt
  <1>9. loop'.e = IF k <= Len(t) THEN t[k] ELSE Null
    <2>1. CASE k = Len(s)
      BY <1>1, <1>2, <1>4, <2>1
    <2>2. CASE k # Len(s)
      BY <1>1, <1>2, <1>4, <2>2
    <2> QED BY <2>1, <2>2
  <1>10. k \in 1 .. Len(t) + 1
    BY <1>1, <1>2, <1>4
  <1>11. ASSUME NEW i \in 1 .. k - 1 PROVE ~ Doomed(t[i])'
    <2>1. i \in 1 .. Len(t) /\ a(i) = i
      BY <1>1, <1>2, <1>4 DEF a
    <2>2. ~ Doomed(s[i])
      BY DEF Represents, LoopAt
    <2> QED BY <1>6, <2>1, <2>2
  <1>12. LoopNext(t, k)
    BY <1>2, <1>7, <1>8, <1>9, <1>10, <1>11 DEF LoopNext, LoopAt
  <1> QED BY <1>3, <1>12 DEF t

-----------------------------------------------------------------------------
(* Every step keeps the invariant *)

LinkTypesNext ==
    /\ next' \in [Ids -> Ids \cup {Null}] /\ prev' \in [Ids -> Ids \cup {Null}]
    /\ first' \in Ids \cup {Null} /\ last' \in Ids \cup {Null}

\* Linking points to events only.
LEMMA LinkKeepsTypes ==
    ASSUME NEW s \in Seq(Ids), IsChain(s), LinkTypes,
           NEW e \in Ids, NEW click, Link(e, click)
    PROVE  LinkTypesNext
  <1>1. CASE LinkEmpty(e, click) \/ LinkFront(e, click)
    BY <1>1 DEF LinkEmpty, LinkFront, LinkTypes, LinkTypesNext
  <1>2. CASE LinkBack(e, click)
    BY <1>2 DEF LinkBack, LinkTypes, LinkTypesNext
  <1>3. CASE LinkMiddle(e, click)
    <2>1. Contents = s /\ Length = Len(s)
      BY ChainIsContents DEF TraversalsFollowChains
    <2>2. PICK n \in 1 .. Len(s) :
            /\ next' = [next EXCEPT ![prev[s[n]]] = e, ![e] = s[n]]
            /\ prev' = [prev EXCEPT ![e] = prev[s[n]], ![s[n]] = e]
      BY <1>3, <2>1 DEF LinkMiddle
    <2>3. s[n] \in Ids
      OBVIOUS
    <2> QED BY <1>3, <2>2, <2>3 DEF LinkMiddle, LinkTypes, LinkTypesNext
  <1> QED BY <1>1, <1>2, <1>3 DEF Link

\* So does unlinking.
LEMMA UnlinkKeepsTypes ==
    ASSUME LinkTypes, NEW e \in Ids,
           UnlinkLast(e) \/ UnlinkFirst(e) \/ UnlinkMiddle(e)
    PROVE  LinkTypesNext
  BY DEF UnlinkLast, UnlinkFirst, UnlinkMiddle, LinkTypes, LinkTypesNext

\* An insertion, of a new event or of one that was popped.
LEMMA InsertionsJoin ==
    ASSUME NEW s, NEW k, Represents(s, k), Insert \/ InsertAgain
    PROVE  \E e \in Ids, click \in Clicks :
              /\ e \notin live \ held /\ Joins(e, click)
              /\ \/ /\ Insert /\ e \notin live /\ held' = held
                    /\ \E d \in Data : ev'[e] = Event(e, click, d)
                 \/ /\ InsertAgain /\ e \in held /\ held' = held \ {e}
                    /\ \E c, d : ev[e] = Event(e, c, d) /\ d \in Data
                                /\ ev'[e] = Event(e, click, d)
              /\ FieldTypes' /\ EventsOK' /\ LoopOK'
  <1>1. /\ s \in Seq(Ids) /\ IsChain(s) /\ LinkTypes /\ FieldTypes /\ EventsOK /\ LoopOK
    BY RepresentsFacts DEF Represents
  <1>2. CASE Insert
    <2>1. PICK e \in Ids \ live, click \in Clicks, d \in Data :
            /\ Link(e, click)
            /\ ev' = [ev EXCEPT ![e] = Event(e, click, d)]
            /\ live' = live \cup {e}
            /\ UNCHANGED <<held, loop>>
      BY <1>2 DEF Insert
    <2>2. ev'[e] = Event(e, click, d) /\ \A x \in Ids : x # e => ev'[x] = ev[x]
      BY <1>1, <2>1 DEF EventsOK
    <2>3. Joins(e, click)
      <3>1. ev'[e].click = click
        BY <2>2 DEF Event
      <3>2. live' \ held' = (live \ held) \cup {e}
        BY <1>1, <2>1 DEF FieldTypes
      <3> QED BY <2>1, <2>2, <3>1, <3>2 DEF Joins
    <2>4. LinkTypesNext
      BY <1>1, <2>1, LinkKeepsTypes
    <2>5. FieldTypes'
      BY <1>1, <2>1, <2>4 DEF FieldTypes, LinkTypesNext
    <2>6. EventsOK'
      <3>1. ev' = [x \in Ids |-> ev'[x]]
        BY <1>1, <2>1 DEF EventsOK
      <3>2. \A x \in live' : \E c \in Clicks, b \in Data : ev'[x] = Event(x, c, b)
        BY <1>1, <2>1, <2>2 DEF EventsOK, FieldTypes
      <3> QED BY <3>1, <3>2 DEF EventsOK, Event
    <2>7. LoopOK'
      BY <1>1, <2>1 DEF LoopOK
    <2> QED BY <1>2, <2>1, <2>2, <2>3, <2>5, <2>6, <2>7
  <1>3. CASE InsertAgain
    <2>1. PICK e \in held, click \in Clicks :
            /\ Link(e, click)
            /\ ev' = [ev EXCEPT ![e].click = click]
            /\ held' = held \ {e}
            /\ UNCHANGED <<live, loop>>
      BY <1>3 DEF InsertAgain
    <2>2. e \in Ids /\ e \in live
      BY <1>1, <2>1 DEF FieldTypes
    <2>3. PICK c0 \in Clicks, d \in Data : ev[e] = Event(e, c0, d)
      BY <1>1, <2>2 DEF EventsOK
    <2>4. ev'[e] = Event(e, click, d) /\ \A x \in Ids : x # e => ev'[x] = ev[x]
      <3>1. ev'[e] = [ev[e] EXCEPT !.click = click] /\ \A x \in Ids : x # e => ev'[x] = ev[x]
        BY <1>1, <2>1, <2>2 DEF EventsOK
      <3> QED BY <2>3, <3>1 DEF Event
    <2>5. Joins(e, click)
      <3>1. ev'[e].click = click
        BY <2>4 DEF Event
      <3>2. live' \ held' = (live \ held) \cup {e}
        BY <1>1, <2>1, <2>2 DEF FieldTypes
      <3> QED BY <2>1, <2>4, <3>1, <3>2 DEF Joins
    <2>6. LinkTypesNext
      BY <1>1, <2>1, <2>2, LinkKeepsTypes
    <2>7. FieldTypes'
      BY <1>1, <2>1, <2>6 DEF FieldTypes, LinkTypesNext
    <2>8. EventsOK'
      <3>1. ev' = [x \in Ids |-> ev'[x]]
        BY <1>1, <2>1 DEF EventsOK
      <3>2. \A x \in live' : \E c \in Clicks, b \in Data : ev'[x] = Event(x, c, b)
        BY <1>1, <2>1, <2>4 DEF EventsOK, FieldTypes
      <3> QED BY <3>1, <3>2 DEF EventsOK, Event
    <2>9. LoopOK'
      BY <1>1, <2>1 DEF LoopOK
    <2> QED BY <1>3, <2>1, <2>2, <2>3, <2>4, <2>5, <2>7, <2>8, <2>9
  <1> QED BY <1>2, <1>3

\* Events that stay allocated and unchanged stay what they are.
LEMMA SparingKeepsEvents ==
    ASSUME EventsOK, ev' = [x \in Ids |-> ev'[x]],
           live' \subseteq live, \A x \in live' : ev'[x] = ev[x]
    PROVE  EventsOK'
  <1>1. \A x \in live' : \E c \in Clicks, d \in Data : ev'[x] = Event(x, c, d)
    BY DEF EventsOK
  <1> QED BY <1>1 DEF EventsOK, Event

\* Deleting an event leaves the others what they are.
LEMMA FreeingKeepsEvents ==
    ASSUME FieldTypes, EventsOK, NEW e, Free(e)
    PROVE  EventsOK' /\ live' \subseteq live
  <1>1. ev' = [ev EXCEPT ![e] = NoEvent] /\ live' = live \ {e}
    BY DEF Free
  <1>2. ev' = [x \in Ids |-> ev'[x]]
    BY <1>1 DEF EventsOK
  <1>3. \A x \in live' : ev'[x] = ev[x]
    BY <1>1 DEF EventsOK, FieldTypes
  <1> QED BY <1>1, <1>2, <1>3, SparingKeepsEvents

\* So does a step that touches none.
LEMMA NotTouchingKeepsEvents ==
    ASSUME EventsOK, UNCHANGED <<ev, live>>
    PROVE  EventsOK'
  BY SparingKeepsEvents DEF EventsOK

\* Every step keeps the types.
LEMMA StepKeepsTypes ==
    ASSUME NEW s, NEW k, Represents(s, k), Next
    PROVE  FieldTypes' /\ EventsOK' /\ LoopOK'
  <1>1. /\ s \in Seq(Ids) /\ IsChain(s) /\ LinkTypes /\ FieldTypes /\ EventsOK /\ LoopOK
    BY RepresentsFacts DEF Represents
  <1>2. CASE Insert \/ InsertAgain
    BY <1>2, InsertionsJoin
  <1>3. CASE loop.op = "none" /\ PopFirst
    <2>1. s # <<>> /\ first = s[1]
      BY <1>3, PoppingRemoves
    <2>2. /\ first' = next[first] /\ last' = last /\ next' = next
          /\ held' = held \cup {first} /\ UNCHANGED <<ev, live, loop>>
      BY <1>3 DEF PopFirst
    <2>3. prev' \in [Ids -> Ids \cup {Null}]
      BY <1>1, <1>3 DEF PopFirst, LinkTypes
    <2>4. EventsOK'
      BY <1>1, <2>2, NotTouchingKeepsEvents
    <2>5. first \in live
      <3>1. 1 \in 1 .. Len(s) /\ loop.op # "DeleteAll"
        BY <1>1, <1>3, <2>1, EmptySeq
      <3> QED BY <2>1, <3>1, RepresentsFacts
    <2>6. FieldTypes' /\ LoopOK'
      BY <1>1, <2>2, <2>3, <2>5 DEF FieldTypes, LoopOK, LinkTypes
    <2> QED BY <2>4, <2>6
  <1>4. CASE Delete
    <2>1. PICK e \in held : Free(e) /\ held' = held \ {e} /\ UNCHANGED <<links, loop>>
      BY <1>4 DEF Delete
    <2>2. EventsOK'
      BY <1>1, <2>1, FreeingKeepsEvents
    <2> QED BY <1>1, <2>1, <2>2 DEF Free, FieldTypes, LoopOK, links
  <1>5. CASE StartLoop
    <2>1. PICK d \in Data, click \in Clicks,
             op \in {"DeleteAll", "DeleteAllId", "DeleteAllBefore"} :
               loop' = [op |-> op, cursorid |-> d.cursorid, before |-> click, e |-> first]
      BY <1>5 DEF StartLoop
    <2>2. UNCHANGED <<links, ev, live, held>>
      BY <1>5 DEF StartLoop
    <2>3. LoopOK' /\ loop'.e = first
      BY <2>1 DEF LoopOK
    <2>4. EventsOK'
      BY <1>1, <2>2, NotTouchingKeepsEvents
    <2> QED BY <1>1, <2>2, <2>3, <2>4 DEF FieldTypes, links
  <1>6. CASE Iterate
    <2>1. /\ k \in 1 .. Len(s) /\ loop.op # "none"
          /\ loop' = [loop EXCEPT !.e = next[s[k]]] /\ loop'.op = loop.op
          /\ held' = held
      BY <1>6, IterationMoves
    <2>2. LoopOK' /\ loop'.e = next[s[k]] /\ next[s[k]] \in Ids \cup {Null}
      BY <1>1, <2>1 DEF LoopOK, LinkTypes
    <2>3. loop.e = s[k] /\ s[k] \in Ids /\ s[k] \notin held
      BY <1>6, <2>1, IterationMoves, RepresentsFacts DEF Represents, LoopAt
    <2>4. LinkTypesNext
      BY <1>1, <1>6, <2>3, UnlinkKeepsTypes DEF Iterate, links, LinkTypes, LinkTypesNext
    <2>5. CASE Doomed(s[k])
      <3>1. Free(s[k])
        BY <1>6, <2>5, IterationMoves
      <3> QED
        BY <1>1, <2>1, <2>2, <2>3, <2>4, <3>1, FreeingKeepsEvents
           DEF Free, FieldTypes, LinkTypesNext
    <2>6. CASE ~ Doomed(s[k])
      <3>1. UNCHANGED <<ev, live>>
        BY <1>6, <2>6, IterationMoves
      <3>2. EventsOK'
        BY <1>1, <3>1, NotTouchingKeepsEvents
      <3> QED BY <1>1, <2>1, <2>2, <2>4, <3>1, <3>2 DEF FieldTypes, LinkTypesNext
    <2> QED BY <2>5, <2>6
  <1>7. CASE EndLoop
    <2>1. UNCHANGED <<next, prev, ev, live, held>> /\ loop' = NoLoop
      BY <1>7 DEF EndLoop
    <2>2. first' \in Ids \cup {Null} /\ last' \in Ids \cup {Null}
      BY <1>1, <1>7 DEF EndLoop, LinkTypes
    <2>3. EventsOK'
      BY <1>1, <2>1, NotTouchingKeepsEvents
    <2>4. LoopOK' /\ loop'.e = Null
      BY <2>1 DEF NoLoop, LoopOK
    <2> QED BY <1>1, <2>1, <2>2, <2>3, <2>4 DEF FieldTypes
  <1> QED
    BY <1>2, <1>3, <1>4, <1>5, <1>6, <1>7 DEF Next, OneStepOperation, LoopOperation

\* Every step leaves the links representing a sequence.
LEMMA StepKeepsListInv ==
    ASSUME ListInv, [Next]_vars
    PROVE  ListInv'
  <1>1. PICK s, k : Represents(s, k)
    BY DEF ListInv
  <1>2. CASE UNCHANGED vars
    <2>1. UNCHANGED <<first, last, next, prev, ev, live, held, loop>>
      BY <1>2 DEF vars, links
    <2>2. FieldTypes' /\ EventsOK' /\ LoopOK'
      BY <1>1, <2>1, NotTouchingKeepsEvents DEF Represents, FieldTypes, LoopOK
    <2>3. ChainNext(s)
      BY <1>1, <2>1 DEF Represents, IsChain, ChainNext
    <2>4. LoopNext(s, k)
      BY <1>1, <2>1 DEF Represents, LoopAt, LoopNext, Ordered, Doomed
    <2>5. s \in Seq(Ids)
      BY <1>1 DEF Represents
    <2> QED BY <2>2, <2>3, <2>4, <2>5, NextListInv DEF RepresentsNext
  <1>3. ASSUME Next, \E t \in Seq(Ids) : \E m : ChainNext(t) /\ LoopNext(t, m)
        PROVE  ListInv'
    BY <1>1, <1>3, StepKeepsTypes, NextListInv DEF RepresentsNext
  <1>4. CASE loop.op = "none" /\ OneStepOperation
    <2>0. Next
      BY <1>4 DEF Next
    <2>1. CASE Insert \/ InsertAgain
      <3>1. PICK e \in Ids, click \in Clicks : e \notin live \ held /\ Joins(e, click)
        BY <1>1, <2>1, InsertionsJoin
      <3> QED BY <1>1, <1>3, <1>4, <2>0, <3>1, JoiningInserts
    <2>2. CASE PopFirst
      <3>1. ChainNext(Removal(s, 1)) /\ LoopNext(Removal(s, 1), Len(s))
        BY <1>1, <1>4, <2>2, PoppingRemoves
      <3> QED BY <1>3, <2>0, <3>1 DEF ChainNext, Chain
    <2>3. CASE Delete
      BY <1>1, <1>3, <1>4, <2>0, <2>3, DeletingKeepsList, RepresentsFacts
    <2> QED BY <1>4, <2>1, <2>2, <2>3 DEF OneStepOperation
  <1>5. CASE LoopOperation
    <2>0. Next
      BY <1>5 DEF Next
    <2>1. CASE StartLoop
      BY <1>1, <1>3, <2>0, <2>1, LoopStarts, RepresentsFacts
    <2>2. CASE Iterate
      <3>1. CASE loop.op = "DeleteAll" \/ ~ Doomed(s[k])
        BY <1>1, <1>3, <2>0, <2>2, <3>1, IterationKeepsChain, RepresentsFacts
      <3>2. CASE ~ (loop.op = "DeleteAll" \/ ~ Doomed(s[k]))
        <4>1. ChainNext(Removal(s, k)) /\ LoopNext(Removal(s, k), k)
          BY <1>1, <2>2, <3>2, IterationRemoves
        <4> QED BY <1>3, <2>0, <4>1 DEF ChainNext, Chain
      <3> QED BY <3>1, <3>2
    <2>3. CASE EndLoop
      <3>1. <<>> \in Seq(Ids)
        OBVIOUS
      <3> QED BY <1>1, <1>3, <2>0, <2>3, <3>1, LoopEnds, RepresentsFacts
    <2> QED BY <1>5, <2>1, <2>2, <2>3 DEF LoopOperation
  <1> QED BY <1>2, <1>4, <1>5 DEF Next

\* So they represent one in every state.
LEMMA SpecListInv == Spec => []ListInv
  <1> QED BY InitRepresents, StepKeepsListInv, PTL DEF Spec

-----------------------------------------------------------------------------
(* What it makes true *)

\* The fields have their types; outside of a DeleteAll, what is in the list is exactly
\* what is allocated and not popped, and a DeleteAll loses nothing.
THEOREM ListTypes == Spec => []TypeOK
  <1>1. ListInv => TypeOK
    <2> SUFFICES ASSUME NEW s \in Seq(Ids), NEW k, Represents(s, k)
                 PROVE  TypeOK
      BY DEF ListInv
    <2>1. FieldTypes
      BY DEF Represents
    <2>2. Contents = s
      BY ChainIsContents DEF TraversalsFollowChains, Represents
    <2>3. /\ k \in 1 .. Len(s) + 1 /\ Len(s) \in Nat
          /\ ToSet(s) = {s[i] : i \in 1 .. Len(s)}
      BY RepresentsFacts
    <2>4. {s[i] : i \in k .. Len(s)} \subseteq ToSet(s)
      BY <2>3
    <2> QED BY <2>1, <2>2, <2>4 DEF TypeOK, Represents, LoopAt
  <1> QED BY <1>1, SpecListInv, PTL

\* CheckSanity's UNEXPECTED A to F never come, after any step of any operation;
\* m_last is what a traversal ends at, and each m_prev undoes an m_next.
THEOREM ListIsSane == Spec => []CheckSanity
  <1>1. ListInv => CheckSanity
    <2> SUFFICES ASSUME NEW s \in Seq(Ids), NEW k, Represents(s, k), first # Null
                 PROVE  /\ Length > 0 /\ Contents[Length] = last
                        /\ prev[first] = Null /\ next[last] = Null
                        /\ \A i \in 2 .. Length : prev[Contents[i]] = Contents[i - 1]
      BY DEF ListInv, CheckSanity
    <2>1. IsChain(s) /\ Contents = s /\ Length = Len(s)
      BY ChainIsContents DEF TraversalsFollowChains, Represents
    <2>2. s # <<>> /\ Len(s) \in Nat /\ Len(s) > 0
      <3>1. s # <<>>
        BY <2>1 DEF IsChain, Chain
      <3> QED BY <3>1, EmptySeq
    <2>3. /\ first = s[1] /\ last = s[Len(s)]
          /\ \A i \in 1 .. Len(s) :
                /\ next[s[i]] = IF i = Len(s) THEN Null ELSE s[i + 1]
                /\ prev[s[i]] = IF i = 1 THEN Null ELSE s[i - 1]
      BY <2>1, <2>2 DEF IsChain, Chain
    <2>4. 1 \in 1 .. Len(s) /\ Len(s) \in 1 .. Len(s)
          /\ \A i \in 2 .. Len(s) : i \in 1 .. Len(s) /\ i # 1
      BY <2>2
    <2> QED BY <2>1, <2>2, <2>3, <2>4
  <1> QED BY <1>1, SpecListInv, PTL

\* Under the lock of the list, a deleting loop always goes on from an event that
\* is allocated and in nobody's hands, although it deletes as it goes.
THEOREM LoopsStayOnLiveEvents == Spec => []LoopEventIsLive
  <1>1. ListInv => LoopEventIsLive
    <2> SUFFICES ASSUME NEW s, NEW k, Represents(s, k), loop.e # Null
                 PROVE  loop.e \in live \ held
      BY DEF ListInv, LoopEventIsLive
    <2>1. /\ k \in 1 .. Len(s) + 1 /\ Len(s) \in Nat
          /\ ToSet(s) = {s[i] : i \in 1 .. Len(s)}
      BY RepresentsFacts
    <2>2. k <= Len(s) /\ loop.e = s[k]
      BY <2>1 DEF Represents, LoopAt
    <2>3. k \in 1 .. Len(s) /\ k \in k .. Len(s)
      BY <2>1, <2>2
    <2> QED BY <2>1, <2>2, <2>3 DEF Represents, LoopAt
  <1> QED BY <1>1, SpecListInv, PTL

-----------------------------------------------------------------------------
(* The list implements EventQueue *)

\* The events of s, and the positions of those that a loop has still to delete.
Image(s) == [i \in 1 .. Len(s) |-> ev[s[i]]]

DoomedAt(s) == {i \in 1 .. Len(s) : Doomed(s[i])}

\* What EventQueue's list is while the links represent s.
Rest(s) == IF loop.op = "DeleteAll" THEN <<>> ELSE Without(Image(s), DoomedAt(s))

RestNext(s) == Rest(s)'

HeldEvents == {ev[e] : e \in held}

Events == {Event(e, click, d) : e \in Ids, click \in Clicks, d \in Data}

\* Events have the id and the click they were made with.
LEMMA EventsFacts ==
    /\ \A e \in Ids, click \in Clicks, d \in Data :
          /\ Event(e, click, d) \in Events
          /\ Event(e, click, d).id = e /\ Event(e, click, d).click = click
    /\ \A x \in Events : x.click \in Nat
  <1>1. ASSUME NEW x \in Events PROVE x.click \in Nat
    BY ListAssumption DEF Events, Event
  <1>2. ASSUME NEW e \in Ids, NEW click \in Clicks, NEW d \in Data
        PROVE  /\ Event(e, click, d) \in Events
               /\ Event(e, click, d).id = e /\ Event(e, click, d).click = click
    <2>1. Event(e, click, d) \in Events
      BY DEF Events
    <2> QED BY <2>1 DEF Event
  <1> QED BY <1>1, <1>2

\* While the events are all allocated, the list is their sequence.
LEMMA ImageFacts ==
    ASSUME NEW s, NEW k, Represents(s, k), loop.op # "DeleteAll"
    PROVE  /\ Image(s) \in Seq(Events) /\ Len(Image(s)) = Len(s)
           /\ DOMAIN Image(s) = 1 .. Len(s)
           /\ \A i \in 1 .. Len(s) : Image(s)[i] = ev[s[i]] /\ ev[s[i]].id = s[i]
           /\ List = Image(s)
  <1>1. /\ s \in Seq(Ids) /\ Len(s) \in Nat /\ IsChain(s)
        /\ \A i \in 1 .. Len(s) : s[i] \in live /\ s[i] \in Ids
    BY RepresentsFacts
  <1>2. ASSUME NEW i \in 1 .. Len(s) PROVE ev[s[i]] \in Events /\ ev[s[i]].id = s[i]
    <2>1. PICK click \in Clicks, d \in Data : ev[s[i]] = Event(s[i], click, d)
      BY <1>1 DEF Represents, EventsOK
    <2> QED BY <1>1, <2>1, EventsFacts
  <1>3. Contents = s /\ Length = Len(s)
    BY <1>1, ChainIsContents DEF TraversalsFollowChains
  <1> QED BY <1>1, <1>2, <1>3 DEF Image, List

RestIsAbstractList ==
    \A s \in Seq(Ids), k \in Nat : Represents(s, k) => AbstractList = Rest(s)

\* It is the refinement mapping of module SchedEventList.
LEMMA AbstractListIsRest == RestIsAbstractList
  <1> SUFFICES ASSUME NEW s \in Seq(Ids), NEW k \in Nat, Represents(s, k)
               PROVE  AbstractList = Rest(s)
    BY DEF RestIsAbstractList
  <1>0. loop.op \in {"none", "DeleteAll", "DeleteAllId", "DeleteAllBefore"}
    BY DEF Represents, LoopOK
  <1>1. CASE loop.op = "DeleteAll"
    BY <1>1 DEF AbstractList, Rest
  <1>2. CASE loop.op # "DeleteAll"
    <2>1. /\ Image(s) \in Seq(Events) /\ DOMAIN Image(s) = 1 .. Len(s)
          /\ \A i \in 1 .. Len(s) : Image(s)[i] = ev[s[i]]
          /\ List = Image(s)
      BY <1>2, ImageFacts
    <2>2. CASE loop.op = "none"
      <3>1. DoomedAt(s) = {} /\ AbstractList = List
        BY <2>2 DEF DoomedAt, Doomed, AbstractList
      <3> QED BY <1>2, <2>1, <3>1, WithoutNothing DEF Rest
    <2>3. CASE loop.op = "DeleteAllId"
      <3>1. DoomedAt(s) = {i \in DOMAIN List : List[i].cursorid = loop.cursorid}
        BY <2>1, <2>3 DEF DoomedAt, Doomed
      <3>2. AbstractList = DeleteAllId(List, loop.cursorid)
        BY <2>3 DEF AbstractList
      <3> QED BY <1>2, <2>1, <3>1, <3>2 DEF Rest, DeleteAllId
    <2>4. CASE loop.op = "DeleteAllBefore"
      <3>1. DoomedAt(s) =
              {i \in DOMAIN List : ToDeleteBefore(List[i], loop.cursorid, loop.before)}
        BY <2>1, <2>4 DEF DoomedAt, Doomed
      <3>2. AbstractList = DeleteAllBefore(List, loop.cursorid, loop.before)
        BY <2>4 DEF AbstractList
      <3> QED BY <1>2, <2>1, <3>1, <3>2 DEF Rest, DeleteAllBefore
    <2> QED BY <1>0, <1>2, <2>2, <2>3, <2>4
  <1> QED BY <1>1, <1>2

\* The same of the next state.
LEMMA AbstractListIsRestNext == RestIsAbstractList'
  BY AbstractListIsRest, PTL

\* The mapping after a step, from the sequence that is represented then.
LEMMA NextAbstractList ==
    ASSUME NEW t, NEW m, RepresentsNext(t, m)
    PROVE  AbstractList' = RestNext(t)
  <1>1. m \in Nat /\ t \in Seq(Ids)
    BY DEF RepresentsNext, LoopNext, LoopAt
  <1> QED
    BY <1>1, AbstractListIsRestNext
       DEF RestIsAbstractList, RepresentsNext, ChainNext, LoopNext, Represents,
           IsChain, RestNext

\* The operators that EventQueue is made of are those of EventList.
LEMMA QueueTerms ==
    /\ \A s, e : eventqueue!InsertEvent(s, e) = InsertEvent(s, e)
    /\ \A s, c : eventqueue!DeleteAllId(s, c) = DeleteAllId(s, c)
    /\ \A s, c, b : eventqueue!DeleteAllBefore(s, c, b) = DeleteAllBefore(s, c, b)
    /\ \A e, c, d : eventqueue!Event(e, c, d) = Event(e, c, d)
  <1>1. \A s, e : eventqueue!InsertEvent(s, e) = InsertEvent(s, e)
    <2>1. \A s, e : eventqueue!InsertPosition(s, e) = InsertPosition(s, e)
      BY DEF eventqueue!InsertPosition, InsertPosition
    <2>2. \A s, i, e : eventqueue!InsertAt(s, i, e) = InsertAt(s, i, e)
      BY DEF eventqueue!InsertAt, InsertAt
    <2> QED BY <2>1, <2>2 DEF eventqueue!InsertEvent, InsertEvent
  <1>2. \A s, D : eventqueue!Without(s, D) = Without(s, D)
    BY DEF eventqueue!Without, Without, eventqueue!Cardinality, Cardinality
  <1>3. \A e, c, b : eventqueue!ToDeleteBefore(e, c, b) <=> ToDeleteBefore(e, c, b)
    BY DEF eventqueue!ToDeleteBefore, ToDeleteBefore, eventqueue!IsNoteOffMsg, IsNoteOffMsg
  <1>4. \A s, c : eventqueue!DeleteAllId(s, c) = DeleteAllId(s, c)
    BY <1>2 DEF eventqueue!DeleteAllId, DeleteAllId
  <1>5. \A s, c, b : eventqueue!DeleteAllBefore(s, c, b) = DeleteAllBefore(s, c, b)
    BY <1>2, <1>3 DEF eventqueue!DeleteAllBefore, DeleteAllBefore
  <1>6. \A e, c, d : eventqueue!Event(e, c, d) = Event(e, c, d)
    BY DEF eventqueue!Event, Event
  <1> QED BY <1>1, <1>4, <1>5, <1>6

\* An event that is allocated is one of EventQueue's, under its own address.
LEMMA LiveEvents ==
    ASSUME NEW s, NEW k, Represents(s, k), NEW e \in live
    PROVE  e \in Ids /\ ev[e] \in Events /\ ev[e].id = e
  <1>1. PICK click \in Clicks, d \in Data : ev[e] = Event(e, click, d)
    BY DEF Represents, EventsOK
  <1> QED BY <1>1, EventsFacts DEF Represents, FieldTypes

\* No loop runs: EventQueue's list is the sequence of the events.
LEMMA IdleRest ==
    ASSUME NEW t \in Seq(Ids), NEW u \in Seq(Events), Len(u) = Len(t),
           \A i \in 1 .. Len(t) : ev'[t[i]] = u[i],
           loop'.op = "none"
    PROVE  RestNext(t) = u
  <1>1. DoomedAt(t)' = {}
    BY DEF DoomedAt, Doomed
  <1>2. Image(t)' = u
    BY DEF Image
  <1> QED BY <1>1, <1>2, WithoutNothing DEF RestNext, Rest

\* Before the step likewise.
LEMMA IdleAbstractList ==
    ASSUME NEW s, NEW k, Represents(s, k), loop.op = "none"
    PROVE  /\ AbstractList = Image(s) /\ Image(s) \in Seq(Events)
           /\ Len(Image(s)) = Len(s) /\ DOMAIN Image(s) = 1 .. Len(s)
           /\ \A i \in 1 .. Len(s) : Image(s)[i] = ev[s[i]] /\ ev[s[i]].id = s[i]
  BY ImageFacts DEF AbstractList

\* The position where an event is linked is where InsertEvent puts it.
LEMMA JoiningIsInsertEvent ==
    ASSUME NEW s, NEW k, Represents(s, k), loop.op = "none",
           FieldTypes', EventsOK', LoopOK',
           NEW e \in Ids, e \notin live \ held, NEW click \in Clicks, Joins(e, click),
           ev'[e] \in Events
    PROVE  AbstractList' = InsertEvent(AbstractList, ev'[e])
  <1>1. PICK p \in 1 .. Len(s) + 1 :
              /\ Insertion(s, p, e) \in Seq(Ids)
              /\ ChainNext(Insertion(s, p, e))
              /\ LoopNext(Insertion(s, p, e), Len(s) + 2)
              /\ \A i \in 1 .. Len(s) : i < p => ev[s[i]].click <= click
              /\ \A i \in 1 .. Len(s) : i >= p => click < ev[s[i]].click
    BY JoiningInserts
  <1> DEFINE t == Insertion(s, p, e)
             l == Image(s)
             x == ev'[e]
  <1>2. /\ s \in Seq(Ids) /\ Len(s) \in Nat
        /\ \A i \in 1 .. Len(s) : s[i] \in Ids /\ s[i] \in live \ held
    BY RepresentsFacts DEF Represents, LoopAt
  <1>3. /\ AbstractList = l /\ l \in Seq(Events) /\ Len(l) = Len(s)
        /\ \A i \in 1 .. Len(s) : l[i] = ev[s[i]]
    BY IdleAbstractList
  <1>4. /\ Len(t) = Len(s) + 1
        /\ \A i \in 1 .. Len(s) + 1 :
              t[i] = IF i < p THEN s[i] ELSE IF i = p THEN e ELSE s[i - 1]
    BY <1>2, InsertionProperties
  <1>5. /\ x.click = click /\ loop' = loop
        /\ \A i \in 1 .. Len(s) : ev'[s[i]] = ev[s[i]]
    BY <1>2 DEF Joins
  <1>6. AbstractList' = RestNext(t)
    BY <1>1, NextAbstractList DEF RepresentsNext
  <1>7. t \in Seq(Ids)
    BY <1>1
  <1> HIDE DEF t, l, x
  <1>8. InsertEvent(l, x) = Insertion(l, p, x)
    <2>1. x \in Events /\ p \in 1 .. Len(l) + 1
      BY <1>3 DEF x
    <2>2. \A y \in Events : y.click \in Nat
      BY EventsFacts
    <2>3. /\ \A i \in 1 .. Len(l) : i < p => l[i].click <= x.click
          /\ \A i \in 1 .. Len(l) : i >= p => x.click < l[i].click
      BY <1>1, <1>3, <1>5
    <2> QED BY <1>3, <2>1, <2>2, <2>3, InsertEventAt
  <1>9. /\ InsertEvent(l, x) \in Seq(Events)
        /\ Len(InsertEvent(l, x)) = Len(s) + 1
        /\ \A i \in 1 .. Len(s) + 1 :
             InsertEvent(l, x)[i] = IF i < p THEN l[i] ELSE IF i = p THEN x ELSE l[i - 1]
    <2>1. x \in Events /\ p \in 1 .. Len(l) + 1
      BY <1>3 DEF x
    <2>2. Insertion(l, p, x) \in Seq(Events) /\ Len(Insertion(l, p, x)) = Len(l) + 1
      BY <1>3, <2>1, InsertionProperties
    <2>3. \A i \in 1 .. Len(l) + 1 :
             Insertion(l, p, x)[i] = IF i < p THEN l[i] ELSE IF i = p THEN x ELSE l[i - 1]
      BY DEF Insertion
    <2> QED BY <1>3, <1>8, <2>2, <2>3
  <1> DEFINE u == InsertEvent(l, x)
  <1>10. ASSUME NEW i \in 1 .. Len(t) PROVE ev'[t[i]] = u[i]
    <2> HIDE DEF u
    <2>0. /\ i \in 1 .. Len(s) + 1
          /\ u[i] = IF i < p THEN l[i] ELSE IF i = p THEN x ELSE l[i - 1]
      BY <1>4, <1>9 DEF u
    <2>1. CASE i < p
      <3>1. i \in 1 .. Len(s)
        BY <1>2, <2>0, <2>1
      <3> QED BY <1>3, <1>4, <1>5, <2>0, <2>1, <3>1
    <2>2. CASE i = p
      BY <1>2, <1>4, <2>0, <2>2 DEF x
    <2>3. CASE i > p
      <3>1. i - 1 \in 1 .. Len(s) /\ ~ i < p /\ i # p
        BY <1>2, <2>0, <2>3
      <3> QED BY <1>3, <1>4, <1>5, <2>0, <2>3, <3>1
    <2> QED BY <1>2, <2>0, <2>1, <2>2, <2>3
  <1>11. RestNext(t) = u
    <2>1. loop'.op = "none"
      BY <1>5
    <2>2. u \in Seq(Events) /\ Len(u) = Len(t)
      BY <1>4, <1>9
    <2> HIDE DEF u
    <2> QED BY <1>7, <1>10, <2>1, <2>2, IdleRest
  <1> QED BY <1>3, <1>6, <1>11 DEF x

\* InsertEvent on the links is InsertEvent on the sequence, for a new event and for
\* one that was popped.
LEMMA InsertImplementsInsert ==
    ASSUME NEW s, NEW k, Represents(s, k), loop.op = "none", Insert \/ InsertAgain
    PROVE  [eventqueue!Next]_<<AbstractList, HeldEvents>>
  <1>1. PICK e \in Ids, click \in Clicks :
              /\ e \notin live \ held /\ Joins(e, click)
              /\ \/ /\ Insert /\ e \notin live /\ held' = held
                    /\ \E d \in Data : ev'[e] = Event(e, click, d)
                 \/ /\ InsertAgain /\ e \in held /\ held' = held \ {e}
                    /\ \E c, d : ev[e] = Event(e, c, d) /\ d \in Data
                                /\ ev'[e] = Event(e, click, d)
              /\ FieldTypes' /\ EventsOK' /\ LoopOK'
    BY InsertionsJoin
  <1>2. ev'[e] \in Events
    BY <1>1, EventsFacts
  <1>3. AbstractList' = eventqueue!InsertEvent(AbstractList, ev'[e])
    BY <1>1, <1>2, JoiningIsInsertEvent, QueueTerms
  <1>4. \A h \in held : h \in live /\ h \in Ids /\ ev[h].id = h
    BY LiveEvents DEF Represents, FieldTypes
  <1>5. CASE e \notin live /\ held' = held /\ \E d \in Data : ev'[e] = Event(e, click, d)
    <2>1. PICK d \in Data : ev'[e] = eventqueue!Event(e, click, d)
      BY <1>5, QueueTerms
    <2>2. \A h \in held : ev'[h] = ev[h]
      BY <1>1, <1>4, <1>5 DEF Joins
    <2>3. HeldEvents' = HeldEvents
      BY <1>5, <2>2 DEF HeldEvents
    <2>4. \A x \in eventqueue!ToSet(AbstractList) \cup HeldEvents : x.id # e
      <3>1. /\ AbstractList = Image(s) /\ DOMAIN Image(s) = 1 .. Len(s)
            /\ \A i \in 1 .. Len(s) : Image(s)[i].id = s[i] /\ s[i] \in live
        BY IdleAbstractList, RepresentsFacts
      <3>2. \A x \in eventqueue!ToSet(AbstractList) : x.id \in live
        BY <3>1 DEF eventqueue!ToSet
      <3> QED BY <1>4, <1>5, <3>2 DEF HeldEvents
    <2>5. eventqueue!Insert
      BY <1>3, <2>1, <2>3, <2>4 DEF eventqueue!Insert, HeldEvents
    <2> QED BY <2>5 DEF eventqueue!Next
  <1>6. CASE /\ e \in held /\ held' = held \ {e}
             /\ \E c, d : ev[e] = Event(e, c, d) /\ d \in Data /\ ev'[e] = Event(e, click, d)
    <2>1. ev'[e] = [ev[e] EXCEPT !.click = click]
      BY <1>6 DEF Event
    <2>2. \A h \in held : h # e => ev'[h] = ev[h] /\ ev[h] # ev[e]
      BY <1>1, <1>4, <1>6 DEF Joins
    <2>3. HeldEvents' = HeldEvents \ {ev[e]} /\ ev[e] \in HeldEvents
      BY <1>6, <2>2 DEF HeldEvents
    <2>4. eventqueue!InsertAgain
      BY <1>3, <2>1, <2>3 DEF eventqueue!InsertAgain, HeldEvents
    <2> QED BY <2>4 DEF eventqueue!Next
  <1> QED BY <1>1, <1>5, <1>6

\* PopFirst takes the head, and leaves the tail.
LEMMA PopImplementsPop ==
    ASSUME NEW s, NEW k, Represents(s, k), loop.op = "none", PopFirst,
           FieldTypes', EventsOK', LoopOK'
    PROVE  [eventqueue!Next]_<<AbstractList, HeldEvents>>
  <1> DEFINE t == Removal(s, 1)
             l == Image(s)
  <1>1. /\ s # <<>> /\ first = s[1] /\ ChainNext(t) /\ LoopNext(t, Len(s))
    BY PoppingRemoves
  <1>2. /\ s \in Seq(Ids) /\ Distinct(s) /\ Len(s) \in Nat /\ Len(s) > 0
        /\ 1 \in 1 .. Len(s)
    BY <1>1, RepresentsFacts, EmptySeq DEF IsChain, Chain
  <1>3. /\ AbstractList = l /\ l \in Seq(Events) /\ Len(l) = Len(s)
        /\ \A i \in 1 .. Len(s) : l[i] = ev[s[i]]
    BY IdleAbstractList
  <1>4. /\ t \in Seq(Ids) /\ Len(t) = Len(s) - 1
        /\ \A i \in 1 .. Len(t) : t[i] = s[i + 1]
    <2>1. /\ t \in Seq(Ids) /\ Len(t) = Len(s) - 1
          /\ \A i \in 1 .. Len(s) - 1 : t[i] = IF i < 1 THEN s[i] ELSE s[i + 1]
      BY <1>2, RemovalProperties
    <2> HIDE DEF t
    <2> QED BY <1>2, <2>1
  <1>5. ev' = ev /\ loop' = loop /\ held' = held \cup {first}
    BY DEF PopFirst
  <1>6. AbstractList' = RestNext(t)
    BY <1>1, <1>4, NextAbstractList DEF RepresentsNext
  <1> HIDE DEF t, l
  <1>7. /\ l # <<>> /\ Tail(l) \in Seq(Events) /\ Len(Tail(l)) = Len(s) - 1
        /\ \A i \in 1 .. Len(s) - 1 : Tail(l)[i] = l[i + 1]
        /\ Head(l) = l[1]
    <2>1. l # <<>>
      BY <1>2, <1>3, EmptySeq
    <2> QED BY <1>3, <2>1, HeadTailProperties
  <1>8. \A i \in 1 .. Len(t) : ev'[t[i]] = Tail(l)[i]
    <2> TAKE i \in 1 .. Len(t)
    <2>1. i + 1 \in 1 .. Len(s) /\ i \in 1 .. Len(s) - 1
      BY <1>2, <1>4
    <2> QED BY <1>3, <1>4, <1>5, <1>7, <2>1
  <1>9. AbstractList' = Tail(AbstractList)
    <2>1. loop'.op = "none"
      BY <1>5
    <2> QED BY <1>3, <1>4, <1>6, <1>7, <1>8, <2>1, IdleRest
  <1>10. HeldEvents' = HeldEvents \cup {Head(AbstractList)}
    <2>1. Head(AbstractList) = ev[first]
      BY <1>1, <1>2, <1>3, <1>7
    <2> QED BY <1>5, <2>1 DEF HeldEvents
  <1> QED BY <1>3, <1>7, <1>9, <1>10 DEF eventqueue!PopFirst, eventqueue!Next, HeldEvents

\* Deleting an event that was popped does not disturb the list.
LEMMA DeleteImplementsDelete ==
    ASSUME NEW s, NEW k, Represents(s, k), loop.op = "none", Delete,
           FieldTypes', EventsOK', LoopOK'
    PROVE  [eventqueue!Next]_<<AbstractList, HeldEvents>>
  <1>1. /\ ChainNext(s) /\ LoopNext(s, k) /\ s \in Seq(Ids)
        /\ \A i \in 1 .. Len(s) : ev'[s[i]] = ev[s[i]]
    BY DeletingKeepsList, RepresentsFacts
  <1>2. PICK e \in held : Free(e) /\ held' = held \ {e} /\ UNCHANGED loop
    BY DEF Delete
  <1>3. AbstractList' = AbstractList
    <2>1. AbstractList' = RestNext(s)
      BY <1>1, NextAbstractList DEF RepresentsNext
    <2>2. /\ AbstractList = Image(s) /\ Image(s) \in Seq(Events) /\ Len(Image(s)) = Len(s)
          /\ \A i \in 1 .. Len(s) : ev'[s[i]] = Image(s)[i]
      BY <1>1, IdleAbstractList
    <2>3. loop'.op = "none"
      BY <1>2
    <2> QED BY <1>1, <2>1, <2>2, <2>3, IdleRest
  <1>4. \A h \in held : h \in live /\ h \in Ids /\ ev[h].id = h
    BY LiveEvents DEF Represents, FieldTypes
  <1>5. \A h \in held : h # e => ev'[h] = ev[h] /\ ev[h] # ev[e]
    <2>1. \A h \in Ids : h # e => ev'[h] = ev[h]
      BY <1>2 DEF Free, Represents, EventsOK
    <2> QED BY <1>2, <1>4, <2>1
  <1>6. HeldEvents' = HeldEvents \ {ev[e]} /\ ev[e] \in HeldEvents
    BY <1>2, <1>5 DEF HeldEvents
  <1> QED BY <1>3, <1>6 DEF eventqueue!Delete, eventqueue!Next, HeldEvents

\* A loop deletes, for EventQueue, all it will delete when it starts.
LEMMA StartImplementsDeletion ==
    ASSUME NEW s, NEW k, Represents(s, k), StartLoop,
           FieldTypes', EventsOK', LoopOK'
    PROVE  [eventqueue!Next]_<<AbstractList, HeldEvents>>
  <1>1. ChainNext(s) /\ LoopNext(s, 1) /\ s \in Seq(Ids)
    BY LoopStarts, RepresentsFacts
  <1>2. PICK d \in Data, click \in Clicks,
             op \in {"DeleteAll", "DeleteAllId", "DeleteAllBefore"} :
           loop' = [op |-> op, cursorid |-> d.cursorid, before |-> click, e |-> first]
    BY DEF StartLoop
  <1>3. loop.op = "none" /\ UNCHANGED <<ev, held>>
    BY DEF StartLoop
  <1>4. HeldEvents' = HeldEvents
    BY <1>3 DEF HeldEvents
  <1>5. AbstractList' = RestNext(s)
    BY <1>1, NextAbstractList DEF RepresentsNext
  <1> DEFINE l == Image(s)
  <1>6. /\ AbstractList = l /\ DOMAIN l = 1 .. Len(s)
        /\ \A i \in 1 .. Len(s) : l[i] = ev[s[i]]
    BY <1>3, IdleAbstractList
  <1>7. Image(s)' = l
    BY <1>3 DEF Image
  <1>8. loop'.op = op /\ loop'.cursorid = d.cursorid /\ loop'.before = click
    BY <1>2
  <1> HIDE DEF l
  <1>9. CASE op = "DeleteAll"
    <2>1. AbstractList' = <<>>
      BY <1>5, <1>8, <1>9 DEF RestNext, Rest
    <2> QED BY <1>4, <2>1 DEF eventqueue!Clear, eventqueue!Next, HeldEvents
  <1>10. CASE op = "DeleteAllId"
    <2>1. DoomedAt(s)' = {i \in DOMAIN l : l[i].cursorid = d.cursorid}
      BY <1>3, <1>6, <1>8, <1>10 DEF DoomedAt, Doomed
    <2>2. AbstractList' = eventqueue!DeleteAllId(AbstractList, d.cursorid)
      BY <1>5, <1>6, <1>7, <1>8, <1>10, <2>1, QueueTerms DEF RestNext, Rest, DeleteAllId
    <2> QED BY <1>4, <2>2 DEF eventqueue!ClearId, eventqueue!Next, HeldEvents
  <1>11. CASE op = "DeleteAllBefore"
    <2>1. DoomedAt(s)' = {i \in DOMAIN l : ToDeleteBefore(l[i], d.cursorid, click)}
      BY <1>3, <1>6, <1>8, <1>11 DEF DoomedAt, Doomed
    <2>2. AbstractList' = eventqueue!DeleteAllBefore(AbstractList, d.cursorid, click)
      BY <1>5, <1>6, <1>7, <1>8, <1>11, <2>1, QueueTerms DEF RestNext, Rest, DeleteAllBefore
    <2> QED BY <1>4, <2>2 DEF eventqueue!ClearBefore, eventqueue!Next, HeldEvents
  <1> QED BY <1>9, <1>10, <1>11

\* What an iteration does is done already: EventQueue's list stays.
LEMMA IterationStutters ==
    ASSUME NEW s, NEW k, Represents(s, k), Iterate,
           FieldTypes', EventsOK', LoopOK'
    PROVE  UNCHANGED <<AbstractList, HeldEvents>>
  <1>1. /\ s \in Seq(Ids) /\ Len(s) \in Nat /\ k \in Nat
        /\ \A i \in 1 .. Len(s) : s[i] \in Ids
        /\ \A i, j \in 1 .. Len(s) : s[i] = s[j] => i = j
    BY RepresentsFacts
  <1>2. /\ k \in 1 .. Len(s) /\ loop.e = s[k]
        /\ loop'.op = loop.op /\ loop'.cursorid = loop.cursorid
        /\ loop'.before = loop.before /\ held' = held
        /\ \A x \in Ids : x # s[k] => ev'[x] = ev[x] /\ (Doomed(x)' <=> Doomed(x))
        /\ ~ Doomed(s[k]) => UNCHANGED ev
    BY IterationMoves
  <1>3. AbstractList = Rest(s)
    BY <1>1, AbstractListIsRest DEF RestIsAbstractList
  <1>4. HeldEvents' = HeldEvents
    <2>1. \A h \in held : h \in Ids /\ h # s[k]
      <3>1. s[k] \notin held
        <4>1. k \in k .. Len(s)
          BY <1>2
        <4>2. s[k] \in live \ held
          BY <1>2, <4>1, RepresentsFacts DEF Represents, LoopAt
        <4> QED BY <4>2
      <3> QED BY <3>1 DEF Represents, FieldTypes
    <2> QED BY <1>2, <2>1 DEF HeldEvents
  <1>5. CASE loop.op = "DeleteAll"
    <2>1. ChainNext(s) /\ LoopNext(s, k + 1)
      BY <1>5, IterationKeepsChain
    <2>2. AbstractList' = RestNext(s)
      BY <1>1, <2>1, NextAbstractList DEF RepresentsNext
    <2> QED BY <1>2, <1>3, <1>4, <1>5, <2>2 DEF RestNext, Rest
  <1>6. CASE loop.op # "DeleteAll" /\ ~ Doomed(s[k])
    <2>1. ChainNext(s) /\ LoopNext(s, k + 1)
      BY <1>6, IterationKeepsChain
    <2>2. AbstractList' = RestNext(s)
      BY <1>1, <2>1, NextAbstractList DEF RepresentsNext
    <2>3. RestNext(s) = Rest(s)
      BY <1>2, <1>6 DEF RestNext, Rest, Image, DoomedAt, Doomed
    <2> QED BY <1>3, <1>4, <2>2, <2>3
  <1>7. CASE loop.op # "DeleteAll" /\ Doomed(s[k])
    <2> DEFINE t == Removal(s, k)
               l == Image(s)
               u == [i \in 1 .. Len(t) |-> ev'[t[i]]]
               a(i) == IF i < k THEN i ELSE i + 1
    <2>1. ChainNext(t) /\ LoopNext(t, k)
      BY <1>7, IterationRemoves
    <2>2. /\ t \in Seq(Ids) /\ Len(t) = Len(s) - 1
          /\ \A i \in 1 .. Len(s) - 1 : t[i] = IF i < k THEN s[i] ELSE s[i + 1]
      <3>1. Distinct(s)
        BY <1>1 DEF Distinct
      <3> QED BY <1>1, <1>2, <3>1, RemovalProperties
    <2>3. /\ l \in Seq(Events) /\ Len(l) = Len(s)
          /\ \A i \in 1 .. Len(s) : l[i] = ev[s[i]]
      BY <1>7, ImageFacts
    <2>4. AbstractList' = RestNext(t)
      BY <2>1, <2>2, NextAbstractList DEF RepresentsNext
    <2>5. RestNext(t) = Without(u, DoomedAt(t)')
      BY <1>2, <1>7 DEF RestNext, Rest, Image
    <2> HIDE DEF t, l, u
    <2>6. \A i \in 1 .. Len(t) : a(i) \in 1 .. Len(s) /\ a(i) # k /\ t[i] = s[a(i)]
      BY <1>1, <1>2, <2>2
    <2> HIDE DEF a
    <2>7. ASSUME NEW i \in 1 .. Len(t)
          PROVE  /\ ev'[t[i]] = ev[s[a(i)]] /\ (Doomed(t[i])' <=> Doomed(s[a(i)]))
      <3>1. s[a(i)] \in Ids /\ s[a(i)] # s[k] /\ t[i] = s[a(i)]
        BY <1>1, <1>2, <2>6
      <3> QED BY <1>2, <3>1
    <2>8. /\ Len(u) = Len(t) /\ \A i \in 1 .. Len(t) : u[i] = l[a(i)]
          /\ u \in Seq(Events)
      <3>1. \A i \in 1 .. Len(t) : ev'[t[i]] = l[a(i)] /\ l[a(i)] \in Events
        BY <2>3, <2>6, <2>7
      <3>2. Len(t) \in Nat
        BY <2>2
      <3> QED BY <3>1, <3>2 DEF u
    <2>9. \A i \in 1 .. Len(t) : i \in DoomedAt(t)' <=> a(i) \in DoomedAt(s)
      BY <2>6, <2>7 DEF DoomedAt
    <2>10. k \in DoomedAt(s) /\ k \in 1 .. Len(l)
      BY <1>2, <1>7, <2>3 DEF DoomedAt
    <2>11. Without(u, DoomedAt(t)') = Without(l, DoomedAt(s))
      <3> DEFINE D == DoomedAt(s)
                 C == DoomedAt(t)'
      <3>1. /\ Len(u) = Len(l) - 1 /\ k \in D
            /\ \A i \in 1 .. Len(u) : u[i] = IF i < k THEN l[i] ELSE l[i + 1]
            /\ \A i \in 1 .. Len(u) : i \in C <=> (IF i < k THEN i ELSE i + 1) \in D
        BY <2>2, <2>3, <2>8, <2>9, <2>10 DEF a
      <3> HIDE DEF D, C
      <3>2. Without(u, C) = Without(l, D)
        BY <2>3, <2>8, <2>10, <3>1, WithoutRemoved
      <3> QED BY <3>2 DEF D, C
    <2> QED BY <1>3, <1>4, <1>7, <2>4, <2>5, <2>11 DEF Rest, l
  <1> QED BY <1>5, <1>6, <1>7

\* When a loop ends, what EventQueue's list is, the list has become.
LEMMA EndingStutters ==
    ASSUME NEW s, NEW k, Represents(s, k), EndLoop,
           FieldTypes', EventsOK', LoopOK'
    PROVE  UNCHANGED <<AbstractList, HeldEvents>>
  <1>1. s \in Seq(Ids) /\ Len(s) \in Nat /\ k = Len(s) + 1
    BY LoopEnds, RepresentsFacts
  <1>2. loop'.op = "none" /\ UNCHANGED <<ev, held>>
    BY DEF EndLoop, NoLoop
  <1>3. HeldEvents' = HeldEvents
    BY <1>2 DEF HeldEvents
  <1>4. AbstractList = Rest(s)
    BY <1>1, AbstractListIsRest DEF RestIsAbstractList
  <1>5. CASE loop.op = "DeleteAll"
    <2>1. ChainNext(<<>>) /\ LoopNext(<<>>, 1) /\ <<>> \in Seq(Ids) /\ <<>> \in Seq(Events)
      BY <1>5, LoopEnds
    <2>2. AbstractList' = RestNext(<<>>)
      BY <2>1, NextAbstractList DEF RepresentsNext
    <2>3. RestNext(<<>>) = <<>>
      <3>1. Len(<<>>) = 0 /\ \A i : i \notin 1 .. 0
        OBVIOUS
      <3> QED BY <1>2, <2>1, <3>1, IdleRest
    <2> QED BY <1>3, <1>4, <1>5, <2>2, <2>3 DEF Rest
  <1>6. CASE loop.op # "DeleteAll"
    <2>1. ChainNext(s) /\ LoopNext(s, k)
      BY <1>6, LoopEnds
    <2>2. AbstractList' = RestNext(s)
      BY <1>1, <2>1, NextAbstractList DEF RepresentsNext
    <2>3. /\ Image(s) \in Seq(Events) /\ Len(Image(s)) = Len(s)
          /\ \A i \in 1 .. Len(s) : Image(s)[i] = ev[s[i]]
      BY <1>6, ImageFacts
    <2>4. RestNext(s) = Image(s)
      BY <1>1, <1>2, <2>3, IdleRest
    <2>5. DoomedAt(s) = {}
      <3>1. \A i \in 1 .. Len(s) : i \in 1 .. k - 1
        BY <1>1
      <3> QED BY <1>6, <3>1 DEF DoomedAt, Represents, LoopAt
    <2> QED BY <1>3, <1>4, <1>6, <2>2, <2>3, <2>4, <2>5, WithoutNothing DEF Rest
  <1> QED BY <1>5, <1>6

\* At first there is nothing.
LEMMA InitImplementsInit == Init => eventqueue!Init
  <1> SUFFICES ASSUME Init PROVE AbstractList = <<>> /\ HeldEvents = {}
    BY DEF eventqueue!Init, HeldEvents
  <1>1. PICK s \in Seq(Ids), k \in Nat : Represents(s, k)
    BY InitRepresents DEF ListInv
  <1>2. loop.op = "none" /\ first = Null /\ held = {}
    BY DEF Init, NoLoop
  <1>3. s = <<>>
    <2>1. s # <<>> => first = s[1] /\ 1 \in 1 .. Len(s)
      BY <1>1, EmptySeq DEF Represents, IsChain, Chain
    <2> QED BY <1>1, <1>2, <2>1, RepresentsFacts
  <1>4. Len(Image(s)) = 0 /\ AbstractList = Image(s) /\ Image(s) \in Seq(Events)
    BY <1>1, <1>2, <1>3, IdleAbstractList
  <1>5. Image(s) = <<>>
    BY <1>4, EmptySeq
  <1> QED BY <1>2, <1>4, <1>5 DEF HeldEvents

\* Every step is a step of EventQueue, or a stutter.
LEMMA StepImplementsStep ==
    ASSUME ListInv, [Next]_vars
    PROVE  [eventqueue!Next]_<<AbstractList, HeldEvents>>
  <1>1. PICK s, k : Represents(s, k)
    BY DEF ListInv
  <1>2. CASE UNCHANGED vars
    BY <1>2 DEF vars, links, AbstractList, List, Contents, Length, Reached, HeldEvents
  <1>3. CASE Next
    <2>1. FieldTypes' /\ EventsOK' /\ LoopOK'
      BY <1>1, <1>3, StepKeepsTypes
    <2>2. CASE loop.op = "none" /\ OneStepOperation
      BY <1>1, <2>1, <2>2, InsertImplementsInsert, PopImplementsPop,
         DeleteImplementsDelete DEF OneStepOperation
    <2>3. CASE LoopOperation
      BY <1>1, <2>1, <2>3, StartImplementsDeletion, IterationStutters, EndingStutters
         DEF LoopOperation
    <2> QED BY <1>3, <2>2, <2>3 DEF Next
  <1> QED BY <1>2, <1>3

\* The doubly linked list with its pointers, m_first and m_last, and loops that
\* delete what they stand on, is a list ordered by click to everyone who takes
\* its lock: whatever InsertEvent, PopFirst and the three deletions do to the
\* links, they do to that list what EventQueue says.
THEOREM ListImplementsEventQueue == Spec => ImplementsEventQueue
  <1>1. Init => eventqueue!Init
    BY InitImplementsInit
  <1>2. ListInv /\ [Next]_vars =>
           [eventqueue!Next]_<<AbstractList, {ev[e] : e \in held}>>
    BY StepImplementsStep DEF HeldEvents
  <1> QED
    BY <1>1, <1>2, SpecListInv, PTL DEF Spec, ImplementsEventQueue, eventqueue!Spec
=============================================================================
