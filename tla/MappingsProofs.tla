--------------------------- MODULE MappingsProofs ---------------------------
(***************************************************************************)
(* Proofs about module Mappings, for any table, names, spellings and       *)
(* edits.  A property of every table is shown by induction over tables     *)
(* (TableInduction), with the set of tables that have it in the place of a *)
(* predicate.                                                              *)
(***************************************************************************)
EXTENDS Mappings, SequenceTheorems, WellFoundedInduction, TLAPS

-----------------------------------------------------------------------------
(* Induction.                                                              *)

\* A set of numbers has a least member.
LEMMA LeastMember ==
    ASSUME NEW T, T \subseteq Nat, T # {}
    PROVE  \E n \in T : \A m \in T : n <= m
  <1>1. PICK x \in T : \A y \in T : ~(<<y, x>> \in OpToRel(<, Nat))
    BY WFMin, NatLessThanWellFounded, Zenon
  <1>2. ASSUME NEW y \in T PROVE ~(y < x)
    <2>1. <<y, x>> \in Nat \X Nat /\ <<y, x>>[1] = y /\ <<y, x>>[2] = x
      OBVIOUS
    <2>2. OpToRel(<, Nat) = {ss \in Nat \X Nat : ss[1] < ss[2]}
      BY Zenon DEF OpToRel
    <2>3. y < x => <<y, x>> \in {ss \in Nat \X Nat : ss[1] < ss[2]}
      BY <2>1
    <2> QED
      BY <1>1, <2>2, <2>3, Zenon
  <1> QED
    BY <1>2

LEMMA NumberInduction ==
    ASSUME NEW T, 0 \in T, \A n \in Nat : n \in T => n + 1 \in T
    PROVE  Nat \subseteq T
  <1> SUFFICES ASSUME Nat \ T # {} PROVE FALSE
    OBVIOUS
  <1>1. PICK n \in Nat \ T : \A m \in Nat \ T : n <= m
    BY LeastMember
  <1>2. n # 0 /\ n - 1 \in Nat /\ (n - 1) + 1 = n
    BY <1>1
  <1> QED
    BY <1>1, <1>2

LEMMA TableInduction ==
    ASSUME NEW S, NEW T, <<>> \in T,
           \A t \in Seq(S), e \in S : t \in T => Append(t, e) \in T
    PROVE  Seq(S) \subseteq T
  <1> DEFINE N == {n \in Nat : \A t \in Seq(S) : Len(t) = n => t \in T}
  <1>1. 0 \in N
    BY EmptySeq
  <1>2. ASSUME NEW n \in Nat, n \in N PROVE n + 1 \in N
    <2> SUFFICES ASSUME NEW t \in Seq(S), Len(t) = n + 1 PROVE t \in T
      OBVIOUS
    <2>1. t # <<>>
      BY EmptySeq
    <2>2. PICK u \in Seq(S), e \in S : t = Append(u, e)
      BY <2>1, SequenceEmptyOrAppend
    <2>3. Len(u) = n
      BY <2>2, AppendProperties, LenProperties
    <2> QED
      BY <1>2, <2>2, <2>3
  <1> HIDE DEF N
  <1>3. Nat \subseteq N
    BY <1>1, <1>2, NumberInduction
  <1> QED
    BY <1>3, LenProperties DEF N

-----------------------------------------------------------------------------
(* Filter().                                                               *)

\* f is the function by which Filter() is defined.
Fits(f, table, keep) ==
    f = [n \in 0 .. Len(table) |->
            IF n = 0 THEN <<>>
            ELSE IF table[n] \in keep THEN Append(f[n - 1], table[n]) ELSE f[n - 1]]

LEMMA FilterIsLast ==
    ASSUME NEW table, NEW keep
    PROVE  Filter(table, keep) = (CHOOSE f : Fits(f, table, keep))[Len(table)]
  BY Zenon DEF Filter, Fits

LEMMA FitsFacts ==
    ASSUME NEW S, NEW table \in Seq(S), NEW keep, NEW f, Fits(f, table, keep)
    PROVE  /\ f[0] = <<>>
           /\ \A n \in 1 .. Len(table) :
                 f[n] = IF table[n] \in keep THEN Append(f[n - 1], table[n]) ELSE f[n - 1]
  <1>1. Len(table) \in Nat
    BY LenProperties
  <1>2. \A n \in 0 .. Len(table) :
           f[n] = IF n = 0 THEN <<>>
                  ELSE IF table[n] \in keep THEN Append(f[n - 1], table[n]) ELSE f[n - 1]
    BY Zenon DEF Fits
  <1>3. f[0] = <<>>
    <2>1. 0 \in 0 .. Len(table)
      BY <1>1
    <2> QED
      BY <1>2, <2>1
  <1>4. \A n \in 1 .. Len(table) : n \in 0 .. Len(table) /\ n # 0
    BY <1>1
  <1> QED
    BY <1>2, <1>3, <1>4

\* There is at most one such function,
LEMMA FitsOnce ==
    ASSUME NEW S, NEW table \in Seq(S), NEW keep,
           NEW f, NEW g, Fits(f, table, keep), Fits(g, table, keep)
    PROVE  f = g
  <1> DEFINE N == {n \in Nat : n <= Len(table) => f[n] = g[n]}
  <1>1. 0 \in N
    BY FitsFacts, LenProperties
  <1>2. ASSUME NEW n \in Nat, n \in N PROVE n + 1 \in N
    <2> SUFFICES ASSUME n + 1 <= Len(table) PROVE f[n + 1] = g[n + 1]
      OBVIOUS
    <2>1. Len(table) \in Nat
      BY LenProperties
    <2>2. n + 1 \in 1 .. Len(table) /\ (n + 1) - 1 = n /\ f[n] = g[n]
      BY <1>2, <2>1
    <2> QED
      BY <2>2, FitsFacts
  <1> HIDE DEF N
  <1>3. Nat \subseteq N
    BY <1>1, <1>2, NumberInduction
  <1>4. \A n \in 0 .. Len(table) : f[n] = g[n]
    BY <1>3, LenProperties DEF N
  <1>5. /\ f = [n \in 0 .. Len(table) |-> f[n]]
        /\ g = [n \in 0 .. Len(table) |-> g[n]]
    BY DEF Fits
  <1> QED
    BY <1>4, <1>5

\* and it grows with the table.
LEMMA FitsAppend ==
    ASSUME NEW S, NEW table \in Seq(S), NEW e \in S, NEW keep, NEW f, Fits(f, table, keep)
    PROVE  \E g : /\ Fits(g, Append(table, e), keep)
                  /\ g[Len(table) + 1] = IF e \in keep THEN Append(f[Len(table)], e) ELSE f[Len(table)]
  <1> DEFINE L == Len(table)
             u == Append(table, e)
             last == IF e \in keep THEN Append(f[L], e) ELSE f[L]
             g == [n \in 0 .. L + 1 |-> IF n = L + 1 THEN last ELSE f[n]]
  <1>1. /\ L \in Nat /\ Len(u) = L + 1 /\ u[L + 1] = e
        /\ \A n \in 1 .. L : u[n] = table[n]
    BY AppendProperties, LenProperties
  <1>2. g[0] = <<>> /\ g[L] = f[L] /\ g[L + 1] = last
    BY <1>1, FitsFacts
  <1>3. \A n \in 1 .. L : g[n] = f[n] /\ g[n - 1] = f[n - 1]
    BY <1>1
  <1> HIDE DEF L, u, last
  <1>4. ASSUME NEW n \in 0 .. L + 1
        PROVE  g[n] = IF n = 0 THEN <<>>
                      ELSE IF u[n] \in keep THEN Append(g[n - 1], u[n]) ELSE g[n - 1]
    <2>1. CASE n = 0
      BY <1>2, <2>1
    <2>2. CASE n = L + 1
      <3>1. n # 0 /\ n - 1 = L /\ u[n] = e /\ g[n] = last /\ g[n - 1] = f[L]
        BY <1>1, <1>2, <2>2
      <3> QED
        BY <3>1 DEF last
    <2>3. CASE n \in 1 .. L
      <3>1. n # 0 /\ u[n] = table[n] /\ g[n] = f[n] /\ g[n - 1] = f[n - 1]
        BY <1>1, <1>3, <2>3
      <3>2. f[n] = IF table[n] \in keep THEN Append(f[n - 1], table[n]) ELSE f[n - 1]
        BY <2>3, FitsFacts DEF L
      <3> QED
        BY <3>1, <3>2
    <2> QED
      BY <1>1, <2>1, <2>2, <2>3
  <1>5. g = [n \in 0 .. L + 1 |-> g[n]]
    OBVIOUS
  <1> HIDE DEF g
  <1>6. Fits(g, u, keep)
    BY <1>1, <1>4, <1>5 DEF Fits
  <1> QED
    BY <1>2, <1>6 DEF u, L, last

LEMMA FitsExists ==
    ASSUME NEW S, NEW table \in Seq(S), NEW keep
    PROVE  \E f : Fits(f, table, keep)
  <1> DEFINE T == {t \in Seq(S) : \E f : Fits(f, t, keep)}
  <1>1. <<>> \in T
    <2>1. <<>> \in Seq(S) /\ Len(<<>>) = 0
      BY EmptySeq
    <2> DEFINE f == [n \in 0 .. 0 |-> <<>>]
    <2>2. Fits(f, <<>>, keep)
      BY <2>1 DEF Fits
    <2> QED
      BY <2>1, <2>2
  <1>2. ASSUME NEW t \in Seq(S), NEW e \in S, t \in T PROVE Append(t, e) \in T
    BY <1>2, FitsAppend, AppendProperties
  <1> HIDE DEF T
  <1>3. Seq(S) \subseteq T
    BY <1>1, <1>2, TableInduction
  <1> QED
    BY <1>3 DEF T

LEMMA FilterOfFits ==
    ASSUME NEW S, NEW table \in Seq(S), NEW keep, NEW f, Fits(f, table, keep)
    PROVE  Filter(table, keep) = f[Len(table)]
  <1>1. Fits(CHOOSE g : Fits(g, table, keep), table, keep)
    OBVIOUS
  <1>2. f = CHOOSE g : Fits(g, table, keep)
    BY <1>1, FitsOnce
  <1> QED
    BY <1>2, FilterIsLast

\* What Filter() computes.
LEMMA FilterEmpty ==
    ASSUME NEW keep
    PROVE  Filter(<<>>, keep) = <<>>
  <1>1. PICK t \in Seq(Nat) : t = <<>> /\ Len(t) = 0
    BY EmptySeq
  <1>2. PICK f : Fits(f, t, keep)
    BY FitsExists
  <1>3. Filter(t, keep) = f[Len(t)]
    BY <1>2, FilterOfFits
  <1>4. f[0] = <<>>
    BY <1>2, FitsFacts
  <1> QED
    BY <1>1, <1>3, <1>4

LEMMA FilterAppend ==
    ASSUME NEW S, NEW table \in Seq(S), NEW e \in S, NEW keep
    PROVE  /\ e \in keep => Filter(Append(table, e), keep) = Append(Filter(table, keep), e)
           /\ e \notin keep => Filter(Append(table, e), keep) = Filter(table, keep)
  <1>1. PICK f : Fits(f, table, keep)
    BY FitsExists
  <1>2. PICK g : /\ Fits(g, Append(table, e), keep)
                 /\ g[Len(table) + 1] = IF e \in keep THEN Append(f[Len(table)], e) ELSE f[Len(table)]
    BY <1>1, FitsAppend
  <1>3. Append(table, e) \in Seq(S) /\ Len(Append(table, e)) = Len(table) + 1
    BY AppendProperties
  <1>4. Filter(table, keep) = f[Len(table)]
    BY <1>1, FilterOfFits
  <1>5. Filter(Append(table, e), keep) = g[Len(table) + 1]
    BY <1>2, <1>3, FilterOfFits
  <1> QED
    BY <1>2, <1>4, <1>5

LEMMA FilterType ==
    ASSUME NEW S, NEW table \in Seq(S), NEW keep
    PROVE  Filter(table, keep) \in Seq(S)
  <1> DEFINE T == {t \in Seq(S) : Filter(t, keep) \in Seq(S)}
  <1>1. <<>> \in T
    BY EmptySeq, FilterEmpty
  <1>2. ASSUME NEW t \in Seq(S), NEW e \in S, t \in T PROVE Append(t, e) \in T
    <2>1. Append(t, e) \in Seq(S) /\ Append(Filter(t, keep), e) \in Seq(S)
      BY <1>2, AppendProperties
    <2> QED
      BY <1>2, <2>1, FilterAppend
  <1> HIDE DEF T
  <1>3. Seq(S) \subseteq T
    BY <1>1, <1>2, TableInduction
  <1> QED
    BY <1>3 DEF T

LEMMA AppendFacts ==
    ASSUME NEW S, NEW t \in Seq(S), NEW e \in S
    PROVE  /\ Append(t, e) \in Seq(S) /\ Append(t, e) # <<>>
           /\ Len(t) \in Nat /\ DOMAIN t = 1 .. Len(t)
           /\ DOMAIN Append(t, e) = 1 .. Len(t) + 1
           /\ Len(Append(t, e)) = Len(t) + 1
           /\ \A i \in DOMAIN t : Append(t, e)[i] = t[i]
           /\ Append(t, e)[Len(t) + 1] = e
  BY AppendProperties, LenProperties

\* The positions of a table at which a row is kept.
At(table, keep) == {i \in DOMAIN table : table[i] \in keep}

LEMMA AtAppend ==
    ASSUME NEW S, NEW t \in Seq(S), NEW e \in S, NEW keep
    PROVE  /\ e \in keep => At(Append(t, e), keep) = At(t, keep) \cup {Len(t) + 1}
           /\ e \notin keep => At(Append(t, e), keep) = At(t, keep)
  BY AppendFacts DEF At

LEMMA AtPositions ==
    ASSUME NEW S, NEW t \in Seq(S), NEW keep
    PROVE  /\ At(t, keep) \subseteq 1 .. Len(t) /\ Len(t) \in Nat
           /\ \A i \in At(t, keep) : i < Len(t) + 1
  BY LenProperties DEF At

LEMMA RowSetAppend ==
    ASSUME NEW S, NEW t \in Seq(S), NEW e \in S
    PROVE  RowSet(Append(t, e)) = RowSet(t) \cup {e}
  <1>1. \A i \in DOMAIN t : i \in DOMAIN Append(t, e)
    BY AppendFacts
  <1>2. \A i \in DOMAIN Append(t, e) : i \in DOMAIN t \/ i = Len(t) + 1
    BY AppendFacts
  <1>3. Len(t) + 1 \in DOMAIN Append(t, e)
    BY AppendFacts
  <1> QED
    BY <1>1, <1>2, <1>3, AppendFacts DEF RowSet

\* The rows that are kept are those that are to be kept.
LEMMA FilterMembers ==
    ASSUME NEW S, NEW table \in Seq(S), NEW keep
    PROVE  /\ \A r \in RowSet(Filter(table, keep)) : r \in RowSet(table) /\ r \in keep
           /\ \A r \in RowSet(table) : r \in keep => r \in RowSet(Filter(table, keep))
  <1> DEFINE T == {t \in Seq(S) : RowSet(Filter(t, keep)) = RowSet(t) \cap keep}
  <1>1. <<>> \in T
    <2>1. RowSet(<<>>) = {}
      BY DEF RowSet
    <2> QED
      BY <2>1, EmptySeq, FilterEmpty
  <1>2. ASSUME NEW t \in Seq(S), NEW e \in S, t \in T PROVE Append(t, e) \in T
    <2>1. Append(t, e) \in Seq(S) /\ Filter(t, keep) \in Seq(S)
      BY AppendFacts, FilterType
    <2>2. CASE e \in keep
      <3>1. Filter(Append(t, e), keep) = Append(Filter(t, keep), e)
        BY <2>2, FilterAppend
      <3>2. RowSet(Append(Filter(t, keep), e)) = RowSet(Filter(t, keep)) \cup {e}
        BY <2>1, RowSetAppend
      <3>3. RowSet(Filter(t, keep)) = RowSet(t) \cap keep /\ RowSet(Append(t, e)) = RowSet(t) \cup {e}
        BY <1>2, RowSetAppend
      <3>4. RowSet(Filter(Append(t, e), keep)) = RowSet(Append(t, e)) \cap keep
        BY <2>2, <3>1, <3>2, <3>3, Zenon
      <3> QED
        BY <2>1, <3>4
    <2>3. CASE e \notin keep
      <3>1. Filter(Append(t, e), keep) = Filter(t, keep)
        BY <2>3, FilterAppend
      <3> QED
        BY <1>2, <2>1, <2>3, <3>1, RowSetAppend
    <2> QED
      BY <2>2, <2>3
  <1> HIDE DEF T
  <1>3. Seq(S) \subseteq T
    BY <1>1, <1>2, TableInduction
  <1> QED
    BY <1>3 DEF T

\* Two comprehensions in a row are one.
LEMMA FilterTwice ==
    ASSUME NEW S, NEW table \in Seq(S), NEW keep, NEW keep2
    PROVE  Filter(Filter(table, keep), keep2) = Filter(table, keep \cap keep2)
  <1> DEFINE T == {t \in Seq(S) : Filter(Filter(t, keep), keep2) = Filter(t, keep \cap keep2)}
  <1>1. <<>> \in T
    BY EmptySeq, FilterEmpty
  <1>2. ASSUME NEW t \in Seq(S), NEW e \in S, t \in T PROVE Append(t, e) \in T
    <2>1. Append(t, e) \in Seq(S) /\ Filter(t, keep) \in Seq(S)
      BY AppendFacts, FilterType
    <2>2. /\ e \in keep \cap keep2 =>
                Filter(Append(t, e), keep \cap keep2) = Append(Filter(t, keep \cap keep2), e)
          /\ e \notin keep \cap keep2 =>
                Filter(Append(t, e), keep \cap keep2) = Filter(t, keep \cap keep2)
      BY FilterAppend
    <2>3. CASE e \in keep
      <3>1. Filter(Append(t, e), keep) = Append(Filter(t, keep), e)
        BY <2>3, FilterAppend
      <3>2. /\ e \in keep2 =>
                  Filter(Append(Filter(t, keep), e), keep2) = Append(Filter(Filter(t, keep), keep2), e)
            /\ e \notin keep2 =>
                  Filter(Append(Filter(t, keep), e), keep2) = Filter(Filter(t, keep), keep2)
        BY <2>1, FilterAppend
      <3>3. Filter(Filter(t, keep), keep2) = Filter(t, keep \cap keep2)
        BY <1>2
      <3>4. Filter(Filter(Append(t, e), keep), keep2) = Filter(Append(t, e), keep \cap keep2)
        BY <2>2, <2>3, <3>1, <3>2, <3>3
      <3> QED
        BY <2>1, <3>4
    <2>4. CASE e \notin keep
      <3>1. Filter(Append(t, e), keep) = Filter(t, keep)
        BY <2>4, FilterAppend
      <3> QED
        BY <1>2, <2>1, <2>2, <2>4, <3>1
    <2> QED
      BY <2>3, <2>4
  <1> HIDE DEF T
  <1>3. Seq(S) \subseteq T
    BY <1>1, <1>2, TableInduction
  <1> QED
    BY <1>3 DEF T

\* The first row that is kept is the oldest that is to be kept,
LEMMA FilterHead ==
    ASSUME NEW S, NEW table \in Seq(S), NEW keep
    PROVE  /\ Filter(table, keep) = <<>> <=> At(table, keep) = {}
           /\ Filter(table, keep) # <<>> =>
                 \E i \in At(table, keep) :
                    Head(Filter(table, keep)) = table[i] /\ \A j \in At(table, keep) : i <= j
  <1> DEFINE Good(t) ==
        /\ Filter(t, keep) = <<>> <=> At(t, keep) = {}
        /\ Filter(t, keep) # <<>> =>
              \E i \in At(t, keep) :
                 Head(Filter(t, keep)) = t[i] /\ \A j \in At(t, keep) : i <= j
      T == {t \in Seq(S) : Good(t)}
  <1>1. <<>> \in T
    BY EmptySeq, FilterEmpty DEF At
  <1>2. ASSUME NEW t \in Seq(S), NEW e \in S, t \in T PROVE Append(t, e) \in T
    <2> DEFINE u == Append(t, e)
    <2>1. u \in Seq(S) /\ Filter(t, keep) \in Seq(S) /\ Good(t)
      BY <1>2, AppendFacts, FilterType
    <2>2. \A i \in At(t, keep) : i \in DOMAIN t /\ u[i] = t[i] /\ i <= Len(t) + 1 /\ i \in Nat
      BY AppendFacts, AtPositions DEF At
    <2>3. CASE e \notin keep
      <3>1. Filter(u, keep) = Filter(t, keep) /\ At(u, keep) = At(t, keep)
        BY <2>3, FilterAppend, AtAppend
      <3>2. Good(u)
        BY <2>1, <2>2, <3>1
      <3> QED
        BY <2>1, <3>2
    <2>4. CASE e \in keep /\ Filter(t, keep) = <<>>
      <3>1. Filter(u, keep) = Append(<<>>, e) /\ At(u, keep) = {Len(t) + 1}
        <4>1. Filter(u, keep) = Append(Filter(t, keep), e)
          BY <2>4, FilterAppend
        <4>2. At(u, keep) = At(t, keep) \cup {Len(t) + 1}
          BY <2>4, AtAppend
        <4>3. At(t, keep) = {}
          BY <2>1, <2>4
        <4> QED
          BY <2>4, <4>1, <4>2, <4>3, Zenon
      <3>2. Head(Append(<<>>, e)) = e /\ Append(<<>>, e) # <<>>
        <4>1. PICK z \in Seq(S) : z = <<>>
          BY EmptySeq
        <4> QED
          BY <4>1, HeadTailAppend, AppendProperties
      <3>3. u[Len(t) + 1] = e /\ Len(t) + 1 \in Nat
        BY AppendFacts
      <3>4. Good(u)
        BY <3>1, <3>2, <3>3
      <3> QED
        BY <2>1, <3>4
    <2>5. CASE e \in keep /\ Filter(t, keep) # <<>>
      <3>0. Filter(u, keep) = Append(Filter(t, keep), e)
        BY <2>5, FilterAppend
      <3>1. Filter(u, keep) = Append(Filter(t, keep), e) /\ At(u, keep) = At(t, keep) \cup {Len(t) + 1}
        BY <2>5, <3>0, AtAppend
      <3>2. Head(Filter(u, keep)) = Head(Filter(t, keep)) /\ Filter(u, keep) # <<>>
        BY <2>1, <2>5, <3>1, HeadTailAppend, AppendProperties
      <3>3. PICK i \in At(t, keep) :
               Head(Filter(t, keep)) = t[i] /\ \A j \in At(t, keep) : i <= j
        BY <2>1, <2>5
      <3>4. i \in At(u, keep) /\ Head(Filter(u, keep)) = u[i] /\ \A j \in At(u, keep) : i <= j
        BY <2>2, <3>1, <3>2, <3>3
      <3>5. Good(u)
        BY <3>2, <3>4
      <3> QED
        BY <2>1, <3>5
    <2> QED
      BY <2>3, <2>4, <2>5
  <1> HIDE DEF T
  <1>3. Seq(S) \subseteq T
    BY <1>1, <1>2, TableInduction
  <1> QED
    BY <1>3 DEF T

\* and there is one if there is one to be kept.
LEMMA FilterOne ==
    ASSUME NEW S, NEW table \in Seq(S), NEW keep
    PROVE  Len(Filter(table, keep)) = 1 <=> \E i \in DOMAIN table : At(table, keep) = {i}
  <1> DEFINE T == {t \in Seq(S) : Len(Filter(t, keep)) = 1 <=> \E i \in DOMAIN t : At(t, keep) = {i}}
  <1>1. <<>> \in T
    BY EmptySeq, FilterEmpty
  <1>2. ASSUME NEW t \in Seq(S), NEW e \in S, t \in T PROVE Append(t, e) \in T
    <2> DEFINE u == Append(t, e)
    <2>1. u \in Seq(S) /\ Filter(t, keep) \in Seq(S) /\ Len(Filter(t, keep)) \in Nat
      BY AppendFacts, FilterType, LenProperties
    <2>2. DOMAIN u = DOMAIN t \cup {Len(t) + 1} /\ Len(t) + 1 \notin DOMAIN t
      BY AppendFacts
    <2>3. \A i \in At(t, keep) : i \in DOMAIN t
      BY DEF At
    <2>4. CASE e \notin keep
      <3>0. Filter(u, keep) = Filter(t, keep)
        BY <2>4, FilterAppend
      <3>1. Filter(u, keep) = Filter(t, keep) /\ At(u, keep) = At(t, keep)
        BY <2>4, <3>0, AtAppend
      <3> QED
        BY <1>2, <2>1, <2>2, <2>3, <3>1
    <2>5. CASE e \in keep
      <3>0. Filter(u, keep) = Append(Filter(t, keep), e)
        BY <2>5, FilterAppend
      <3>1. Filter(u, keep) = Append(Filter(t, keep), e) /\ At(u, keep) = At(t, keep) \cup {Len(t) + 1}
        BY <2>5, <3>0, AtAppend
      <3>2. Len(Filter(u, keep)) = Len(Filter(t, keep)) + 1
        BY <2>1, <3>1, AppendProperties
      <3>3. Len(Filter(u, keep)) = 1 <=> Filter(t, keep) = <<>>
        BY <2>1, <3>2, EmptySeq
      <3>4. Len(Filter(u, keep)) = 1 <=> At(t, keep) = {}
        BY <3>3, FilterHead
      <3>5. At(t, keep) = {} <=> \E i \in DOMAIN u : At(u, keep) = {i}
        BY <2>2, <2>3, <3>1
      <3> QED
        BY <2>1, <3>4, <3>5
    <2> QED
      BY <2>4, <2>5
  <1> HIDE DEF T
  <1>3. Seq(S) \subseteq T
    BY <1>1, <1>2, TableInduction
  <1> QED
    BY <1>3 DEF T

-----------------------------------------------------------------------------
(* TypeOK.                                                                 *)

OneRowEach(table) == \A i, j \in DOMAIN table : KeyOf(table[i]) = KeyOf(table[j]) => i = j

LEMMA OneRowEachAppend ==
    ASSUME NEW S, NEW t \in Seq(S), NEW e \in S
    PROVE  OneRowEach(Append(t, e)) <=> OneRowEach(t) /\ \A r \in RowSet(t) : KeyOf(r) # KeyOf(e)
  <1> DEFINE u == Append(t, e)
             l == Len(t) + 1
  <1>1. /\ l \in DOMAIN u /\ l \notin DOMAIN t /\ u[l] = e
        /\ \A i \in DOMAIN t : i \in DOMAIN u /\ u[i] = t[i]
        /\ \A i \in DOMAIN u : i \in DOMAIN t \/ i = l
    BY AppendFacts
  <1> HIDE DEF u, l
  <1>2. ASSUME OneRowEach(u)
        PROVE  OneRowEach(t) /\ \A r \in RowSet(t) : KeyOf(r) # KeyOf(e)
    <2>1. OneRowEach(t)
      BY <1>1, <1>2 DEF OneRowEach
    <2>2. ASSUME NEW i \in DOMAIN t PROVE KeyOf(t[i]) # KeyOf(e)
      BY <1>1, <1>2 DEF OneRowEach
    <2> QED
      BY <2>1, <2>2 DEF RowSet
  <1>3. ASSUME OneRowEach(t), \A r \in RowSet(t) : KeyOf(r) # KeyOf(e)
        PROVE  OneRowEach(u)
    <2>1. \A i \in DOMAIN t : KeyOf(t[i]) # KeyOf(e)
      BY <1>3 DEF RowSet
    <2> QED
      BY <1>1, <1>3, <2>1 DEF OneRowEach
  <1> QED
    BY <1>2, <1>3 DEF u

\* Dropping rows makes no two alike.
LEMMA FilterOneRowEach ==
    ASSUME NEW S, NEW table \in Seq(S), NEW keep, OneRowEach(table)
    PROVE  OneRowEach(Filter(table, keep))
  <1> DEFINE T == {t \in Seq(S) : OneRowEach(t) => OneRowEach(Filter(t, keep))}
  <1>1. <<>> \in T
    BY EmptySeq, FilterEmpty
  <1>2. ASSUME NEW t \in Seq(S), NEW e \in S, t \in T PROVE Append(t, e) \in T
    <2>1. Append(t, e) \in Seq(S) /\ Filter(t, keep) \in Seq(S)
      BY AppendFacts, FilterType
    <2> SUFFICES ASSUME OneRowEach(Append(t, e)) PROVE OneRowEach(Filter(Append(t, e), keep))
      BY <2>1
    <2>2. OneRowEach(Filter(t, keep)) /\ \A r \in RowSet(t) : KeyOf(r) # KeyOf(e)
      BY <1>2, OneRowEachAppend
    <2>3. \A r \in RowSet(Filter(t, keep)) : KeyOf(r) # KeyOf(e)
      BY <2>2, FilterMembers
    <2>4. OneRowEach(Append(Filter(t, keep), e))
      BY <2>1, <2>2, <2>3, OneRowEachAppend
    <2> QED
      BY <2>2, <2>4, FilterAppend
  <1> HIDE DEF T
  <1>3. Seq(S) \subseteq T
    BY <1>1, <1>2, TableInduction
  <1> QED
    BY <1>3 DEF T

RowOf(key, to) == [sat |-> key[1], word |-> key[2], to |-> to]
NotKey(key) == {m \in Rows : KeyOf(m) # key}

LEMMA RowFacts ==
    ASSUME NEW key \in Keys, NEW to \in Targets
    PROVE  /\ RowOf(key, to) \in Rows /\ KeyOf(RowOf(key, to)) = key
           /\ RowOf(key, to).sat = key[1] /\ RowOf(key, to).word = key[2] /\ RowOf(key, to).to = to
           /\ key[1] \in Satellites /\ key[2] \in Words /\ key = <<key[1], key[2]>>
  BY DEF Keys, Rows, RowOf, KeyOf

\* Each way to save leaves some of the old rows, none of them of the key, and
\* puts the new row last.
LEMMA UpsertIs ==
    ASSUME NEW table, NEW key, NEW to
    PROVE  upsert(table, key, to) = Append(Filter(table, NotKey(key)), RowOf(key, to))
  BY DEF upsert, delete, NotKey, RowOf

Left(key, orig) == IF Moved(key, orig) THEN NotKey(key) \cap NotKey(orig) ELSE NotKey(key)

LEMMA SaveFormIs ==
    ASSUME NEW table \in Seq(Rows), NEW key \in Keys, NEW to \in Targets, NEW orig
    PROVE  SaveForm(table, key, to, orig) = Append(Filter(table, Left(key, orig)), RowOf(key, to))
  <1>1. CASE ~Moved(key, orig)
    BY <1>1, UpsertIs DEF SaveForm, Left
  <1>2. CASE Moved(key, orig)
    <2>1. orig # key
      BY <1>2 DEF Moved
    <2>2. RowOf(key, to) \in Rows /\ RowOf(key, to) \in NotKey(orig)
      BY <2>1, RowFacts DEF NotKey
    <2>3. Filter(table, NotKey(key)) \in Seq(Rows)
      BY FilterType
    <2>4. Filter(Append(Filter(table, NotKey(key)), RowOf(key, to)), NotKey(orig)) =
             Append(Filter(Filter(table, NotKey(key)), NotKey(orig)), RowOf(key, to))
      BY <2>2, <2>3, FilterAppend
    <2>5. Filter(Filter(table, NotKey(key)), NotKey(orig)) = Filter(table, NotKey(key) \cap NotKey(orig))
      BY FilterTwice
    <2>6. SaveForm(table, key, to, orig) = Filter(upsert(table, key, to), NotKey(orig))
      BY <1>2 DEF SaveForm, delete, NotKey
    <2>7. Left(key, orig) = NotKey(key) \cap NotKey(orig)
      BY <1>2 DEF Left
    <2> QED
      BY <2>4, <2>5, <2>6, <2>7, UpsertIs
  <1> QED
    BY <1>1, <1>2

LEMMA SavedTable ==
    ASSUME NEW table \in Seq(Rows), OneRowEach(table), NEW key \in Keys, NEW to \in Targets,
           NEW keep, keep \subseteq NotKey(key)
    PROVE  /\ Append(Filter(table, keep), RowOf(key, to)) \in Seq(Rows)
           /\ OneRowEach(Append(Filter(table, keep), RowOf(key, to)))
  <1>1. Filter(table, keep) \in Seq(Rows) /\ OneRowEach(Filter(table, keep))
    BY FilterType, FilterOneRowEach
  <1>2. RowOf(key, to) \in Rows /\ KeyOf(RowOf(key, to)) = key
    BY RowFacts
  <1>3. \A r \in RowSet(Filter(table, keep)) : KeyOf(r) # key
    <2>1. \A r \in RowSet(Filter(table, keep)) : r \in keep
      BY FilterMembers
    <2> QED
      BY <2>1 DEF NotKey
  <1> QED
    BY <1>1, <1>2, <1>3, AppendProperties, OneRowEachAppend

\* A list without duplicates stays so when it is appended a newcomer or loses
\* its first element.
LEMMA InjectiveAppend ==
    ASSUME NEW S, NEW seen \in Seq(S), NEW s \in S, IsInjective(seen), ~Contains(seen, s)
    PROVE  IsInjective(Append(seen, s))
  <1> DEFINE u == Append(seen, s)
             l == Len(seen) + 1
  <1>1. /\ l \in DOMAIN u /\ u[l] = s
        /\ \A i \in DOMAIN seen : u[i] = seen[i]
        /\ \A i \in DOMAIN u : i \in DOMAIN seen \/ i = l
    BY AppendFacts
  <1>2. \A i \in DOMAIN seen : seen[i] # s
    BY LenProperties DEF Contains
  <1> HIDE DEF u, l
  <1>3. IsInjective(u)
    BY <1>1, <1>2 DEF IsInjective
  <1> QED
    BY <1>3 DEF u

LEMMA InjectiveTail ==
    ASSUME NEW S, NEW seen \in Seq(S), seen # <<>>, IsInjective(seen)
    PROVE  IsInjective(Tail(seen))
  <1> DEFINE t == Tail(seen)
  <1>1. /\ t \in Seq(S) /\ Len(t) = Len(seen) - 1
        /\ \A i \in 1 .. Len(t) : t[i] = seen[i + 1]
    BY HeadTailProperties
  <1>2. /\ Len(t) \in Nat /\ Len(seen) \in Nat /\ DOMAIN t = 1 .. Len(t)
        /\ DOMAIN seen = 1 .. Len(seen)
    BY <1>1, LenProperties
  <1> HIDE DEF t
  <1>3. \A i \in DOMAIN t : i \in Nat /\ i + 1 \in DOMAIN seen /\ t[i] = seen[i + 1]
    BY <1>1, <1>2
  <1>4. \A i, j \in DOMAIN t : t[i] = t[j] => i + 1 = j + 1
    BY <1>3 DEF IsInjective
  <1>5. \A i, j \in DOMAIN t : t[i] = t[j] => i = j
    BY <1>3, <1>4
  <1> QED
    BY <1>5 DEF IsInjective, t

TableOK == mappings \in Seq(Rows) /\ OneRowEach(mappings)
SeenOK ==
    /\ unmapped_seen \in Seq(Satellites)
    /\ Len(unmapped_seen) <= Cap
    /\ IsInjective(unmapped_seen)

LEMMA NoteKeepsSeenOK ==
    ASSUME SeenOK, NEW s \in Satellites, note_unmapped(s)
    PROVE  SeenOK'
  <1>1. CASE Contains(unmapped_seen, s)
    BY <1>1 DEF note_unmapped, SeenOK
  <1>2. CASE ~Contains(unmapped_seen, s)
    <2> DEFINE u == Append(unmapped_seen, s)
    <2>1. /\ u \in Seq(Satellites) /\ u # <<>> /\ Len(u) = Len(unmapped_seen) + 1
          /\ Len(unmapped_seen) \in Nat
      BY AppendFacts DEF SeenOK
    <2>2. IsInjective(u)
      BY <1>2, InjectiveAppend DEF SeenOK
    <2>3. unmapped_seen' = Trimmed(u)
      BY <1>2 DEF note_unmapped
    <2> HIDE DEF u
    <2>4. CASE Len(u) > Cap
      <3>1. unmapped_seen' = Tail(u)
        BY <2>3, <2>4 DEF Trimmed
      <3>2. Tail(u) \in Seq(Satellites) /\ Len(Tail(u)) = Len(u) - 1
        BY <2>1, HeadTailProperties
      <3>3. IsInjective(Tail(u))
        BY <2>1, <2>2, InjectiveTail
      <3> QED
        BY <2>1, <3>1, <3>2, <3>3, CapAssumption DEF SeenOK
    <2>5. CASE ~(Len(u) > Cap)
      <3>1. unmapped_seen' = u
        BY <2>3, <2>5 DEF Trimmed
      <3> QED
        BY <2>1, <2>2, <2>5, <3>1, CapAssumption DEF SeenOK
    <2> QED
      BY <2>4, <2>5
  <1> QED
    BY <1>1, <1>2

\* The table never holds two rows of one satellite and wake word, however many
\* editors with however old forms save into it (mapping.py:64-81 and
\* main.py:923-937); and the list of satellites that asked in vain never lists
\* one twice and never outgrows its cap (main.py:457-463).
THEOREM TypeCorrect == Spec => []TypeOK
  <1>1. Init => TypeOK
    BY EmptySeq, CapAssumption DEF Init, TypeOK, IsInjective
  <1>2. TypeOK /\ [Next]_vars => TypeOK'
    <2> SUFFICES ASSUME TypeOK, [Next]_vars PROVE TableOK' /\ SeenOK'
      BY DEF TypeOK, TableOK, SeenOK, OneRowEach
    <2>0. TableOK /\ SeenOK
      BY DEF TypeOK, TableOK, SeenOK, OneRowEach
    <2>1. ASSUME NEW key \in Keys, NEW to \in Targets, ApiUpsert(key, to)
          PROVE  TableOK' /\ SeenOK'
      <3>1. mappings' = Append(Filter(mappings, NotKey(key)), RowOf(key, to))
        BY <2>1, UpsertIs DEF ApiUpsert
      <3>2. TableOK'
        BY <2>0, <3>1, SavedTable DEF TableOK
      <3> QED
        BY <2>0, <2>1, <3>2 DEF ApiUpsert, SeenOK
    <2>2. ASSUME NEW key \in Keys, NEW to \in Targets, NEW orig, UiAdd(key, to, orig)
          PROVE  TableOK' /\ SeenOK'
      <3>1. mappings' = Append(Filter(mappings, Left(key, orig)), RowOf(key, to))
        BY <2>0, <2>2, SaveFormIs DEF UiAdd, TableOK
      <3>2. Left(key, orig) \subseteq NotKey(key)
        BY DEF Left
      <3>3. TableOK'
        BY <2>0, <3>1, <3>2, SavedTable DEF TableOK
      <3> QED
        BY <2>0, <2>2, <3>3 DEF UiAdd, SeenOK
    <2>3. ASSUME NEW key \in Keys, ApiDelete(key)
          PROVE  TableOK' /\ SeenOK'
      BY <2>0, <2>3, FilterType, FilterOneRowEach DEF ApiDelete, delete, TableOK, SeenOK
    <2>4. ASSUME NEW s \in Satellites, NEW w, Refused(s, w)
          PROVE  TableOK' /\ SeenOK'
      BY <2>0, <2>4, NoteKeepsSeenOK DEF Refused, TableOK
    <2>5. CASE UNCHANGED vars
      BY <2>0, <2>5 DEF vars, TableOK, SeenOK
    <2> QED
      BY <2>1, <2>2, <2>3, <2>4, <2>5 DEF Next
  <1> QED
    BY <1>1, <1>2, PTL DEF Spec

-----------------------------------------------------------------------------
(* Saving.                                                                 *)

OwnRows(s) == {m \in Rows : m.sat = s}
WordRows(w) == {m \in Rows : <<m.word, w>> \in Alike}
StarRows == {m \in Rows : m.word = Star}

LEMMA AtOfBoth ==
    ASSUME NEW table, NEW keep, NEW keep2
    PROVE  At(table, keep \cap keep2) = At(table, keep) \cap At(table, keep2)
  BY DEF At

\* resolve(), case by case.
LEMMA ResolveCases ==
    ASSUME NEW table, NEW s, NEW w
    PROVE  LET rows == Candidates(table, s) IN
           /\ rows = <<>> => resolve(table, s, w) = NotMapped
           /\ rows # <<>> /\ Specific(rows, w) # <<>> => resolve(table, s, w) = Head(Specific(rows, w)).to
           /\ rows # <<>> /\ Specific(rows, w) = <<>> /\ Wildcard(rows) # <<>> =>
                 resolve(table, s, w) = Head(Wildcard(rows)).to
           /\ rows # <<>> /\ Specific(rows, w) = <<>> /\ Wildcard(rows) = <<>> =>
                 resolve(table, s, w) = NoMatch
  BY Zenon DEF resolve

\* A save is obeyed if no row with another spelling of the wake word is left.
LEMMA SaveIsObeyed ==
    ASSUME mappings \in Seq(Rows), NEW key \in Keys, NEW to \in Targets, NEW orig,
           {m \in RowSet(SaveForm(mappings, key, to, orig)) :
               m.sat = key[1] /\ m.word # key[2] /\ <<m.word, key[2]>> \in Alike} = {}
    PROVE  resolve(SaveForm(mappings, key, to, orig), key[1], key[2]) = to
  <1> DEFINE e == RowOf(key, to)
             old == Filter(mappings, Left(key, orig))
             table == SaveForm(mappings, key, to, orig)
             kept == OwnRows(key[1]) \cap WordRows(key[2])
  <1>1. /\ e \in Rows /\ KeyOf(e) = key /\ e.sat = key[1] /\ e.word = key[2] /\ e.to = to
        /\ key[1] \in Satellites /\ key[2] \in Words /\ key = <<key[1], key[2]>>
    BY RowFacts
  <1>2. old \in Seq(Rows)
    BY FilterType
  <1>3. table = Append(old, e)
    BY SaveFormIs
  <1>4. table \in Seq(Rows) /\ RowSet(table) = RowSet(old) \cup {e}
    BY <1>1, <1>2, <1>3, AppendFacts, RowSetAppend
  <1>5. \A r \in RowSet(old) : KeyOf(r) # key
    <2>1. \A r \in RowSet(old) : r \in Left(key, orig)
      BY FilterMembers
    <2> QED
      BY <2>1 DEF Left, NotKey
  <1> HIDE DEF e, old, table
  <1>6. e \in OwnRows(key[1]) /\ e \in WordRows(key[2])
    BY <1>1, AlikeAssumption DEF OwnRows, WordRows
  <1>7. Filter(table, OwnRows(key[1])) # <<>>
    <2>1. e \in RowSet(Filter(table, OwnRows(key[1])))
      BY <1>4, <1>6, FilterMembers
    <2>2. RowSet(<<>>) = {}
      BY DEF RowSet
    <2> QED
      BY <2>1, <2>2
  <1>8. Specific(Candidates(table, key[1]), key[2]) = Filter(table, kept)
    <2>1. Candidates(table, key[1]) = Filter(table, OwnRows(key[1]))
      BY <1>7 DEF Candidates, Own, OwnRows
    <2>2. Specific(Filter(table, OwnRows(key[1])), key[2]) =
             Filter(Filter(table, OwnRows(key[1])), WordRows(key[2]))
      BY DEF Specific, WordRows
    <2> QED
      BY <1>4, <2>1, <2>2, FilterTwice
  <1>9. Filter(table, kept) # <<>>
    <2>1. e \in RowSet(Filter(table, kept))
      BY <1>4, <1>6, FilterMembers
    <2>2. RowSet(<<>>) = {}
      BY DEF RowSet
    <2> QED
      BY <2>1, <2>2
  <1>10. Head(Filter(table, kept)) = e
    <2>1. PICK i \in At(table, kept) : Head(Filter(table, kept)) = table[i]
      BY <1>4, <1>9, FilterHead
    <2>2. table[i] \in RowSet(table) /\ table[i] \in kept
      BY DEF At, RowSet
    <2>3. /\ table[i] \in Rows /\ table[i].sat = key[1] /\ <<table[i].word, key[2]>> \in Alike
      BY <2>2 DEF OwnRows, WordRows
    <2>4. table[i].word = key[2]
      BY <2>2, <2>3 DEF table
    <2>5. KeyOf(table[i]) = key
      BY <1>1, <2>3, <2>4 DEF KeyOf
    <2>6. table[i] = e
      BY <1>4, <1>5, <2>2, <2>5
    <2> QED
      BY <2>1, <2>6
  <1>11. Candidates(table, key[1]) # <<>>
    BY <1>7 DEF Candidates, Own, OwnRows
  <1>12. resolve(table, key[1], key[2]) = Head(Specific(Candidates(table, key[1]), key[2])).to
    BY <1>8, <1>9, <1>11, ResolveCases
  <1> QED
    BY <1>1, <1>8, <1>10, <1>12 DEF table

\* What was saved is what is routed from then on, whatever row the form came
\* from and whatever other editors did since it was opened, unless an older row
\* with another spelling of the wake word is left (mapping.py:51-55).
THEOREM SavesTakeEffect == Spec => []SaveTakesEffect
  <1>1. TypeOK => SaveTakesEffect
    BY SaveIsObeyed DEF TypeOK, SaveTakesEffect
  <1> QED
    BY <1>1, TypeCorrect, PTL

LEMMA SaveIsLocal ==
    ASSUME mappings \in Seq(Rows), NEW key \in Keys, NEW to \in Targets, NEW orig \in Keys \cup {NoForm},
           NEW keep, keep = {m \in Rows : KeyOf(m) \notin {key, orig}},
           NEW table, table = SaveForm(mappings, key, to, orig)
    PROVE  /\ Filter(table, keep) = Filter(mappings, keep)
           /\ RowSet(table) \ RowSet(Filter(table, keep)) = {RowOf(key, to)}
  <1> DEFINE e == RowOf(key, to)
             left == Left(key, orig)
             old == Filter(mappings, left)
  <1>1. e \in Rows /\ KeyOf(e) = key /\ e \notin keep
    BY RowFacts
  <1>2. old \in Seq(Rows) /\ table = Append(old, e)
    BY FilterType, SaveFormIs
  <1>3. keep = left
    <2>1. \A m \in Rows : KeyOf(m) \in Keys
      BY DEF Rows, KeyOf, Keys
    <2>2. \A m \in Rows : m \in left <=> KeyOf(m) # key /\ KeyOf(m) # orig
      BY <2>1, NoFormAssumption DEF Left, Moved, NotKey
    <2>3. left \subseteq Rows
      BY DEF Left, NotKey
    <2> QED
      BY <2>2, <2>3
  <1> HIDE DEF e, left
  <1>4. Filter(table, keep) = Filter(old, keep)
    BY <1>1, <1>2, FilterAppend
  <1>5. Filter(old, keep) = old
    <2>1. Filter(old, keep) = Filter(mappings, left \cap keep)
      BY FilterTwice
    <2>2. left \cap keep = left
      BY <1>3
    <2> QED
      BY <2>1, <2>2
  <1>6. RowSet(table) = RowSet(old) \cup {e}
    BY <1>1, <1>2, RowSetAppend
  <1>7. e \notin RowSet(old)
    BY <1>1, <1>3, FilterMembers
  <1>8. Filter(table, keep) = Filter(mappings, keep)
    BY <1>3, <1>4, <1>5
  <1>9. RowSet(table) \ RowSet(Filter(table, keep)) = {e}
    BY <1>4, <1>5, <1>6, <1>7
  <1> QED
    BY <1>8, <1>9 DEF e

\* Saving a form writes the row of its key, drops the row the form came from if
\* the key moved, and leaves the others as they were and in their order
\* (main.py:923-937).
THEOREM SavesAreLocal == Spec => []SaveTouchesItsRowsOnly
  <1>1. TypeOK => SaveTouchesItsRowsOnly
    <2> SUFFICES ASSUME TypeOK, NEW key \in Keys, NEW to \in Targets, NEW orig \in Keys \cup {NoForm}
                 PROVE  LET others(table) == Filter(table, {m \in Rows : KeyOf(m) \notin {key, orig}})
                            table == SaveForm(mappings, key, to, orig)
                        IN  /\ others(table) = others(mappings)
                            /\ RowSet(table) \ RowSet(others(table)) =
                                  {[sat |-> key[1], word |-> key[2], to |-> to]}
      BY DEF SaveTouchesItsRowsOnly
    <2> QED
      BY SaveIsLocal DEF TypeOK, RowOf
  <1> QED
    BY <1>1, TypeCorrect, PTL

-----------------------------------------------------------------------------
(* Routing.                                                                *)

\* The candidates are the satellite's own rows or, without one, the only row
\* alike in name.
AlikeRows(s) == {m \in Rows : <<s, m.sat>> \in Within \/ <<m.sat, s>> \in Within}
Eligible(table, s) ==
    {i \in DOMAIN table :
        \/ i \in At(table, OwnRows(s))
        \/ At(table, OwnRows(s)) = {} /\ At(table, AlikeRows(s)) = {i}}

LEMMA CandidatesAre ==
    ASSUME NEW table \in Seq(Rows), NEW s
    PROVE  \E keep : Candidates(table, s) = Filter(table, keep) /\ At(table, keep) = Eligible(table, s)
  <1>1. Own(table, s) = Filter(table, OwnRows(s)) /\ Loose(table, s) = Filter(table, AlikeRows(s))
    BY DEF Own, OwnRows, Loose, AlikeRows
  <1>2. /\ Filter(table, OwnRows(s)) = <<>> <=> At(table, OwnRows(s)) = {}
        /\ Len(Filter(table, AlikeRows(s))) = 1 <=> \E i \in DOMAIN table : At(table, AlikeRows(s)) = {i}
    BY FilterHead, FilterOne
  <1>3. \A keep : At(table, keep) \subseteq DOMAIN table
    BY DEF At
  <1>4. CASE At(table, OwnRows(s)) # {}
    <2>1. Candidates(table, s) = Filter(table, OwnRows(s))
      BY <1>1, <1>2, <1>4 DEF Candidates
    <2>2. At(table, OwnRows(s)) = Eligible(table, s)
      BY <1>3, <1>4 DEF Eligible
    <2> QED
      BY <2>1, <2>2
  <1>5. CASE At(table, OwnRows(s)) = {} /\ \E i \in DOMAIN table : At(table, AlikeRows(s)) = {i}
    <2>1. Candidates(table, s) = Filter(table, AlikeRows(s))
      BY <1>1, <1>2, <1>5 DEF Candidates
    <2>2. At(table, AlikeRows(s)) = Eligible(table, s)
      BY <1>3, <1>5 DEF Eligible
    <2> QED
      BY <2>1, <2>2
  <1>6. CASE At(table, OwnRows(s)) = {} /\ ~\E i \in DOMAIN table : At(table, AlikeRows(s)) = {i}
    <2>1. Candidates(table, s) = <<>>
      BY <1>1, <1>2, <1>6 DEF Candidates
    <2>2. Eligible(table, s) = {} /\ At(table, {}) = {}
      BY <1>6 DEF Eligible, At
    <2>3. Filter(table, {}) = <<>>
      BY <2>2, FilterHead
    <2> QED
      BY <2>1, <2>2, <2>3
  <1> QED
    BY <1>4, <1>5, <1>6

Best(table, s, w) ==
    IF Eligible(table, s) \cap At(table, WordRows(w)) # {}
    THEN Eligible(table, s) \cap At(table, WordRows(w))
    ELSE Eligible(table, s) \cap At(table, StarRows)

\* The answer comes from the oldest of the best rows.
LEMMA AnswerIs ==
    ASSUME NEW table \in Seq(Rows), NEW s, NEW w
    PROVE  /\ Best(table, s, w) = {} => resolve(table, s, w) \in {NotMapped, NoMatch}
           /\ Best(table, s, w) # {} =>
                 \E i \in Best(table, s, w) :
                    resolve(table, s, w) = table[i].to /\ \A j \in Best(table, s, w) : i <= j
  <1> DEFINE rows == Candidates(table, s)
             fits == At(table, WordRows(w))
             best == Best(table, s, w)
  <1>1. PICK keep : rows = Filter(table, keep) /\ At(table, keep) = Eligible(table, s)
    BY CandidatesAre
  <1>2. /\ Specific(rows, w) = Filter(table, keep \cap WordRows(w))
        /\ Wildcard(rows) = Filter(table, keep \cap StarRows)
    <2>1. Specific(rows, w) = Filter(rows, WordRows(w)) /\ Wildcard(rows) = Filter(rows, StarRows)
      BY DEF Specific, WordRows, Wildcard, StarRows
    <2> QED
      BY <1>1, <2>1, FilterTwice
  <1>3. /\ At(table, keep \cap WordRows(w)) = Eligible(table, s) \cap fits
        /\ At(table, keep \cap StarRows) = Eligible(table, s) \cap At(table, StarRows)
    BY <1>1, AtOfBoth
  <1>4. /\ rows = <<>> => resolve(table, s, w) = NotMapped
        /\ rows # <<>> /\ Specific(rows, w) # <<>> => resolve(table, s, w) = Head(Specific(rows, w)).to
        /\ rows # <<>> /\ Specific(rows, w) = <<>> /\ Wildcard(rows) # <<>> =>
              resolve(table, s, w) = Head(Wildcard(rows)).to
        /\ rows # <<>> /\ Specific(rows, w) = <<>> /\ Wildcard(rows) = <<>> =>
              resolve(table, s, w) = NoMatch
    BY ResolveCases
  <1>5. /\ rows = <<>> <=> Eligible(table, s) = {}
        /\ Specific(rows, w) = <<>> <=> Eligible(table, s) \cap fits = {}
        /\ Wildcard(rows) = <<>> <=> Eligible(table, s) \cap At(table, StarRows) = {}
    BY <1>1, <1>2, <1>3, FilterHead
  <1>6. best = IF Eligible(table, s) \cap fits # {} THEN Eligible(table, s) \cap fits
               ELSE Eligible(table, s) \cap At(table, StarRows)
    BY Zenon DEF Best
  <1> SUFFICES /\ best = {} => resolve(table, s, w) \in {NotMapped, NoMatch}
               /\ best # {} =>
                     \E i \in best : resolve(table, s, w) = table[i].to /\ \A j \in best : i <= j
    OBVIOUS
  <1> HIDE DEF rows, fits, best
  <1>7. CASE Eligible(table, s) \cap fits # {}
    <2>1. resolve(table, s, w) = Head(Specific(rows, w)).to
      BY <1>4, <1>5, <1>7
    <2>2. \E i \in best : Head(Specific(rows, w)) = table[i] /\ \A j \in best : i <= j
      BY <1>1, <1>2, <1>3, <1>5, <1>7, <1>6, FilterHead
    <2> QED
      BY <1>7, <1>6, <2>1, <2>2
  <1>8. CASE Eligible(table, s) \cap fits = {} /\ Eligible(table, s) \cap At(table, StarRows) # {}
    <2>1. resolve(table, s, w) = Head(Wildcard(rows)).to
      BY <1>4, <1>5, <1>8
    <2>2. \E i \in best : Head(Wildcard(rows)) = table[i] /\ \A j \in best : i <= j
      BY <1>1, <1>2, <1>3, <1>5, <1>8, <1>6, FilterHead
    <2> QED
      BY <1>8, <1>6, <2>1, <2>2
  <1>9. CASE Eligible(table, s) \cap fits = {} /\ Eligible(table, s) \cap At(table, StarRows) = {}
    BY <1>4, <1>5, <1>9, <1>6
  <1> QED
    BY <1>7, <1>8, <1>9

\* Whatever the table, the names and the spellings, a request is answered from a
\* row of its satellite or, if there is none, from the only row alike in name, a
\* wildcard row only if none names the wake word, the oldest where several do,
\* and it is refused if there is no such row (mapping.py:23-61).
THEOREM NeverTheWrongRoom == Spec => []NeverWrongRoom
  <1>1. TypeOK => NeverWrongRoom
    <2> SUFFICES ASSUME TypeOK, NEW s \in Satellites, NEW w \in Words \cup {NoWord}
                 PROVE  LET rows == DOMAIN mappings
                            own == {i \in rows : mappings[i].sat = s}
                            alike == {i \in rows : {<<s, mappings[i].sat>>, <<mappings[i].sat, s>>} \cap Within # {}}
                            fits == {i \in rows : <<mappings[i].word, w>> \in Alike}
                            eligible == {i \in rows : i \in own \/ (own = {} /\ alike = {i})}
                            best == IF eligible \cap fits # {} THEN eligible \cap fits
                                    ELSE {i \in eligible : mappings[i].word = Star}
                            answer == resolve(mappings, s, w)
                        IN  IF best = {} THEN answer \in {NotMapped, NoMatch}
                            ELSE \E i \in best : answer = mappings[i].to /\ \A j \in best : i <= j
      BY DEF NeverWrongRoom
    <2> DEFINE rows == DOMAIN mappings
               own == {i \in rows : mappings[i].sat = s}
               alike == {i \in rows : {<<s, mappings[i].sat>>, <<mappings[i].sat, s>>} \cap Within # {}}
               fits == {i \in rows : <<mappings[i].word, w>> \in Alike}
               eligible == {i \in rows : i \in own \/ (own = {} /\ alike = {i})}
               best == IF eligible \cap fits # {} THEN eligible \cap fits
                       ELSE {i \in eligible : mappings[i].word = Star}
    <2>1. mappings \in Seq(Rows) /\ \A i \in rows : mappings[i] \in Rows
      BY ElementOfSeq, LenProperties DEF TypeOK
    <2>2. own = At(mappings, OwnRows(s))
      BY <2>1 DEF At, OwnRows
    <2>3. alike = At(mappings, AlikeRows(s))
      BY <2>1 DEF At, AlikeRows
    <2>4. fits = At(mappings, WordRows(w))
      BY <2>1 DEF At, WordRows
    <2>5. {i \in rows : mappings[i].word = Star} = At(mappings, StarRows)
      BY <2>1 DEF At, StarRows
    <2>6. eligible = Eligible(mappings, s)
      BY <2>2, <2>3 DEF Eligible
    <2>7. {i \in eligible : mappings[i].word = Star} = Eligible(mappings, s) \cap At(mappings, StarRows)
      BY <2>5, <2>6
    <2>8. best = Best(mappings, s, w)
      BY <2>4, <2>6, <2>7, Zenon DEF Best
    <2> HIDE DEF rows, own, alike, fits, eligible, best
    <2>9. /\ best = {} => resolve(mappings, s, w) \in {NotMapped, NoMatch}
          /\ best # {} =>
                \E i \in best : resolve(mappings, s, w) = mappings[i].to /\ \A j \in best : i <= j
      BY <2>1, <2>8, AnswerIs
    <2> QED
      BY <2>9 DEF rows, own, alike, fits, eligible, best
  <1> QED
    BY <1>1, TypeCorrect, PTL
=============================================================================
