----------------------------- MODULE ListLemmas -----------------------------
(***************************************************************************)
(* Facts about the list operators of the models.  They rest on induction   *)
(* over the natural numbers, stated for a set instead of a predicate, so   *)
(* that it can be used from a proof; it is derived from the fact that <    *)
(* is well-founded.                                                        *)
(***************************************************************************)
EXTENDS ArrayOps, FiniteSetTheorems, SequenceTheorems, WellFoundedInduction, TLAPS

(* A set with 0 and every successor has all natural numbers.               *)
LEMMA NatSetInduction ==
  ASSUME NEW S, 0 \in S, \A n \in Nat : n \in S => n + 1 \in S
  PROVE  \A n \in Nat : n \in S
<1>. SUFFICES ASSUME Nat \ S # {}  PROVE FALSE  OBVIOUS
<1>1. \A T : (T \subseteq Nat /\ T # {}) => \E x \in T : \A y \in T : ~(<<y, x>> \in OpToRel(<, Nat))
  BY NatLessThanWellFounded, WFMin
<1>2. PICK x \in Nat \ S : \A y \in Nat \ S : ~(<<y, x>> \in OpToRel(<, Nat))
  BY <1>1
<1>3. \A y \in Nat \ S : ~(y < x)
  BY <1>2 DEF OpToRel
<1>4. x # 0  OBVIOUS
<1>5. x - 1 \in Nat /\ x - 1 < x  BY <1>4
<1>6. x - 1 \in S  BY <1>3, <1>5
<1>. QED  BY <1>5, <1>6

(* A list is its last element after the rest.                              *)
LEMMA SplitLast ==
  ASSUME NEW S, NEW s \in Seq(S), Len(s) >= 1
  PROVE  /\ SubSeq(s, 1, Len(s) - 1) \in Seq(S) /\ s[Len(s)] \in S
         /\ Len(SubSeq(s, 1, Len(s) - 1)) = Len(s) - 1
         /\ \A i \in 1..(Len(s) - 1) : SubSeq(s, 1, Len(s) - 1)[i] = s[i]
         /\ s = Append(SubSeq(s, 1, Len(s) - 1), s[Len(s)])
<1>0. Len(s) \in Nat /\ \A i \in 1..Len(s) : s[i] \in S  BY LenProperties, ElementOfSeq
<1>n. PICK n \in Nat : n = Len(s) /\ n >= 1  BY <1>0
<1>1. PICK t, x : t = SubSeq(s, 1, Len(s) - 1) /\ x = s[Len(s)]  OBVIOUS
<1>2. t \in Seq(S) /\ Len(t) = Len(s) - 1 /\ \A i \in 1..(Len(s) - 1) : t[i] = s[i]
  <2>1. \A i \in 1..(Len(s) - 1) : s[i] \in S  BY <1>0
  <2>2. /\ t \in Seq(S) /\ Len(t) = IF 1 <= Len(s) - 1 THEN (Len(s) - 1) - 1 + 1 ELSE 0
        /\ \A i \in 1..((Len(s) - 1) - 1 + 1) : t[i] = s[1 + i - 1]
    BY <1>0, <1>1, <2>1, SubSeqProperties
  <2>3. (Len(s) - 1) - 1 + 1 = Len(s) - 1 /\ \A i \in 1..(Len(s) - 1) : 1 + i - 1 = i  BY <1>0
  <2>4. Len(t) = Len(s) - 1
    <3>1. CASE 1 <= Len(s) - 1  BY <2>2, <2>3, <3>1
    <3>2. CASE ~(1 <= Len(s) - 1)
      <4>1. n = 1  BY <1>n, <3>2
      <4>2. Len(s) - 1 = 0  BY <1>n, <4>1
      <4>. QED  BY <2>2, <3>2, <4>2
    <3>. QED  BY <3>1, <3>2
  <2>5. ASSUME NEW i \in 1..(Len(s) - 1)  PROVE t[i] = s[i]
    <3>1. t[i] = s[1 + i - 1]  BY <2>2, <2>3
    <3>. QED  BY <3>1, <2>3
  <2>. QED  BY <2>2, <2>4, <2>5
<1>3. x \in S  BY <1>0, <1>1
<1>4. Append(t, x) \in Seq(S) /\ Len(Append(t, x)) = Len(s)  BY <1>0, <1>2, <1>3
<1>5. ASSUME NEW i \in 1..Len(s)  PROVE s[i] = Append(t, x)[i]
  <2>1. CASE i \in 1..(Len(s) - 1)
    <3>1. Append(t, x)[i] = t[i]  BY <1>0, <1>2, <1>3, <2>1, AppendProperties
    <3>. QED  BY <1>2, <2>1, <3>1
  <2>2. CASE i = Len(s)
    <3>1. Append(t, x)[Len(t) + 1] = x  BY <1>2, <1>3, AppendProperties
    <3>. QED  BY <1>0, <1>1, <1>2, <2>2, <3>1
  <2>3. i \in 1..(Len(s) - 1) \/ i = Len(s)  BY <1>0
  <2>. QED  BY <2>1, <2>2, <2>3
<1>6. s = Append(t, x)  BY <1>4, <1>5, SeqEqual
<1>. QED  BY <1>1, <1>2, <1>3, <1>6

(* A set with the empty list and every longer one has all lists.           *)
LEMMA ListSetInduction ==
  ASSUME NEW S, NEW P, <<>> \in P, \A s \in Seq(S), x \in S : s \in P => Append(s, x) \in P
  PROVE  \A s \in Seq(S) : s \in P
<1>. DEFINE N == {n \in Nat : \A s \in Seq(S) : Len(s) = n => s \in P}
<1>1. 0 \in N
  <2>1. ASSUME NEW s \in Seq(S), Len(s) = 0  PROVE s \in P
    <3>1. s = <<>>  BY <2>1, EmptySeq
    <3>. QED  BY <3>1
  <2>. QED  BY <2>1
<1>2. ASSUME NEW n \in Nat, n \in N  PROVE n + 1 \in N
  <2>1. ASSUME NEW s \in Seq(S), Len(s) = n + 1  PROVE s \in P
    <3>1. Len(s) >= 1 /\ Len(s) - 1 = n  BY <2>1
    <3>2. PICK t, x : t = SubSeq(s, 1, Len(s) - 1) /\ x = s[Len(s)]  OBVIOUS
    <3>3. t \in Seq(S) /\ x \in S /\ Len(t) = n /\ s = Append(t, x)  BY <3>1, <3>2, SplitLast
    <3>4. t \in P  BY <1>2, <3>3
    <3>. QED  BY <3>3, <3>4
  <2>. QED  BY <2>1
<1>3. \A n \in Nat : n \in N
  <2>. HIDE DEF N
  <2>. QED  BY <1>1, <1>2, NatSetInduction
<1>4. \A s \in Seq(S) : Len(s) \in Nat  BY LenProperties
<1>. QED  BY <1>3, <1>4

----------------------------------------------------------------------------
(* FlattenSeq.                                                             *)

(* The function that FlattenSeq chooses, for the first n lists.            *)
Flattening(f, ss, n) == f = [i \in 1..n |-> IF i = 1 THEN ss[i] ELSE f[i - 1] \o ss[i]]

(* What the function is at each place.                                     *)
LEMMA FlatteningIs ==
  ASSUME NEW f, NEW ss, NEW n \in Nat, Flattening(f, ss, n), NEW i \in 1..n
  PROVE  f[i] = IF i = 1 THEN ss[i] ELSE f[i - 1] \o ss[i]
BY DEF Flattening

(* There is one, whatever the lists are.                                   *)
LEMMA FlatteningExists ==
  ASSUME NEW ss
  PROVE  \A n \in Nat : \E f : Flattening(f, ss, n)
<1>. DEFINE S == {n \in Nat : \E f : Flattening(f, ss, n)}
<1>1. 0 \in S
  <2>1. PICK f : f = [i \in 1..0 |-> <<>>]  OBVIOUS
  <2>2. Flattening(f, ss, 0)  BY <2>1 DEF Flattening
  <2>. QED  BY <2>2
<1>2. ASSUME NEW n \in Nat, n \in S  PROVE n + 1 \in S
  <2>1. PICK f : Flattening(f, ss, n)  BY <1>2
  <2>2. PICK g : g = [i \in 1..(n + 1) |-> IF i = 1 THEN ss[i] ELSE f[i - 1] \o ss[i]]  OBVIOUS
  <2>3. ASSUME NEW i \in 1..n  PROVE g[i] = f[i]
    <3>1. f[i] = IF i = 1 THEN ss[i] ELSE f[i - 1] \o ss[i]  BY <2>1, FlatteningIs
    <3>2. i \in 1..(n + 1)  OBVIOUS
    <3>3. g[i] = IF i = 1 THEN ss[i] ELSE f[i - 1] \o ss[i]  BY <2>2, <3>2
    <3>. QED  BY <3>1, <3>3
  <2>4. \A i \in 1..(n + 1) : i # 1 => g[i - 1] = f[i - 1]  BY <2>3
  <2>5. Flattening(g, ss, n + 1)  BY <2>2, <2>4 DEF Flattening
  <2>. QED  BY <2>5
<1>3. \A n \in Nat : n \in S
  <2>. HIDE DEF S
  <2>. QED  BY <1>1, <1>2, NatSetInduction
<1>. QED  BY <1>3

(* FlattenSeq is that function's last value.                               *)
LEMMA FlattenIs ==
  ASSUME NEW ss, Len(ss) \in Nat, Len(ss) # 0
  PROVE  \E f : Flattening(f, ss, Len(ss)) /\ FlattenSeq(ss) = f[Len(ss)]
<1>1. FlattenSeq(ss) = (CHOOSE f : Flattening(f, ss, Len(ss)))[Len(ss)]
  BY DEF FlattenSeq, Flattening
<1>2. \E f : Flattening(f, ss, Len(ss))  BY FlatteningExists
<1>. QED  BY <1>1, <1>2

(* The value at i is a list of the same elements, and depends on the first *)
(* i lists only.                                                           *)
LEMMA FlatteningType ==
  ASSUME NEW S, NEW ss \in Seq(Seq(S)), NEW f, Flattening(f, ss, Len(ss))
  PROVE  \A i \in 1..Len(ss) : f[i] \in Seq(S)
<1>. DEFINE T == {n \in Nat : n \in 1..Len(ss) => f[n] \in Seq(S)}
<1>1. 0 \in T  OBVIOUS
<1>2. ASSUME NEW n \in Nat, n \in T  PROVE n + 1 \in T
  <2>. SUFFICES ASSUME n + 1 \in 1..Len(ss)  PROVE f[n + 1] \in Seq(S)  OBVIOUS
  <2>1. f[n + 1] = IF n + 1 = 1 THEN ss[n + 1] ELSE f[n] \o ss[n + 1]
    <3>1. Len(ss) \in Nat /\ (n + 1) - 1 = n  OBVIOUS
    <3>. QED  BY <3>1, FlatteningIs
  <2>2. ss[n + 1] \in Seq(S)  OBVIOUS
  <2>3. CASE n = 0  BY <2>1, <2>2, <2>3
  <2>4. CASE n # 0
    <3>1. f[n] \in Seq(S)  BY <1>2, <2>4
    <3>. QED  BY <2>1, <2>2, <2>4, <3>1
  <2>. QED  BY <2>3, <2>4
<1>3. \A n \in Nat : n \in T
  <2>. HIDE DEF T
  <2>. QED  BY <1>1, <1>2, NatSetInduction
<1>. QED  BY <1>3

\* One more list at the end leaves what the lists before it flatten to.
LEMMA FlatteningPrefix ==
  ASSUME NEW S, NEW ss \in Seq(Seq(S)), NEW t \in Seq(S), NEW f, NEW g,
         Flattening(f, ss, Len(ss)), Flattening(g, Append(ss, t), Len(ss) + 1)
  PROVE  \A i \in 1..Len(ss) : g[i] = f[i]
<1>0. \A i \in 1..(Len(ss) + 1) : g[i] = IF i = 1 THEN Append(ss, t)[i] ELSE g[i - 1] \o Append(ss, t)[i]
  BY Len(ss) + 1 \in Nat, FlatteningIs
<1>. DEFINE T == {n \in Nat : n \in 1..Len(ss) => g[n] = f[n]}
<1>1. 0 \in T  OBVIOUS
<1>2. ASSUME NEW n \in Nat, n \in T  PROVE n + 1 \in T
  <2>. SUFFICES ASSUME n + 1 \in 1..Len(ss)  PROVE g[n + 1] = f[n + 1]  OBVIOUS
  <2>0. Len(ss) \in Nat /\ (n + 1) - 1 = n /\ n + 1 \in 1..(Len(ss) + 1) /\ Len(ss) + 1 \in Nat  OBVIOUS
  <2>1. f[n + 1] = IF n + 1 = 1 THEN ss[n + 1] ELSE f[n] \o ss[n + 1]
    BY <2>0, FlatteningIs
  <2>2. g[n + 1] = IF n + 1 = 1 THEN Append(ss, t)[n + 1] ELSE g[n] \o Append(ss, t)[n + 1]
    BY <1>0, <2>0
  <2>3. Append(ss, t)[n + 1] = ss[n + 1]  OBVIOUS
  <2>4. n # 0 => g[n] = f[n]  BY <1>2
  <2>. QED  BY <2>1, <2>2, <2>3, <2>4
<1>3. \A n \in Nat : n \in T
  <2>. HIDE DEF T
  <2>. QED  BY <1>1, <1>2, NatSetInduction
<1>. QED  BY <1>3

(* Lists flattened: none, and one more.                                    *)
LEMMA FlattenEmpty == FlattenSeq(<<>>) = <<>>
BY DEF FlattenSeq

\* A flattened list of lists over S is a list over S.
LEMMA FlattenType ==
  ASSUME NEW S, NEW ss \in Seq(Seq(S))
  PROVE  FlattenSeq(ss) \in Seq(S)
<1>1. CASE Len(ss) = 0
  <2>1. ss = <<>>  BY <1>1
  <2>2. <<>> \in Seq(S)  OBVIOUS
  <2>. QED  BY <2>1, <2>2, FlattenEmpty
<1>2. CASE Len(ss) # 0
  <2>1. PICK f : Flattening(f, ss, Len(ss)) /\ FlattenSeq(ss) = f[Len(ss)]  BY <1>2, FlattenIs
  <2>2. Len(ss) \in 1..Len(ss)  BY <1>2
  <2>. QED  BY <2>1, <2>2, FlatteningType
<1>. QED  BY <1>1, <1>2

\* Flattening a list of lists with one more at its end.
LEMMA FlattenAppend ==
  ASSUME NEW S, NEW ss \in Seq(Seq(S)), NEW t \in Seq(S)
  PROVE  FlattenSeq(Append(ss, t)) = FlattenSeq(ss) \o t
<1>1. Len(Append(ss, t)) = Len(ss) + 1 /\ Len(ss) \in Nat /\ Append(ss, t)[Len(ss) + 1] = t  OBVIOUS
<1>2. PICK g : Flattening(g, Append(ss, t), Len(ss) + 1) /\ FlattenSeq(Append(ss, t)) = g[Len(ss) + 1]
  <2>1. Len(Append(ss, t)) \in Nat /\ Len(Append(ss, t)) # 0  BY <1>1
  <2>. QED  BY <1>1, <2>1, FlattenIs
<1>3. Len(ss) + 1 \in 1..(Len(ss) + 1) /\ Len(ss) + 1 \in Nat /\ (Len(ss) + 1) - 1 = Len(ss)  BY <1>1
<1>4. g[Len(ss) + 1] = IF Len(ss) + 1 = 1 THEN t ELSE g[Len(ss)] \o t
  <2>1. g[Len(ss) + 1] = IF Len(ss) + 1 = 1 THEN Append(ss, t)[Len(ss) + 1] ELSE g[(Len(ss) + 1) - 1] \o Append(ss, t)[Len(ss) + 1]
    BY <1>2, <1>3, FlatteningIs
  <2>. QED  BY <2>1, <1>1, <1>3
<1>5. CASE Len(ss) = 0
  <2>1. ss = <<>>  BY <1>5
  <2>2. FlattenSeq(ss) \o t = t  BY <2>1, FlattenEmpty
  <2>. QED  BY <1>2, <1>4, <1>5, <2>2
<1>6. CASE Len(ss) # 0
  <2>1. PICK f : Flattening(f, ss, Len(ss)) /\ FlattenSeq(ss) = f[Len(ss)]  BY <1>6, <1>1, FlattenIs
  <2>2. Len(ss) \in 1..Len(ss)  BY <1>6
  <2>3. g[Len(ss)] = f[Len(ss)]  BY <1>2, <2>1, <2>2, FlatteningPrefix
  <2>. QED  BY <1>2, <1>4, <1>6, <2>1, <2>3
<1>. QED  BY <1>5, <1>6

----------------------------------------------------------------------------
(* Sets sorted by an order.  An order is a set of pairs; the place of an   *)
(* element is the number of elements ahead of it.                          *)

IsOrder(R, S) ==
  /\ \A x \in S : <<x, x>> \notin R
  /\ \A x, y, z \in S : <<x, y>> \in R /\ <<y, z>> \in R => <<x, z>> \in R
  /\ \A x, y \in S : x = y \/ <<x, y>> \in R \/ <<y, x>> \in R

Ahead(R, S, x) == {y \in S : <<y, x>> \in R}
Place(R, S, x) == Cardinality(Ahead(R, S, x))

(* The list has the elements of the set, each at its place.                *)
Sorted(R, S, q) ==
  /\ q \in Seq(S) /\ Len(q) = Cardinality(S)
  /\ \A i \in 1..Len(q) : Place(R, S, q[i]) = i - 1

(* Places are numbers; an element's place is below the number of elements, *)
(* and fewer elements make no place higher.                                *)
LEMMA PlaceType ==
  ASSUME NEW R, NEW S, IsFiniteSet(S), NEW x
  PROVE  /\ Place(R, S, x) \in Nat /\ Place(R, S, x) <= Cardinality(S) /\ Cardinality(S) \in Nat
         /\ IsOrder(R, S) /\ x \in S => Place(R, S, x) < Cardinality(S)
<1>1. Ahead(R, S, x) \in SUBSET S  BY DEF Ahead
<1>2. IsFiniteSet(Ahead(R, S, x)) /\ Place(R, S, x) <= Cardinality(S)
      /\ (Cardinality(S) = Place(R, S, x) => S = Ahead(R, S, x))
  BY <1>1, FS_Subset DEF Place
<1>3. Place(R, S, x) \in Nat /\ Cardinality(S) \in Nat  BY <1>2, FS_CardinalityType DEF Place
<1>4. IsOrder(R, S) /\ x \in S => S # Ahead(R, S, x)  BY DEF IsOrder, Ahead
<1>. QED  BY <1>2, <1>3, <1>4

\* An element stands no later among fewer elements.
LEMMA PlaceOfFewer ==
  ASSUME NEW R, NEW T, IsFiniteSet(T), NEW S \in SUBSET T, NEW x
  PROVE  Place(R, S, x) <= Place(R, T, x)
<1>1. Ahead(R, T, x) \in SUBSET T /\ Ahead(R, S, x) \in SUBSET Ahead(R, T, x)  BY DEF Ahead
<1>2. IsFiniteSet(Ahead(R, T, x))  BY <1>1, FS_Subset
<1>. QED  BY <1>1, <1>2, FS_Subset DEF Place

(* What is ahead of another element has the smaller place, so no two       *)
(* elements share one, and every place below the number is taken.          *)
LEMMA PlaceLess ==
  ASSUME NEW R, NEW U, IsOrder(R, U), NEW S \in SUBSET U, IsFiniteSet(S),
         NEW x \in S, NEW y \in U, <<x, y>> \in R
  PROVE  Place(R, S, x) < Place(R, S, y)
<1>1. Ahead(R, S, x) \in SUBSET Ahead(R, S, y) /\ Ahead(R, S, y) \in SUBSET S  BY DEF Ahead, IsOrder
<1>2. Ahead(R, S, x) # Ahead(R, S, y)  BY DEF Ahead, IsOrder
<1>3. IsFiniteSet(Ahead(R, S, y))  BY <1>1, FS_Subset
<1>4. Place(R, S, x) <= Place(R, S, y) /\ Place(R, S, x) # Place(R, S, y)
  BY <1>1, <1>2, <1>3, FS_Subset DEF Place
<1>. QED  BY <1>4, PlaceType

\* No two elements of a finite ordered set have the same place.
LEMMA PlaceOne ==
  ASSUME NEW R, NEW S, IsOrder(R, S), IsFiniteSet(S), NEW x \in S, NEW y \in S,
         Place(R, S, x) = Place(R, S, y)
  PROVE  x = y
<1>1. S \in SUBSET S  OBVIOUS
<1>2. <<x, y>> \in R => Place(R, S, x) < Place(R, S, y)  BY <1>1, PlaceLess
<1>3. <<y, x>> \in R => Place(R, S, y) < Place(R, S, x)  BY <1>1, PlaceLess
<1>4. Place(R, S, x) \in Nat  BY PlaceType
<1>. QED  BY <1>2, <1>3, <1>4 DEF IsOrder

\* Every place up to the size of the set is taken.
LEMMA PlaceTaken ==
  ASSUME NEW R, NEW S, IsOrder(R, S), IsFiniteSet(S), NEW k \in 0..(Cardinality(S) - 1)
  PROVE  \E x \in S : Place(R, S, x) = k
<1>. DEFINE T == 0..(Cardinality(S) - 1)
<1>1. Cardinality(S) \in Nat  BY PlaceType
<1>2. PICK f : f = [x \in S |-> Place(R, S, x)]  OBVIOUS
<1>3. f \in [S -> T]  BY <1>1, <1>2, PlaceType
<1>4. f \in Injection(S, T)
  BY <1>2, <1>3, PlaceOne DEF Injection, IsInjective
<1>5. IsFiniteSet(T) /\ Cardinality(T) = Cardinality(S)
  <2>1. 0 \in Int /\ Cardinality(S) - 1 \in Int  BY <1>1
  <2>2. IsFiniteSet(T) /\ Cardinality(T) = IF 0 > Cardinality(S) - 1 THEN 0 ELSE (Cardinality(S) - 1) - 0 + 1
    BY <2>1, FS_Interval
  <2>. QED  BY <1>1, <2>2
<1>6. f \in Surjection(S, T)
  <2>. HIDE DEF T
  <2>. QED  BY <1>4, <1>5, FS_Injection
<1>. QED  BY <1>2, <1>6 DEF Surjection

(* A sorted list shows every element once, the element with place k after  *)
(* k others.                                                               *)
LEMMA SortedShows ==
  ASSUME NEW R, NEW S, IsOrder(R, S), IsFiniteSet(S), NEW q, Sorted(R, S, q)
  PROVE  /\ \A x \in S : Place(R, S, x) + 1 \in 1..Len(q) /\ q[Place(R, S, x) + 1] = x
         /\ Range(q) = S /\ IsInjective(q)
<1>1. q \in Seq(S) /\ Len(q) = Cardinality(S) /\ \A i \in 1..Len(q) : Place(R, S, q[i]) = i - 1
  BY DEF Sorted
<1>2. \A i \in 1..Len(q) : q[i] \in S  BY <1>1, ElementOfSeq
<1>3. DOMAIN q = 1..Len(q)  BY <1>1, LenProperties
<1>4. ASSUME NEW x \in S  PROVE Place(R, S, x) + 1 \in 1..Len(q) /\ q[Place(R, S, x) + 1] = x
  <2>1. Place(R, S, x) \in Nat /\ Cardinality(S) \in Nat /\ Place(R, S, x) < Cardinality(S)  BY PlaceType
  <2>2. Place(R, S, x) + 1 \in 1..Len(q)  BY <2>1, <1>1
  <2>3. Place(R, S, q[Place(R, S, x) + 1]) = Place(R, S, x)  BY <2>1, <2>2, <1>1
  <2>4. q[Place(R, S, x) + 1] \in S  BY <2>2, <1>2
  <2>5. PICK y \in S : y = q[Place(R, S, x) + 1]  BY <2>4
  <2>6. y = x  BY <2>3, <2>5, PlaceOne
  <2>. QED  BY <2>2, <2>5, <2>6
<1>5. Range(q) = S  BY <1>2, <1>3, <1>4 DEF Range
<1>6. IsInjective(q)
  <2>1. \A i, j \in 1..Len(q) : q[i] = q[j] => i - 1 = j - 1  BY <1>1
  <2>. QED  BY <2>1, <1>3 DEF IsInjective
<1>. QED  BY <1>4, <1>5, <1>6

\* The order leaves one sorted list of a set.
LEMMA SortedUnique ==
  ASSUME NEW R, NEW S, IsOrder(R, S), IsFiniteSet(S), NEW p, NEW q, Sorted(R, S, p), Sorted(R, S, q)
  PROVE  p = q
<1>1. p \in Seq(S) /\ q \in Seq(S) /\ Len(p) = Len(q)  BY DEF Sorted
<1>2. ASSUME NEW i \in 1..Len(p)  PROVE p[i] = q[i]
  <2>1. p[i] \in S /\ q[i] \in S  BY <1>1, ElementOfSeq
  <2>2. Place(R, S, p[i]) = Place(R, S, q[i])  BY <1>1 DEF Sorted
  <2>. QED  BY <2>1, <2>2, PlaceOne
<1>. QED  BY <1>1, <1>2, SeqEqual

(* A list of the elements, each where its place says, is sorted.           *)
LEMMA SortedByPlace ==
  ASSUME NEW R, NEW S, IsOrder(R, S), IsFiniteSet(S), NEW q,
         q = [i \in 1..Cardinality(S) |-> q[i]],
         \A i \in 1..Cardinality(S) : q[i] \in S /\ Place(R, S, q[i]) = i - 1
  PROVE  Sorted(R, S, q)
<1>1. Cardinality(S) \in Nat  BY PlaceType
<1>2. q \in [1..Cardinality(S) -> S]  OBVIOUS
<1>3. q \in Seq(S)  BY <1>1, <1>2
<1>4. Len(q) = Cardinality(S)  BY <1>1, <1>2, <1>3, LenProperties
<1>. QED  BY <1>3, <1>4 DEF Sorted

(* Two sorted lists after one another, when all of the first is ahead of   *)
(* all of the second.                                                      *)
LEMMA SortedJoin ==
  ASSUME NEW R, NEW A, NEW B, IsOrder(R, A \cup B), IsFiniteSet(A), IsFiniteSet(B),
         \A x \in A, y \in B : <<x, y>> \in R,
         NEW p, NEW q, Sorted(R, A, p), Sorted(R, B, q)
  PROVE  Sorted(R, A \cup B, p \o q)
<1>1. p \in Seq(A) /\ Len(p) = Cardinality(A) /\ q \in Seq(B) /\ Len(q) = Cardinality(B)  BY DEF Sorted
<1>2. A \cap B = {}  BY DEF IsOrder
<1>3. Cardinality(A) \in Nat /\ Cardinality(B) \in Nat  BY FS_CardinalityType
<1>4. IsFiniteSet(A \cup B) /\ Cardinality(A \cup B) = Cardinality(A) + Cardinality(B)
  BY <1>2, <1>3, FS_Union, FS_EmptySet
<1>5. p \in Seq(A \cup B) /\ q \in Seq(A \cup B)  BY <1>1
<1>6. /\ p \o q \in Seq(A \cup B) /\ Len(p \o q) = Len(p) + Len(q)
      /\ \A i \in 1..(Len(p) + Len(q)) : (p \o q)[i] = IF i <= Len(p) THEN p[i] ELSE q[i - Len(p)]
  BY <1>5, ConcatProperties
<1>7. ASSUME NEW i \in 1..Len(p)  PROVE Place(R, A \cup B, p[i]) = i - 1
  <2>1. p[i] \in A  BY <1>1, ElementOfSeq
  <2>2. Ahead(R, A \cup B, p[i]) = Ahead(R, A, p[i])  BY <2>1 DEF Ahead, IsOrder
  <2>. QED  BY <2>2 DEF Place, Sorted
<1>8. ASSUME NEW i \in 1..Len(q)  PROVE Place(R, A \cup B, q[i]) = Len(p) + (i - 1)
  <2>1. q[i] \in B  BY <1>1, ElementOfSeq
  <2>2. Ahead(R, A \cup B, q[i]) = A \cup Ahead(R, B, q[i])
    <3>1. \A y \in B : {x \in A \cup B : <<x, y>> \in R} = A \cup {x \in B : <<x, y>> \in R}  OBVIOUS
    <3>. QED  BY <2>1, <3>1 DEF Ahead
  <2>3. Ahead(R, B, q[i]) \in SUBSET B /\ A \cap Ahead(R, B, q[i]) = {}  BY <1>2 DEF Ahead
  <2>4. IsFiniteSet(Ahead(R, B, q[i]))  BY <2>3, FS_Subset
  <2>5. Cardinality(A \cup Ahead(R, B, q[i])) = Cardinality(A) + Cardinality(Ahead(R, B, q[i])) - Cardinality({})
    BY <2>3, <2>4, FS_Union
  <2>6. Cardinality(Ahead(R, B, q[i])) = i - 1  BY DEF Place, Sorted
  <2>7. Cardinality({}) = 0  BY FS_EmptySet
  <2>8. Cardinality(A) + (i - 1) = Cardinality(A) + (i - 1) - 0 /\ i - 1 \in Nat  BY <1>1, <1>3
  <2>9. Place(R, A \cup B, q[i]) = Cardinality(A \cup Ahead(R, B, q[i]))  BY <2>2 DEF Place
  <2>. QED  BY <1>1, <2>5, <2>6, <2>7, <2>8, <2>9
<1>9. ASSUME NEW i \in 1..(Len(p) + Len(q))  PROVE Place(R, A \cup B, (p \o q)[i]) = i - 1
  <2>0. Len(p) \in Nat /\ Len(q) \in Nat  BY <1>1, <1>3
  <2>1. CASE i <= Len(p)
    <3>1. i \in 1..Len(p) /\ (p \o q)[i] = p[i]  BY <2>0, <2>1, <1>6
    <3>. QED  BY <3>1, <1>7
  <2>2. CASE ~(i <= Len(p))
    <3>1. i - Len(p) \in 1..Len(q) /\ (p \o q)[i] = q[i - Len(p)]  BY <2>0, <2>2, <1>6
    <3>2. Place(R, A \cup B, q[i - Len(p)]) = Len(p) + ((i - Len(p)) - 1)  BY <3>1, <1>8
    <3>. QED  BY <2>0, <3>1, <3>2
  <2>. QED  BY <2>1, <2>2
<1>. QED  BY <1>1, <1>4, <1>6, <1>9 DEF Sorted

(* A section of a sorted list shows the elements whose places it covers.   *)
Covered(R, S, a, b) == {x \in S : a <= Place(R, S, x) /\ Place(R, S, x) < b}

\* A section of the sorted list holds the elements whose places it covers.
LEMMA SortedSection ==
  ASSUME NEW R, NEW S, IsOrder(R, S), IsFiniteSet(S), NEW q, Sorted(R, S, q),
         NEW a \in Nat, NEW b \in Nat, b <= Len(q)
  PROVE  /\ SubSeq(q, a + 1, b) \in Seq(S)
         /\ Len(SubSeq(q, a + 1, b)) = IF a < b THEN b - a ELSE 0
         /\ Range(SubSeq(q, a + 1, b)) = Covered(R, S, a, b)
<1>1. q \in Seq(S) /\ Len(q) \in Nat /\ \A i \in 1..Len(q) : q[i] \in S /\ Place(R, S, q[i]) = i - 1
  BY LenProperties, ElementOfSeq DEF Sorted
<1>2. PICK part : part = SubSeq(q, a + 1, b)  OBVIOUS
<1>3. /\ part \in Seq(S) /\ Len(part) = IF a + 1 <= b THEN b - (a + 1) + 1 ELSE 0
      /\ \A i \in 1..(b - (a + 1) + 1) : part[i] = q[a + 1 + i - 1]
  <2>1. a + 1 \in Int /\ b \in Int /\ \A i \in (a + 1)..b : q[i] \in S  BY <1>1
  <2>. QED  BY <1>2, <2>1, SubSeqProperties
<1>4. DOMAIN part = 1..Len(part)  BY <1>3, LenProperties
<1>5. Len(part) = IF a < b THEN b - a ELSE 0  BY <1>3
<1>6. ASSUME NEW i \in 1..Len(part)
      PROVE  part[i] \in S /\ a <= Place(R, S, part[i]) /\ Place(R, S, part[i]) < b
  <2>1. a + i \in 1..Len(q) /\ i \in 1..(b - (a + 1) + 1) /\ a + 1 + i - 1 = a + i  BY <1>1, <1>5
  <2>2. part[i] = q[a + i]  BY <1>3, <2>1
  <2>3. Place(R, S, q[a + i]) = (a + i) - 1 /\ q[a + i] \in S  BY <1>1, <2>1
  <2>. QED  BY <1>5, <2>1, <2>2, <2>3
<1>7. ASSUME NEW x \in S, a <= Place(R, S, x), Place(R, S, x) < b
      PROVE  \E i \in 1..Len(part) : part[i] = x
  <2>1. Place(R, S, x) \in Nat  BY PlaceType
  <2>2. PICK i \in Nat : i = (Place(R, S, x) + 1) - a  BY <2>1, <1>7
  <2>3. i \in 1..Len(part) /\ i \in 1..(b - (a + 1) + 1) /\ a + 1 + i - 1 = Place(R, S, x) + 1
    BY <2>1, <2>2, <1>5, <1>7
  <2>4. q[Place(R, S, x) + 1] = x  BY SortedShows
  <2>. QED  BY <1>3, <2>3, <2>4
<1>8. Range(part) = Covered(R, S, a, b)
  BY <1>4, <1>6, <1>7 DEF Range, Covered
<1>. QED  BY <1>2, <1>3, <1>5, <1>8

(* What two lists after one another show.                                  *)
LEMMA ConcatShows ==
  ASSUME NEW S, NEW p \in Seq(S), NEW q \in Seq(S)
  PROVE  /\ Range(p \o q) = Range(p) \cup Range(q)
         /\ IsInjective(p) /\ IsInjective(q) /\ Range(p) \cap Range(q) = {} => IsInjective(p \o q)
<1>1. /\ p \o q \in Seq(S) /\ Len(p \o q) = Len(p) + Len(q)
      /\ \A i \in 1..(Len(p) + Len(q)) : (p \o q)[i] = IF i <= Len(p) THEN p[i] ELSE q[i - Len(p)]
  BY ConcatProperties
<1>2. /\ DOMAIN p = 1..Len(p) /\ DOMAIN q = 1..Len(q) /\ Len(p) \in Nat /\ Len(q) \in Nat
      /\ DOMAIN (p \o q) = 1..(Len(p) + Len(q))
  BY <1>1, LenProperties
<1>3. PICK pq : pq = p \o q  OBVIOUS
<1>4. \A i \in 1..Len(p) : i \in 1..(Len(p) + Len(q)) /\ pq[i] = p[i]  BY <1>1, <1>2, <1>3
<1>5. ASSUME NEW j \in 1..Len(q)  PROVE Len(p) + j \in 1..(Len(p) + Len(q)) /\ pq[Len(p) + j] = q[j]
  <2>1. Len(p) + j \in 1..(Len(p) + Len(q)) /\ ~(Len(p) + j <= Len(p)) /\ (Len(p) + j) - Len(p) = j  BY <1>2
  <2>. QED  BY <1>1, <1>3, <2>1
<1>6. \A i \in 1..(Len(p) + Len(q)) :
        \/ i \in 1..Len(p) /\ pq[i] = p[i]
        \/ i > Len(p) /\ i - Len(p) \in 1..Len(q) /\ pq[i] = q[i - Len(p)]
  BY <1>1, <1>2, <1>3
<1>7. Range(pq) = Range(p) \cup Range(q)
  <2>1. \A x \in Range(p) : x \in Range(pq)  BY <1>2, <1>3, <1>4 DEF Range
  <2>2. \A x \in Range(q) : x \in Range(pq)  BY <1>2, <1>3, <1>5 DEF Range
  <2>3. \A x \in Range(pq) : x \in Range(p) \cup Range(q)  BY <1>2, <1>3, <1>6 DEF Range
  <2>. QED  BY <2>1, <2>2, <2>3
<1>8. ASSUME IsInjective(p), IsInjective(q), Range(p) \cap Range(q) = {}  PROVE IsInjective(pq)
  <2>. SUFFICES ASSUME NEW i \in 1..(Len(p) + Len(q)), NEW j \in 1..(Len(p) + Len(q)), pq[i] = pq[j]
                PROVE  i = j
    BY <1>2, <1>3 DEF IsInjective
  <2>1. CASE i \in 1..Len(p) /\ j \in 1..Len(p)  BY <2>1, <1>2, <1>4, <1>8 DEF IsInjective
  <2>2. CASE i \in 1..Len(p) /\ j > Len(p)
    <3>1. pq[i] \in Range(p) /\ pq[j] \in Range(q)  BY <2>2, <1>2, <1>6, <1>4 DEF Range
    <3>. QED  BY <3>1, <1>8
  <2>3. CASE i > Len(p) /\ j \in 1..Len(p)
    <3>0. i - Len(p) \in DOMAIN q /\ pq[i] = q[i - Len(p)] /\ j \in DOMAIN p /\ pq[j] = p[j]
      BY <2>3, <1>2, <1>6, <1>4
    <3>1. pq[j] \in Range(p) /\ pq[i] \in Range(q)  BY <3>0 DEF Range
    <3>. QED  BY <3>1, <1>8
  <2>4. CASE i > Len(p) /\ j > Len(p)
    <3>1. i - Len(p) \in 1..Len(q) /\ j - Len(p) \in 1..Len(q) /\ q[i - Len(p)] = q[j - Len(p)]
      BY <2>4, <1>2, <1>6
    <3>2. i - Len(p) = j - Len(p)  BY <3>1, <1>2, <1>8 DEF IsInjective
    <3>. QED  BY <3>2, <1>2
  <2>. QED  BY <2>1, <2>2, <2>3, <2>4, <1>2
<1>. QED  BY <1>3, <1>7, <1>8

----------------------------------------------------------------------------
(* Lists of lists.                                                         *)

(* All that is in the lists; no element is in two places of them.          *)
Within(ss) == UNION {Range(ss[i]) : i \in DOMAIN ss}
Apart(ss) ==
  /\ \A i \in DOMAIN ss : IsInjective(ss[i])
  /\ \A i, j \in DOMAIN ss : i # j => Range(ss[i]) \cap Range(ss[j]) = {}

(* Lists after one another have what each has.                             *)
LEMMA ConcatWithin ==
  ASSUME NEW S, NEW p \in Seq(Seq(S)), NEW q \in Seq(Seq(S))
  PROVE  /\ Within(p \o q) = Within(p) \cup Within(q)
         /\ Apart(p) /\ Apart(q) /\ Within(p) \cap Within(q) = {} => Apart(p \o q)
<1>1. /\ p \o q \in Seq(Seq(S)) /\ Len(p) \in Nat /\ Len(q) \in Nat /\ Len(p \o q) = Len(p) + Len(q)
      /\ \A i \in 1..(Len(p) + Len(q)) : (p \o q)[i] = IF i <= Len(p) THEN p[i] ELSE q[i - Len(p)]
  BY ConcatProperties
<1>2. DOMAIN p = 1..Len(p) /\ DOMAIN q = 1..Len(q) /\ DOMAIN (p \o q) = 1..(Len(p) + Len(q))
  BY <1>1, LenProperties
<1>3. PICK r : r = p \o q  OBVIOUS
<1>4. ASSUME NEW i \in DOMAIN p  PROVE i \in DOMAIN r /\ r[i] = p[i]
  BY <1>1, <1>2, <1>3
<1>5. ASSUME NEW i \in DOMAIN q  PROVE Len(p) + i \in DOMAIN r /\ r[Len(p) + i] = q[i]
  BY <1>1, <1>2, <1>3
<1>6. ASSUME NEW i \in DOMAIN r
      PROVE  \/ i \in DOMAIN p /\ r[i] = p[i]
             \/ i - Len(p) \in DOMAIN q /\ r[i] = q[i - Len(p)] /\ i \notin DOMAIN p
  BY <1>1, <1>2, <1>3
<1>7. Within(r) = Within(p) \cup Within(q)
  <2>1. \A x : x \in Within(r) <=> \E i \in DOMAIN r : x \in Range(r[i])  BY DEF Within
  <2>2. \A x : x \in Within(p) <=> \E i \in DOMAIN p : x \in Range(p[i])  BY DEF Within
  <2>3. \A x : x \in Within(q) <=> \E i \in DOMAIN q : x \in Range(q[i])  BY DEF Within
  <2>. QED  BY <1>4, <1>5, <1>6, <2>1, <2>2, <2>3
<1>8. ASSUME Apart(p), Apart(q), Within(p) \cap Within(q) = {}  PROVE Apart(r)
  <2>1. \A i \in DOMAIN r : IsInjective(r[i])  BY <1>6, <1>8 DEF Apart
  <2>2. ASSUME NEW i \in DOMAIN p, NEW j \in DOMAIN q  PROVE Range(p[i]) \cap Range(q[j]) = {}
    BY <1>8 DEF Within
  <2>3. ASSUME NEW i \in DOMAIN r, NEW j \in DOMAIN r, i # j  PROVE Range(r[i]) \cap Range(r[j]) = {}
    <3>1. CASE i \in DOMAIN p /\ j \in DOMAIN p  BY <1>4, <1>8, <2>3, <3>1 DEF Apart
    <3>2. CASE i \in DOMAIN p /\ j \notin DOMAIN p
      <4>1. r[i] = p[i] /\ j - Len(p) \in DOMAIN q /\ r[j] = q[j - Len(p)]  BY <1>6, <3>2, <1>4
      <4>. QED  BY <3>2, <4>1, <2>2
    <3>3. CASE i \notin DOMAIN p /\ j \in DOMAIN p
      <4>1. r[j] = p[j] /\ i - Len(p) \in DOMAIN q /\ r[i] = q[i - Len(p)]  BY <1>6, <3>3, <1>4
      <4>. QED  BY <3>3, <4>1, <2>2
    <3>4. CASE i \notin DOMAIN p /\ j \notin DOMAIN p
      <4>1. /\ i - Len(p) \in DOMAIN q /\ r[i] = q[i - Len(p)]
            /\ j - Len(p) \in DOMAIN q /\ r[j] = q[j - Len(p)]
        BY <1>6, <3>4
      <4>2. i - Len(p) # j - Len(p)  BY <1>1, <1>2, <1>3, <2>3
      <4>. QED  BY <1>8, <4>1, <4>2 DEF Apart
    <3>. QED  BY <3>1, <3>2, <3>3, <3>4
  <2>. QED  BY <2>1, <2>3 DEF Apart
<1>. QED  BY <1>3, <1>7, <1>8

(* One list more.                                                          *)
LEMMA AppendWithin ==
  ASSUME NEW S, NEW ss \in Seq(Seq(S)), NEW t \in Seq(S)
  PROVE  /\ Within(Append(ss, t)) = Within(ss) \cup Range(t)
         /\ Apart(Append(ss, t)) => Apart(ss) /\ IsInjective(t) /\ Within(ss) \cap Range(t) = {}
<1>1. PICK r : r = Append(ss, t)  OBVIOUS
<1>2. /\ Len(ss) \in Nat /\ DOMAIN ss = 1..Len(ss) /\ DOMAIN r = 1..(Len(ss) + 1)
      /\ r[Len(ss) + 1] = t /\ \A i \in DOMAIN ss : r[i] = ss[i]
  BY <1>1, AppendProperties, LenProperties
<1>3. \A i : i \in DOMAIN r <=> i \in DOMAIN ss \/ i = Len(ss) + 1  BY <1>2
<1>4. Within(r) = Within(ss) \cup Range(t)
  <2>1. \A x : x \in Within(r) <=> \E i \in DOMAIN r : x \in Range(r[i])  BY DEF Within
  <2>2. \A x : x \in Within(ss) <=> \E i \in DOMAIN ss : x \in Range(ss[i])  BY DEF Within
  <2>. QED  BY <1>2, <1>3, <2>1, <2>2
<1>5. ASSUME Apart(r)  PROVE Apart(ss) /\ IsInjective(t) /\ Within(ss) \cap Range(t) = {}
  <2>1. Apart(ss)  BY <1>2, <1>3, <1>5 DEF Apart
  <2>2. IsInjective(t)  BY <1>2, <1>3, <1>5 DEF Apart
  <2>3. ASSUME NEW i \in DOMAIN ss  PROVE Range(ss[i]) \cap Range(t) = {}
    <3>1. i # Len(ss) + 1  BY <1>2
    <3>2. i \in DOMAIN r /\ Len(ss) + 1 \in DOMAIN r  BY <1>3
    <3>. QED  BY <1>2, <1>5, <3>1, <3>2 DEF Apart
  <2>. QED  BY <2>1, <2>2, <2>3 DEF Within
<1>. QED  BY <1>1, <1>4, <1>5

(* The flattened list has what the lists have, and once what is only once  *)
(* in them.                                                                *)
LEMMA FlattenShows ==
  ASSUME NEW S
  PROVE  \A ss \in Seq(Seq(S)) : /\ Range(FlattenSeq(ss)) = Within(ss)
                                 /\ Apart(ss) => IsInjective(FlattenSeq(ss))
<1>. DEFINE P == {ss \in Seq(Seq(S)) : /\ Range(FlattenSeq(ss)) = Within(ss)
                                       /\ Apart(ss) => IsInjective(FlattenSeq(ss))}
<1>1. <<>> \in P
  <2>1. <<>> \in Seq(Seq(S))  OBVIOUS
  <2>2. Range(<<>>) = {} /\ Within(<<>>) = {} /\ IsInjective(<<>>)  BY DEF Range, Within, IsInjective
  <2>. QED  BY <2>1, <2>2, FlattenEmpty
<1>2. ASSUME NEW ss \in Seq(Seq(S)), NEW t \in Seq(S), ss \in P  PROVE Append(ss, t) \in P
  <2>1. Append(ss, t) \in Seq(Seq(S))  OBVIOUS
  <2>2. FlattenSeq(Append(ss, t)) = FlattenSeq(ss) \o t /\ FlattenSeq(ss) \in Seq(S)
    BY FlattenAppend, FlattenType
  <2>3. PICK f \in Seq(S) : f = FlattenSeq(ss)  BY <2>2
  <2>4. /\ Range(f \o t) = Range(f) \cup Range(t)
        /\ IsInjective(f) /\ IsInjective(t) /\ Range(f) \cap Range(t) = {} => IsInjective(f \o t)
    BY ConcatShows
  <2>5. Range(f) = Within(ss) /\ (Apart(ss) => IsInjective(f))  BY <1>2, <2>3
  <2>6. /\ Within(Append(ss, t)) = Within(ss) \cup Range(t)
        /\ Apart(Append(ss, t)) => Apart(ss) /\ IsInjective(t) /\ Within(ss) \cap Range(t) = {}
    BY AppendWithin
  <2>. QED  BY <2>1, <2>2, <2>3, <2>4, <2>5, <2>6
<1>. HIDE DEF P
<1>3. \A ss \in Seq(Seq(S)) : ss \in P  BY <1>1, <1>2, ListSetInduction
<1>. QED  BY <1>3 DEF P

(* Lists of lists of lists: flattened once, the lists in them are apart    *)
(* when they are so in each, and no two have anything in common.           *)
LEMMA FlattenApart ==
  ASSUME NEW S
  PROVE  \A sss \in Seq(Seq(Seq(S))) :
           /\ FlattenSeq(sss) \in Seq(Seq(S))
           /\ Within(FlattenSeq(sss)) = UNION {Within(sss[i]) : i \in DOMAIN sss}
           /\ /\ \A i \in DOMAIN sss : Apart(sss[i])
              /\ \A i, j \in DOMAIN sss : i # j => Within(sss[i]) \cap Within(sss[j]) = {}
              => Apart(FlattenSeq(sss))
<1>. DEFINE Good(sss) == /\ \A i \in DOMAIN sss : Apart(sss[i])
                         /\ \A i, j \in DOMAIN sss : i # j => Within(sss[i]) \cap Within(sss[j]) = {}
            Whole(sss) == UNION {Within(sss[i]) : i \in DOMAIN sss}
            P == {sss \in Seq(Seq(Seq(S))) : /\ Within(FlattenSeq(sss)) = Whole(sss)
                                             /\ Good(sss) => Apart(FlattenSeq(sss))}
<1>1. <<>> \in P
  <2>1. <<>> \in Seq(Seq(Seq(S))) /\ DOMAIN <<>> = {}  OBVIOUS
  <2>2. Within(<<>>) = {} /\ Apart(<<>>) /\ Whole(<<>>) = {}  BY DEF Within, Apart
  <2>. QED  BY <2>1, <2>2, FlattenEmpty
<1>2. ASSUME NEW sss \in Seq(Seq(Seq(S))), NEW tt \in Seq(Seq(S)), sss \in P  PROVE Append(sss, tt) \in P
  <2>1. Append(sss, tt) \in Seq(Seq(Seq(S)))  OBVIOUS
  <2>2. FlattenSeq(Append(sss, tt)) = FlattenSeq(sss) \o tt /\ FlattenSeq(sss) \in Seq(Seq(S))
    BY FlattenAppend, FlattenType
  <2>3. PICK f \in Seq(Seq(S)) : f = FlattenSeq(sss)  BY <2>2
  <2>4. /\ Within(f \o tt) = Within(f) \cup Within(tt)
        /\ Apart(f) /\ Apart(tt) /\ Within(f) \cap Within(tt) = {} => Apart(f \o tt)
    BY ConcatWithin
  <2>5. Within(f) = Whole(sss) /\ (Good(sss) => Apart(f))  BY <1>2, <2>3
  <2>6. PICK r : r = Append(sss, tt)  OBVIOUS
  <2>7. /\ Len(sss) \in Nat /\ DOMAIN sss = 1..Len(sss) /\ DOMAIN r = 1..(Len(sss) + 1)
        /\ r[Len(sss) + 1] = tt /\ \A i \in DOMAIN sss : r[i] = sss[i]
    BY <2>6, AppendProperties, LenProperties
  <2>8. \A i : i \in DOMAIN r <=> i \in DOMAIN sss \/ i = Len(sss) + 1  BY <2>7
  <2>9. Whole(r) = Whole(sss) \cup Within(tt)
    <3>1. \A x : x \in Whole(r) <=> \E i \in DOMAIN r : x \in Within(r[i])  OBVIOUS
    <3>2. \A x : x \in Whole(sss) <=> \E i \in DOMAIN sss : x \in Within(sss[i])  OBVIOUS
    <3>. HIDE DEF Whole
    <3>. QED  BY <2>7, <2>8, <3>1, <3>2
  <2>10. ASSUME Good(r)  PROVE Good(sss) /\ Apart(tt) /\ Whole(sss) \cap Within(tt) = {}
    <3>1. Good(sss)  BY <2>7, <2>8, <2>10
    <3>2. Apart(tt)  BY <2>7, <2>8, <2>10
    <3>3. ASSUME NEW i \in DOMAIN sss  PROVE Within(sss[i]) \cap Within(tt) = {}
      <4>1. i # Len(sss) + 1  BY <2>7
      <4>2. i \in DOMAIN r /\ Len(sss) + 1 \in DOMAIN r  BY <2>8
      <4>. QED  BY <2>7, <2>10, <4>1, <4>2
    <3>4. Whole(sss) \cap Within(tt) = {}  BY <3>3
    <3>. QED  BY <3>1, <3>2, <3>4
  <2>. HIDE DEF Good, Whole
  <2>. QED  BY <2>1, <2>2, <2>3, <2>4, <2>5, <2>6, <2>9, <2>10
<1>. HIDE DEF P
<1>3. \A sss \in Seq(Seq(Seq(S))) : sss \in P  BY <1>1, <1>2, ListSetInduction
<1>4. \A sss \in Seq(Seq(Seq(S))) : FlattenSeq(sss) \in Seq(Seq(S))  BY FlattenType
<1>. QED  BY <1>3, <1>4 DEF P

----------------------------------------------------------------------------
(* Pick.                                                                   *)

(* The elements at the positions, and each once if it is at one of them.   *)
LEMMA PickShows ==
  ASSUME NEW S, NEW s \in Seq(S), NEW I
  PROVE  /\ Pick(s, I) \in Seq(S)
         /\ Range(Pick(s, I)) = {s[i] : i \in (DOMAIN s) \cap I}
         /\ (\A i, j \in (DOMAIN s) \cap I : s[i] = s[j] => i = j) => IsInjective(Pick(s, I))
<1>1. PICK ss : ss = [i \in DOMAIN s |-> IF i \in I THEN <<s[i]>> ELSE <<>>]  OBVIOUS
<1>2. DOMAIN s = 1..Len(s) /\ Len(s) \in Nat /\ \A i \in DOMAIN s : s[i] \in S  BY LenProperties, ElementOfSeq
<1>3. \A i \in DOMAIN s : ss[i] \in Seq(S)  BY <1>1, <1>2
<1>4. ss \in Seq(Seq(S)) /\ DOMAIN ss = DOMAIN s  BY <1>1, <1>2, <1>3
<1>5. FlattenSeq(ss) = Pick(s, I)  BY <1>1 DEF Pick
<1>6. \A i \in DOMAIN s : /\ IsInjective(ss[i])
                          /\ i \in I => Range(ss[i]) = {s[i]}
                          /\ i \notin I => Range(ss[i]) = {}
  <2>1. \A x : IsInjective(<<x>>) /\ Range(<<x>>) = {x}  BY DEF IsInjective, Range
  <2>2. IsInjective(<<>>) /\ Range(<<>>) = {}  BY DEF IsInjective, Range
  <2>. QED  BY <1>1, <2>1, <2>2
<1>7. Within(ss) = {s[i] : i \in (DOMAIN s) \cap I}
  <2>1. \A x : x \in Within(ss) <=> \E i \in DOMAIN s : x \in Range(ss[i])  BY <1>4 DEF Within
  <2>2. \A x, i : i \in DOMAIN s => (x \in Range(ss[i]) <=> i \in I /\ x = s[i])  BY <1>6
  <2>3. \A x : x \in Within(ss) <=> \E i \in (DOMAIN s) \cap I : x = s[i]  BY <2>1, <2>2
  <2>. QED  BY <2>3
<1>8. ASSUME \A i, j \in (DOMAIN s) \cap I : s[i] = s[j] => i = j  PROVE Apart(ss)
  <2>1. ASSUME NEW i \in DOMAIN s, NEW j \in DOMAIN s, i # j  PROVE Range(ss[i]) \cap Range(ss[j]) = {}
    <3>1. CASE i \in I /\ j \in I
      <4>1. s[i] # s[j]  BY <1>8, <2>1, <3>1
      <4>. QED  BY <1>6, <3>1, <4>1
    <3>2. CASE i \notin I \/ j \notin I  BY <1>6, <3>2
    <3>. QED  BY <3>1, <3>2
  <2>2. \A i \in DOMAIN ss : IsInjective(ss[i])  BY <1>4, <1>6
  <2>3. \A i, j \in DOMAIN ss : i # j => Range(ss[i]) \cap Range(ss[j]) = {}  BY <1>4, <2>1
  <2>. QED  BY <2>2, <2>3 DEF Apart
<1>9. FlattenSeq(ss) \in Seq(S)  BY <1>4, FlattenType
<1>10. Range(FlattenSeq(ss)) = Within(ss) /\ (Apart(ss) => IsInjective(FlattenSeq(ss)))  BY <1>4, FlattenShows
<1>. QED  BY <1>5, <1>7, <1>8, <1>9, <1>10

(* A filter keeps what is in the set, and each once.                       *)
LEMMA FilterShows ==
  ASSUME NEW S, NEW s \in Seq(S), NEW T
  PROVE  /\ FilterBy(s, T) \in Seq(S)
         /\ Range(FilterBy(s, T)) = Range(s) \cap T
         /\ IsInjective(s) => IsInjective(FilterBy(s, T))
<1>1. PICK I : I = {i \in DOMAIN s : s[i] \in T}  OBVIOUS
<1>2. FilterBy(s, T) = Pick(s, I)  BY <1>1 DEF FilterBy
<1>3. {s[i] : i \in (DOMAIN s) \cap I} = Range(s) \cap T  BY <1>1 DEF Range
<1>4. IsInjective(s) => \A i, j \in (DOMAIN s) \cap I : s[i] = s[j] => i = j  BY DEF IsInjective
<1>. QED  BY <1>2, <1>3, <1>4, PickShows

(* A list over a set is one over a larger set.                             *)
LEMMA SeqWidens ==
  ASSUME NEW S, NEW T, S \subseteq T, NEW s \in Seq(S)
  PROVE  s \in Seq(T)
<1>1. DOMAIN s = 1..Len(s) /\ Len(s) \in Nat /\ \A i \in 1..Len(s) : s[i] \in T  BY LenProperties, ElementOfSeq
<1>2. s = [i \in 1..Len(s) |-> s[i]]  BY <1>1
<1>. QED  BY <1>1, <1>2

(* Of the places with one key there is a first.                            *)
FirstAt(key, j) == \A k \in 1..(j - 1) : key[k] # key[j]

LEMMA FirstWithKey ==
  ASSUME NEW n \in Nat, NEW key
  PROVE  \A i \in 1..n : \E j \in 1..n : key[j] = key[i] /\ FirstAt(key, j)
<1>. DEFINE N == {m \in Nat : \A h \in 1..n : h <= m => \E j \in 1..n : key[j] = key[h] /\ FirstAt(key, j)}
<1>1. 0 \in N  OBVIOUS
<1>2. ASSUME NEW m \in Nat, m \in N  PROVE m + 1 \in N
  <2>1. ASSUME NEW h \in 1..n, h <= m + 1  PROVE \E j \in 1..n : key[j] = key[h] /\ FirstAt(key, j)
    <3>1. CASE FirstAt(key, h)  BY <3>1
    <3>2. CASE ~FirstAt(key, h)
      <4>1. PICK k \in 1..(h - 1) : key[k] = key[h]  BY <3>2 DEF FirstAt
      <4>2. k \in 1..n /\ k <= m  BY <2>1
      <4>. QED  BY <1>2, <4>1, <4>2
    <3>. QED  BY <3>1, <3>2
  <2>. QED  BY <2>1
<1>3. \A m \in Nat : m \in N
  <2>. HIDE DEF N
  <2>. QED  BY <1>1, <1>2, NatSetInduction
<1>. QED  BY <1>3

(* What is left of a list has an element of each key of the list.          *)
LEMMA UniqShows ==
  ASSUME NEW S, NEW s \in Seq(S), NEW key
  PROVE  /\ UniqBy(s, key) \in Seq(S)
         /\ Range(UniqBy(s, key)) \subseteq Range(s)
         /\ \A i \in DOMAIN s : \E j \in DOMAIN s : key[j] = key[i] /\ s[j] \in Range(UniqBy(s, key))
<1>1. PICK I : I = {i \in DOMAIN s : \A j \in 1..(i - 1) : key[j] # key[i]}  OBVIOUS
<1>2. UniqBy(s, key) = Pick(s, I)  BY <1>1 DEF UniqBy
<1>3. PICK q : q = UniqBy(s, key)  OBVIOUS
<1>4. q \in Seq(S) /\ Range(q) = {s[i] : i \in (DOMAIN s) \cap I}  BY <1>2, <1>3, PickShows
<1>5. DOMAIN s = 1..Len(s) /\ Len(s) \in Nat  BY LenProperties
<1>6. ASSUME NEW i \in DOMAIN s  PROVE \E j \in DOMAIN s : key[j] = key[i] /\ s[j] \in Range(q)
  <2>1. PICK j \in 1..Len(s) : key[j] = key[i] /\ FirstAt(key, j)  BY <1>5, FirstWithKey
  <2>2. j \in (DOMAIN s) \cap I  BY <1>1, <1>5, <2>1 DEF FirstAt
  <2>. QED  BY <1>4, <2>1, <2>2
<1>7. Range(q) \subseteq Range(s)  BY <1>4 DEF Range
<1>. QED  BY <1>3, <1>4, <1>6, <1>7

(* The list of a set has what the set has.                                 *)
LEMMA SetToSeqShows ==
  ASSUME NEW S, IsFiniteSet(S)
  PROVE  SetToSeq(S) \in Seq(S) /\ Range(SetToSeq(S)) = S
<1>1. PICK n \in Nat : n = Cardinality(S)  BY FS_CardinalityType
<1>2. \E f \in [1..n -> S] : IsInjective(f)
  <2>1. ExistsBijection(1..n, S)  BY <1>1, FS_CardinalityType
  <2>2. PICK f : f \in Bijection(1..n, S)  BY <2>1 DEF ExistsBijection
  <2>3. f \in [1..n -> S] /\ DOMAIN f = 1..n /\ \A i, j \in 1..n : f[i] = f[j] => i = j
    BY <2>2 DEF Bijection, Injection, IsInjective
  <2>. QED  BY <2>3 DEF IsInjective
<1>3. SetToSeq(S) \in [1..n -> S] /\ IsInjective(SetToSeq(S))  BY <1>1, <1>2 DEF SetToSeq
<1>4. PICK f \in [1..n -> S] : f = SetToSeq(S)  BY <1>3
<1>5. f \in Injection(1..n, S)  BY <1>3, <1>4 DEF Injection, IsInjective
<1>6. Cardinality(1..n) = n  BY <1>1, FS_Interval
<1>7. f \in Surjection(1..n, S)  BY <1>1, <1>5, <1>6, FS_Injection
<1>8. Range(f) = S  BY <1>7 DEF Surjection, Range
<1>9. f \in Seq(S)  BY <1>1, <1>4
<1>. QED  BY <1>4, <1>8, <1>9

(* Sorting shows what there was, whatever the keys, as long as they are    *)
(* numbers.                                                                *)
LEMMA DescendingShows ==
  ASSUME NEW S, NEW s \in Seq(S), NEW key, \A i \in DOMAIN s : key[i] \in Nat
  PROVE  /\ Descending(s, key) \in Seq(S)
         /\ Range(Descending(s, key)) = Range(s)
         /\ IsInjective(s) => IsInjective(Descending(s, key))
<1>1. PICK n \in Nat : n = Len(s) /\ DOMAIN s = 1..n  BY LenProperties
<1>2. \A i \in 1..n : s[i] \in S /\ key[i] \in Nat  BY <1>1, ElementOfSeq
<1>3. PICK R : R = {p \in (1..n) \X (1..n) : key[p[1]] > key[p[2]] \/ (key[p[1]] = key[p[2]] /\ p[1] < p[2])}
  OBVIOUS
<1>4. \A i, j \in 1..n : <<j, i>> \in R <=> (key[j] > key[i] \/ (key[j] = key[i] /\ j < i))  BY <1>3
<1>5. IsOrder(R, 1..n)
  <2>1. \A i \in 1..n : <<i, i>> \notin R  BY <1>2, <1>4
  <2>2. \A i, j, k \in 1..n : <<i, j>> \in R /\ <<j, k>> \in R => <<i, k>> \in R  BY <1>2, <1>4
  <2>3. ASSUME NEW i \in 1..n, NEW j \in 1..n  PROVE i = j \/ <<i, j>> \in R \/ <<j, i>> \in R
    <3>1. /\ <<j, i>> \in R <=> (key[j] > key[i] \/ (key[j] = key[i] /\ j < i))
          /\ <<i, j>> \in R <=> (key[i] > key[j] \/ (key[i] = key[j] /\ i < j))
      BY <1>4
    <3>2. PICK a \in Nat, b \in Nat : a = key[i] /\ b = key[j]  BY <1>2
    <3>3. (a > b \/ b > a \/ a = b) /\ (i = j \/ i < j \/ j < i)  OBVIOUS
    <3>. QED  BY <3>1, <3>2, <3>3
  <2>. QED  BY <2>1, <2>2, <2>3 DEF IsOrder
<1>6. IsFiniteSet(1..n) /\ Cardinality(1..n) = n
  <2>1. 1 \in Int /\ n \in Int  OBVIOUS
  <2>2. IsFiniteSet(1..n) /\ Cardinality(1..n) = IF 1 > n THEN 0 ELSE n - 1 + 1  BY <2>1, FS_Interval
  <2>. QED  BY <2>2
<1>7. PICK I : I = 1..n  OBVIOUS
<1>8. PICK p : p = [k \in I |-> CHOOSE i \in I : Place(R, I, i) = k - 1]  OBVIOUS
<1>9. \A k \in I : p[k] \in I /\ Place(R, I, p[k]) = k - 1
  <2>1. ASSUME NEW k \in I  PROVE p[k] \in I /\ Place(R, I, p[k]) = k - 1
    <3>1. k - 1 \in 0..(Cardinality(I) - 1)  BY <1>6, <1>7
    <3>2. \E i \in I : Place(R, I, i) = k - 1  BY <1>5, <1>6, <1>7, <3>1, PlaceTaken
    <3>. QED  BY <1>8, <3>2
  <2>. QED  BY <2>1
<1>10. ASSUME NEW i \in I  PROVE \E k \in I : p[k] = i
  <2>1. Place(R, I, i) \in Nat /\ Place(R, I, i) < n  BY <1>5, <1>6, <1>7, PlaceType
  <2>0. PICK m \in Nat : m = Place(R, I, i) /\ m < n  BY <2>1
  <2>2. PICK k \in I : k - 1 = Place(R, I, i)
    <3>1. m + 1 \in I /\ (m + 1) - 1 = m  BY <1>7, <2>0
    <3>. QED  BY <2>0, <3>1
  <2>3. p[k] \in I /\ Place(R, I, p[k]) = Place(R, I, i)  BY <1>9, <2>2
  <2>. QED  BY <1>5, <1>6, <1>7, <2>3, PlaceOne
<1>11. PICK d : d = Descending(s, key)  OBVIOUS
<1>12. d = [k \in I |-> s[p[k]]]
  <2>1. ASSUME NEW i \in I
        PROVE  Cardinality({j \in I : key[j] > key[i] \/ (key[j] = key[i] /\ j < i)}) = Place(R, I, i)
    <3>1. {j \in I : key[j] > key[i] \/ (key[j] = key[i] /\ j < i)} = Ahead(R, I, i)
      BY <1>4, <1>7 DEF Ahead
    <3>. QED  BY <3>1 DEF Place
  <2>. DEFINE At(k) == CHOOSE i \in I : Cardinality({j \in I : key[j] > key[i] \/ (key[j] = key[i] /\ j < i)}) = k - 1
  <2>2. d = [k \in I |-> s[At(k)]]  BY <1>1, <1>7, <1>11 DEF Descending
  <2>3. ASSUME NEW k \in I  PROVE At(k) = p[k]
    <3>1. At(k) = CHOOSE i \in I : Place(R, I, i) = k - 1  BY <2>1
    <3>. QED  BY <1>8, <3>1
  <2>. HIDE DEF At
  <2>. QED  BY <2>2, <2>3
<1>13. d \in Seq(S)  BY <1>2, <1>7, <1>9, <1>12
<1>14. Range(d) = Range(s)
  <2>1. \A x : x \in Range(d) <=> \E k \in I : x = s[p[k]]  BY <1>12 DEF Range
  <2>2. \A x : x \in Range(s) <=> \E i \in I : x = s[i]  BY <1>1, <1>7 DEF Range
  <2>. QED  BY <1>9, <1>10, <2>1, <2>2
<1>15. ASSUME IsInjective(s)  PROVE IsInjective(d)
  <2>1. \A k, l \in I : s[p[k]] = s[p[l]] => p[k] = p[l]  BY <1>1, <1>7, <1>9, <1>15 DEF IsInjective
  <2>2. \A k, l \in I : p[k] = p[l] => k - 1 = l - 1  BY <1>9
  <2>3. \A k, l \in I : k - 1 = l - 1 => k = l  BY <1>7
  <2>4. \A k, l \in I : d[k] = d[l] => k = l  BY <1>12, <2>1, <2>2, <2>3
  <2>. QED  BY <1>12, <2>4 DEF IsInjective
<1>. QED  BY <1>11, <1>13, <1>14, <1>15

(* Of the elements of a list, each is left once.                           *)
LEMMA UniqIsInjective ==
  ASSUME NEW S, NEW s \in Seq(S)
  PROVE  IsInjective(UniqBy(s, s))
<1>1. PICK I : I = {i \in DOMAIN s : \A j \in 1..(i - 1) : s[j] # s[i]}  OBVIOUS
<1>2. DOMAIN s = 1..Len(s) /\ Len(s) \in Nat  BY LenProperties
<1>3. ASSUME NEW i \in I, NEW j \in I, s[i] = s[j]  PROVE ~(i < j)
  <2>1. i \in 1..Len(s) /\ j \in 1..Len(s)  BY <1>1, <1>2
  <2>2. i < j => i \in 1..(j - 1)  BY <2>1, <1>2
  <2>. QED  BY <1>1, <1>3, <2>2
<1>4. \A i, j \in I : s[i] = s[j] => i = j
  <2>1. \A i \in I : i \in Nat  BY <1>1, <1>2
  <2>. QED  BY <1>3, <2>1
<1>5. UniqBy(s, s) = Pick(s, I)  BY <1>1 DEF UniqBy
<1>. QED  BY <1>4, <1>5, PickShows

(* A selection of lists that are apart is apart.                           *)
LEMMA SelectionApart ==
  ASSUME NEW ss, Apart(ss), NEW q, IsInjective(q), Range(q) \subseteq Range(ss)
  PROVE  Apart(q) /\ Within(q) = UNION {Range(x) : x \in Range(q)}
<1>1. \A k \in DOMAIN q : \E i \in DOMAIN ss : q[k] = ss[i]  BY DEF Range
<1>2. \A k \in DOMAIN q : IsInjective(q[k])  BY <1>1 DEF Apart
<1>3. ASSUME NEW k \in DOMAIN q, NEW l \in DOMAIN q, k # l  PROVE Range(q[k]) \cap Range(q[l]) = {}
  <2>1. PICK i \in DOMAIN ss : q[k] = ss[i]  BY <1>1
  <2>2. PICK j \in DOMAIN ss : q[l] = ss[j]  BY <1>1
  <2>3. i # j  BY <1>3, <2>1, <2>2 DEF IsInjective
  <2>. QED  BY <2>1, <2>2, <2>3 DEF Apart
<1>4. Within(q) = UNION {Range(x) : x \in Range(q)}  BY DEF Within, Range
<1>. QED  BY <1>2, <1>3, <1>4 DEF Apart

(* A list whose elements stand as an order wants them, and the order in    *)
(* which a list has its elements.                                          *)
Increasing(R, s) == \A i, j \in DOMAIN s : i < j => <<s[i], s[j]>> \in R
OrderOf(s) == {p \in Range(s) \X Range(s) : \E i, j \in DOMAIN s : i < j /\ s[i] = p[1] /\ s[j] = p[2]}

\* A list in which no element is twice has its elements in an order.
LEMMA OrderShows ==
  ASSUME NEW S, NEW s \in Seq(S), IsInjective(s)
  PROVE  IsOrder(OrderOf(s), Range(s)) /\ Increasing(OrderOf(s), s) /\ IsFiniteSet(Range(s))
<1>1. PICK n \in Nat : n = Len(s) /\ DOMAIN s = 1..n  BY LenProperties
<1>2. PICK R : R = OrderOf(s)  OBVIOUS
<1>3. \A i \in 1..n : s[i] \in Range(s)  BY <1>1 DEF Range
<1>4. \A i, j \in 1..n : s[i] = s[j] => i = j  BY <1>1 DEF IsInjective
<1>5. \A x \in Range(s) : \E i \in 1..n : s[i] = x  BY <1>1 DEF Range
<1>6. \A i, j \in 1..n : <<s[i], s[j]>> \in R <=> i < j
  <2>1. ASSUME NEW i \in 1..n, NEW j \in 1..n, <<s[i], s[j]>> \in R  PROVE i < j
    <3>1. PICK k \in 1..n, l \in 1..n : k < l /\ s[k] = s[i] /\ s[l] = s[j]  BY <1>1, <1>2, <2>1 DEF OrderOf
    <3>2. k = i /\ l = j  BY <1>4, <3>1
    <3>. QED  BY <3>1, <3>2
  <2>2. ASSUME NEW i \in 1..n, NEW j \in 1..n, i < j  PROVE <<s[i], s[j]>> \in R
    BY <1>1, <1>2, <1>3, <2>2 DEF OrderOf
  <2>. QED  BY <2>1, <2>2
<1>7. Increasing(R, s)  BY <1>1, <1>6 DEF Increasing
<1>8. IsOrder(R, Range(s))
  <2>1. ASSUME NEW x \in Range(s)  PROVE <<x, x>> \notin R
    <3>1. PICK i \in 1..n : s[i] = x  BY <1>5
    <3>. QED  BY <1>6, <3>1
  <2>2. ASSUME NEW x \in Range(s), NEW y \in Range(s), NEW z \in Range(s), <<x, y>> \in R, <<y, z>> \in R
        PROVE  <<x, z>> \in R
    <3>1. PICK i \in 1..n, j \in 1..n, k \in 1..n : s[i] = x /\ s[j] = y /\ s[k] = z  BY <1>5
    <3>2. i < j /\ j < k  BY <1>6, <2>2, <3>1
    <3>3. i < k  BY <3>2
    <3>. QED  BY <1>6, <3>1, <3>3
  <2>3. ASSUME NEW x \in Range(s), NEW y \in Range(s)  PROVE x = y \/ <<x, y>> \in R \/ <<y, x>> \in R
    <3>1. PICK i \in 1..n, j \in 1..n : s[i] = x /\ s[j] = y  BY <1>5
    <3>2. i = j \/ i < j \/ j < i  OBVIOUS
    <3>. QED  BY <1>6, <3>1, <3>2
  <2>. QED  BY <2>1, <2>2, <2>3 DEF IsOrder
<1>9. IsFiniteSet(Range(s))
  <2>1. IsFiniteSet(1..n)  BY FS_Interval
  <2>2. s \in Surjection(1..n, Range(s))
    <3>1. s \in [1..n -> Range(s)]  BY <1>1, <1>3
    <3>. QED  BY <1>5, <3>1 DEF Surjection
  <2>. QED  BY <2>1, <2>2, FS_Surjection
<1>. QED  BY <1>2, <1>7, <1>8, <1>9

(* What is left of an ordered list is in that order.                       *)
LEMMA FilterSorted ==
  ASSUME NEW R, NEW U, IsOrder(R, U), NEW T
  PROVE  \A s \in Seq(U) : Increasing(R, s) =>
           IsFiniteSet(Range(s) \cap T) /\ Sorted(R, Range(s) \cap T, FilterBy(s, T))
<1>. DEFINE Good(s) == IsFiniteSet(Range(s) \cap T) /\ Sorted(R, Range(s) \cap T, FilterBy(s, T))
            P == {s \in Seq(U) : Increasing(R, s) => Good(s)}
<1>1. <<>> \in P
  <2>1. Range(<<>>) = {} /\ <<>> \in Seq(U)  BY DEF Range
  <2>2. FilterBy(<<>>, T) = <<>>
    <3>1. PICK e : e = <<>>  OBVIOUS
    <3>2. DOMAIN e = {} /\ [i \in DOMAIN e |-> IF i \in {k \in DOMAIN e : e[k] \in T} THEN <<e[i]>> ELSE <<>>] = <<>>
      BY <3>1
    <3>3. FilterBy(e, T) = FlattenSeq(<<>>)  BY <3>2 DEF FilterBy, Pick
    <3>. QED  BY <3>1, <3>3, FlattenEmpty
  <2>3. Sorted(R, {}, <<>>)
    <3>1. Cardinality({}) = 0  BY FS_EmptySet
    <3>. QED  BY <3>1 DEF Sorted
  <2>4. IsFiniteSet({})  BY FS_EmptySet
  <2>. QED  BY <2>1, <2>2, <2>3, <2>4
<1>2. ASSUME NEW s \in Seq(U), NEW x \in U, s \in P  PROVE Append(s, x) \in P
  <2>1. PICK n \in Nat : n = Len(s) /\ DOMAIN s = 1..n  BY LenProperties
  <2>2. PICK t : t = Append(s, x)  OBVIOUS
  <2>3. /\ t \in Seq(U) /\ Len(t) = n + 1 /\ DOMAIN t = 1..(n + 1) /\ t[n + 1] = x
        /\ \A i \in 1..n : t[i] = s[i]
    BY <2>1, <2>2, AppendProperties
  <2>4. SUFFICES ASSUME Increasing(R, t)  PROVE Good(t)  BY <2>2, <2>3
  <2>5. Increasing(R, s)  BY <2>1, <2>3, <2>4 DEF Increasing
  <2>6. IsFiniteSet(Range(s) \cap T) /\ Sorted(R, Range(s) \cap T, FilterBy(s, T))  BY <1>2, <2>5
  <2>7. Range(t) = Range(s) \cup {x}
    <3>1. \A y : y \in Range(t) <=> \E i \in 1..(n + 1) : t[i] = y  BY <2>3 DEF Range
    <3>2. \A y : y \in Range(s) <=> \E i \in 1..n : s[i] = y  BY <2>1 DEF Range
    <3>3. \A i \in 1..(n + 1) : i \in 1..n \/ i = n + 1  OBVIOUS
    <3>4. n + 1 \in 1..(n + 1) /\ \A i \in 1..n : i \in 1..(n + 1)  OBVIOUS
    <3>5. \A y : y \in Range(t) <=> y \in Range(s) \/ y = x  BY <2>3, <3>1, <3>2, <3>3, <3>4
    <3>. QED  BY <3>5
  <2>8. Range(s) \subseteq U  BY <2>1, ElementOfSeq DEF Range
  <2>9. \A y \in Range(s) : <<y, x>> \in R
    <3>1. \A i \in 1..n : i < n + 1 /\ i \in 1..(n + 1) /\ n + 1 \in 1..(n + 1)  OBVIOUS
    <3>2. \A i \in 1..n : <<s[i], x>> \in R  BY <2>3, <2>4, <3>1 DEF Increasing
    <3>. QED  BY <2>1, <3>2 DEF Range
  <2>10. PICK last : last = IF x \in T THEN <<x>> ELSE <<>>  OBVIOUS
  <2>11. FilterBy(t, T) = FilterBy(s, T) \o last
    <3>1. PICK ss : ss = [i \in 1..n |-> IF s[i] \in T THEN <<s[i]>> ELSE <<>>]  OBVIOUS
    <3>2. \A i \in 1..n : s[i] \in U  BY <2>1, ElementOfSeq
    <3>3. ss \in Seq(Seq(U)) /\ Len(ss) = n  BY <3>1, <3>2
    <3>4. last \in Seq(U)  BY <2>10
    <3>5. FilterBy(s, T) = FlattenSeq(ss)
      <4>1. [i \in DOMAIN s |-> IF i \in {k \in DOMAIN s : s[k] \in T} THEN <<s[i]>> ELSE <<>>] = ss
        BY <2>1, <3>1
      <4>. QED  BY <4>1 DEF FilterBy, Pick
    <3>6. FilterBy(t, T) = FlattenSeq(Append(ss, last))
      <4>1. PICK tt : tt = [i \in 1..(n + 1) |-> IF t[i] \in T THEN <<t[i]>> ELSE <<>>]  OBVIOUS
      <4>2. [i \in DOMAIN t |-> IF i \in {k \in DOMAIN t : t[k] \in T} THEN <<t[i]>> ELSE <<>>] = tt
        BY <2>3, <4>1
      <4>3. FilterBy(t, T) = FlattenSeq(tt)  BY <4>2 DEF FilterBy, Pick
      <4>4. \A i \in 1..(n + 1) : t[i] \in U  BY <2>3, ElementOfSeq
      <4>5. tt \in Seq(Seq(U)) /\ Len(tt) = n + 1  BY <4>1, <4>4
      <4>6. Append(ss, last) \in Seq(Seq(U)) /\ Len(Append(ss, last)) = n + 1  BY <3>3, <3>4
      <4>7. ASSUME NEW i \in 1..(n + 1)  PROVE tt[i] = Append(ss, last)[i]
        <5>1. CASE i \in 1..n
          <6>1. Append(ss, last)[i] = ss[i]  BY <3>3, <3>4, <5>1, AppendProperties
          <6>. QED  BY <2>3, <3>1, <4>1, <5>1, <6>1
        <5>2. CASE i = n + 1
          <6>1. Append(ss, last)[n + 1] = last  BY <3>3, <3>4, AppendProperties
          <6>. QED  BY <2>3, <2>10, <4>1, <5>2, <6>1
        <5>3. i \in 1..n \/ i = n + 1  OBVIOUS
        <5>. QED  BY <5>1, <5>2, <5>3
      <4>8. tt = Append(ss, last)  BY <4>5, <4>6, <4>7, SeqEqual
      <4>. QED  BY <4>3, <4>8
    <3>. QED  BY <3>3, <3>4, <3>5, <3>6, FlattenAppend
  <2>12. CASE x \in T
    <3>1. PICK A, B : A = Range(s) \cap T /\ B = {x}  OBVIOUS
    <3>2. Range(t) \cap T = A \cup B  BY <2>7, <2>12, <3>1
    <3>3. IsFiniteSet(A) /\ IsFiniteSet(B)  BY <2>6, <3>1, FS_Singleton
    <3>4. IsFiniteSet(A \cup B)  BY <3>3, FS_Union
    <3>5. IsOrder(R, A \cup B)
      <4>1. A \cup B \subseteq U  BY <2>8, <3>1
      <4>. QED  BY <4>1 DEF IsOrder
    <3>6. \A a \in A, b \in B : <<a, b>> \in R  BY <2>9, <3>1
    <3>7. Sorted(R, B, <<x>>)
      <4>1. Ahead(R, B, x) = {}  BY <3>1 DEF Ahead, IsOrder
      <4>2. Place(R, B, x) = 0 /\ Cardinality(B) = 1  BY <4>1, <3>1, FS_EmptySet, FS_Singleton DEF Place
      <4>. QED  BY <4>2, <3>1 DEF Sorted
    <3>8. Sorted(R, A, FilterBy(s, T))  BY <2>6, <3>1
    <3>9. Sorted(R, A \cup B, FilterBy(s, T) \o <<x>>)  BY <3>3, <3>5, <3>6, <3>7, <3>8, SortedJoin
    <3>. QED  BY <2>10, <2>11, <2>12, <3>2, <3>4, <3>9
  <2>13. CASE x \notin T
    <3>1. Range(t) \cap T = Range(s) \cap T  BY <2>7, <2>13
    <3>2. FilterBy(s, T) \in Seq(U)  BY FilterShows
    <3>3. FilterBy(s, T) \o <<>> = FilterBy(s, T)  BY <3>2
    <3>. QED  BY <2>6, <2>10, <2>11, <2>13, <3>1, <3>3
  <2>. QED  BY <2>12, <2>13
<1>3. \A s \in Seq(U) : s \in P
  <2>. HIDE DEF P
  <2>. QED  BY <1>1, <1>2, ListSetInduction
<1>. QED  BY <1>3

(* Elements left of a list keep their order.                               *)
LEMMA FilterOrder ==
  ASSUME NEW S, NEW s \in Seq(S), IsInjective(s), NEW T, NEW x \in Range(s) \cap T, NEW y \in Range(s) \cap T,
         <<x, y>> \in OrderOf(s)
  PROVE  <<x, y>> \in OrderOf(FilterBy(s, T))
<1>1. PICK U, R, V : U = Range(s) /\ R = OrderOf(s) /\ V = U \cap T  OBVIOUS
<1>2. IsOrder(R, U) /\ Increasing(R, s) /\ IsFiniteSet(U)  BY <1>1, OrderShows
<1>3. s \in Seq(U)
  <2>1. DOMAIN s = 1..Len(s) /\ Len(s) \in Nat /\ \A i \in 1..Len(s) : s[i] \in U
    BY <1>1, LenProperties DEF Range
  <2>2. s = [i \in 1..Len(s) |-> s[i]]  BY <2>1
  <2>. QED  BY <2>1, <2>2
<1>4. PICK q : q = FilterBy(s, T)  OBVIOUS
<1>5. IsFiniteSet(V) /\ Sorted(R, V, q)  BY <1>1, <1>2, <1>3, <1>4, FilterSorted
<1>6. IsOrder(R, V)  BY <1>1, <1>2 DEF IsOrder
<1>7. PICK k, l : k = Place(R, V, x) /\ l = Place(R, V, y)  OBVIOUS
<1>8. k + 1 \in 1..Len(q) /\ q[k + 1] = x /\ l + 1 \in 1..Len(q) /\ q[l + 1] = y
  BY <1>1, <1>5, <1>6, <1>7, SortedShows
<1>9. k < l
  <2>1. V \in SUBSET V  OBVIOUS
  <2>. QED  BY <1>1, <1>5, <1>6, <1>7, <2>1, PlaceLess
<1>10. k \in Nat /\ l \in Nat  BY <1>5, <1>7, PlaceType
<1>11. k + 1 < l + 1  BY <1>9, <1>10
<1>12. DOMAIN q = 1..Len(q)
  <2>1. q \in Seq(V)  BY <1>5 DEF Sorted
  <2>. QED  BY <2>1, LenProperties
<1>13. x \in Range(q) /\ y \in Range(q)  BY <1>8, <1>12 DEF Range
<1>14. <<x, y>> \in OrderOf(q)  BY <1>8, <1>11, <1>12, <1>13 DEF OrderOf
<1>. QED  BY <1>4, <1>14

=============================================================================
