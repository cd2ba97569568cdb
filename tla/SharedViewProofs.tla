--------------------------- MODULE SharedViewProofs ---------------------------
(***************************************************************************)
(* Theorems about SharedView, for any tabs, workspaces and bounds.  The    *)
(* first part is about sequences and what the operators of PageState make  *)
(* of them, the second about the types of pages and of views on their way, *)
(* the third about panes that were put away, the last about the tabs that  *)
(* agree.                                                                  *)
(***************************************************************************)
EXTENDS SharedView, TLAPS, SequenceTheorems, FiniteSetTheorems, WellFoundedInduction

-----------------------------------------------------------------------------
(* Numbers and recursion *)

\* The order of the natural numbers, as a relation.
LEMMA OrderOfNat ==
    /\ IsWellFoundedOn({ss \in Nat \X Nat : ss[1] < ss[2]}, Nat)
    /\ \A x, y \in Nat : x < y => <<x, y>> \in {ss \in Nat \X Nat : ss[1] < ss[2]}
<1>1. IsWellFoundedOn({ss \in Nat \X Nat : ss[1] < ss[2]}, Nat)
  BY NatLessThanWellFounded DEF OpToRel
<1>2. ASSUME NEW x \in Nat, NEW y \in Nat, x < y
      PROVE  <<x, y>> \in {ss \in Nat \X Nat : ss[1] < ss[2]}
  BY <1>2
<1>3. QED
  BY <1>1, <1>2

\* A nonempty set of natural numbers has a smallest one.
LEMMA SmallestOf ==
    ASSUME NEW T, T \subseteq Nat, T # {}
    PROVE  \E x \in T : \A y \in T : x <= y
<1> DEFINE R == {ss \in Nat \X Nat : ss[1] < ss[2]}
<1>1. IsWellFoundedOn(R, Nat) /\ \A x, y \in Nat : x < y => <<x, y>> \in R
  BY OrderOfNat
<1> HIDE DEF R
<1>2. \E x \in T : \A y \in T : ~(<<y, x>> \in R)
  <2>1. IsWellFoundedOn(R, Nat)
    BY <1>1
  <2>2. QED
    BY <2>1, WFMin, Zenon
<1>3. PICK x \in T : \A y \in T : ~(<<y, x>> \in R)
  BY <1>2
<1>4. \A y \in T : ~(y < x)
  BY <1>1, <1>3
<1>5. QED
  BY <1>4

\* Numbers that contain 0, and with a number the next one, are all numbers up to n.
LEMMA Climb ==
    ASSUME NEW n \in Nat, NEW G, 0 \in G, \A i \in 1 .. n : i - 1 \in G => i \in G
    PROVE  \A i \in 0 .. n : i \in G
<1> DEFINE T == {i \in 0 .. n : i \notin G}
<1>1. SUFFICES ASSUME T # {} PROVE FALSE
  OBVIOUS
<1>2. T \subseteq Nat
  OBVIOUS
<1>3. PICK x \in T : \A y \in T : x <= y
  BY <1>1, <1>2, SmallestOf
<1>4. x \in 1 .. n /\ x - 1 \in 0 .. n /\ ~(x <= x - 1)
  BY <1>3
<1>5. x - 1 \in G
  BY <1>3, <1>4
<1>6. QED
  BY <1>4, <1>5

\* There is a function that begins with start and takes the steps.
Stepwise(S, start, n, step) ==
    \E f \in [0 .. n -> S] : f[0] = start /\ \A i \in 1 .. n : f[i] = step[i][f[i - 1]]

\* A function that is defined from its value at the number before exists.
LEMMA Recursion ==
    ASSUME NEW S, NEW start \in S, NEW n \in Nat, NEW step \in [1 .. n -> [S -> S]]
    PROVE  Stepwise(S, start, n, step)
<1> DEFINE Upto(i, f) == f[0] = start /\ \A j \in 1 .. i : f[j] = step[j][f[j - 1]]
           G == {i \in 0 .. n : \E f \in [0 .. i -> S] : Upto(i, f)}
<1>1. 0 \in G
  <2> DEFINE g == [j \in 0 .. 0 |-> start]
  <2>1. g \in [0 .. 0 -> S] /\ g[0] = start /\ 1 .. 0 = {}
    OBVIOUS
  <2> HIDE DEF g
  <2>2. \E f \in [0 .. 0 -> S] : Upto(0, f)
    BY <2>1
  <2>3. 0 \in 0 .. n
    OBVIOUS
  <2>4. QED
    BY <2>2, <2>3
<1>2. ASSUME NEW i \in 1 .. n, i - 1 \in G PROVE i \in G
  <2>1. PICK f \in [0 .. i - 1 -> S] : Upto(i - 1, f)
    BY <1>2
  <2> DEFINE g == [j \in 0 .. i |-> IF j = i THEN step[i][f[i - 1]] ELSE f[j]]
  <2>2. step[i][f[i - 1]] \in S
    OBVIOUS
  <2>3. g \in [0 .. i -> S]
    BY <2>2
  <2>4. g[0] = start
    BY <2>1
  <2>5. ASSUME NEW j \in 1 .. i PROVE g[j] = step[j][g[j - 1]]
    <3>1. CASE j = i
      BY <3>1
    <3>2. CASE j # i
      BY <2>1, <3>2
    <3>3. QED
      BY <3>1, <3>2
  <2> HIDE DEF g
  <2>6. \E h \in [0 .. i -> S] : Upto(i, h)
    BY <2>3, <2>4, <2>5
  <2>7. i \in 0 .. n
    OBVIOUS
  <2>8. QED
    BY <2>6, <2>7
<1>3. n \in G
  <2> HIDE DEF G
  <2>1. \A i \in 0 .. n : i \in G
    BY <1>1, <1>2, Climb
  <2>2. n \in 0 .. n
    OBVIOUS
  <2>3. QED
    BY <2>1, <2>2
<1>4. QED
  BY <1>3 DEF Stepwise

-----------------------------------------------------------------------------
(* Picking elements of a sequence *)

\* Up to a place there is one more of the places I if it is one of them.
LEMMA Counts ==
    ASSUME NEW n \in Nat, NEW I \in SUBSET (1 .. n)
    PROVE  /\ IsFiniteSet(I) /\ Cardinality(I) \in Nat /\ Cardinality(I) <= n
           /\ \A i \in 0 .. n : Cardinality({j \in I : j <= i}) \in Nat
           /\ Cardinality({j \in I : j <= 0}) = 0
           /\ Cardinality({j \in I : j <= n}) = Cardinality(I)
           /\ \A i \in 1 .. n : Cardinality({j \in I : j <= i}) =
                 IF i \in I THEN Cardinality({j \in I : j <= i - 1}) + 1
                            ELSE Cardinality({j \in I : j <= i - 1})
<1>1. IsFiniteSet(1 .. n) /\ Cardinality(1 .. n) = n
  BY FS_Interval
<1>2. IsFiniteSet(I) /\ Cardinality(I) <= n /\ Cardinality(I) \in Nat
  BY <1>1, FS_Subset, FS_CardinalityType
<1>3. \A i : IsFiniteSet({j \in I : j <= i}) /\ Cardinality({j \in I : j <= i}) \in Nat
  <2> TAKE i
  <2>1. {j \in I : j <= i} \in SUBSET I
    OBVIOUS
  <2>2. QED
    BY <1>2, <2>1, FS_Subset, FS_CardinalityType
<1>0. \A j \in I : j \in Int /\ 1 <= j /\ j <= n
  OBVIOUS
<1>4. {j \in I : j <= 0} = {} /\ {j \in I : j <= n} = I
  <2>1. \A j \in I : ~(j <= 0) /\ j <= n
    BY <1>0
  <2>2. QED
    BY <2>1, Zenon
<1>5. ASSUME NEW i \in 1 .. n
      PROVE  Cardinality({j \in I : j <= i}) =
                 IF i \in I THEN Cardinality({j \in I : j <= i - 1}) + 1
                            ELSE Cardinality({j \in I : j <= i - 1})
  <2>1. CASE i \in I
    <3>1. (\A j \in I : j <= i <=> j <= i - 1 \/ j = i) /\ ~(i <= i - 1)
      BY <1>0
    <3>2. {j \in I : j <= i} = {j \in I : j <= i - 1} \cup {i}
      BY <2>1, <3>1, Zenon
    <3>3. i \notin {j \in I : j <= i - 1}
      BY <3>1, Zenon
    <3> DEFINE J == {j \in I : j <= i - 1}
    <3>4. IsFiniteSet(J) /\ {j \in I : j <= i} = J \cup {i} /\ i \notin J
      BY <1>3, <3>2, <3>3
    <3> HIDE DEF J
    <3>5. Cardinality(J \cup {i}) = Cardinality(J) + 1
      BY <3>4, FS_AddElement
    <3>6. QED
      BY <2>1, <3>4, <3>5 DEF J
  <2>2. CASE i \notin I
    <3>1. \A j \in I : j <= i <=> j <= i - 1
      BY <1>0, <2>2
    <3>0. {j \in I : j <= i} = {j \in I : j <= i - 1}
      BY <3>1
    <3>2. QED
      BY <2>2, <3>0
  <2>3. QED
    BY <2>1, <2>2
<1>6. QED
  BY <1>2, <1>3, <1>4, <1>5, FS_EmptySet

\* Every number up to their number is the count of one of the places I, and of no other.
LEMMA Places ==
    ASSUME NEW n \in Nat, NEW I \in SUBSET (1 .. n)
    PROVE  /\ \A k \in 1 .. Cardinality(I) : \E i \in I : Cardinality({j \in I : j <= i}) = k
           /\ \A i \in I : Cardinality({j \in I : j <= i}) \in 1 .. Cardinality(I)
           /\ \A h, i \in I :
                 Cardinality({j \in I : j <= h}) = Cardinality({j \in I : j <= i}) => h = i
<1> DEFINE c(i) == Cardinality({j \in I : j <= i})
<1>1. /\ Cardinality(I) \in Nat /\ c(0) = 0 /\ c(n) = Cardinality(I) /\ IsFiniteSet(I)
      /\ \A i \in 0 .. n : c(i) \in Nat
      /\ \A i \in 1 .. n : c(i) = IF i \in I THEN c(i - 1) + 1 ELSE c(i - 1)
  BY Counts
<1>2. \A h, i \in 0 .. n : h <= i => c(h) <= c(i)
  <2> SUFFICES ASSUME NEW h \in 0 .. n, NEW i \in 0 .. n, h <= i PROVE c(h) <= c(i)
    OBVIOUS
  <2>0. \A j \in I : j <= h => j <= i
    OBVIOUS
  <2>1. {j \in I : j <= h} \in SUBSET {j \in I : j <= i}
    BY <2>0, Zenon
  <2>2. IsFiniteSet({j \in I : j <= i})
    BY <1>1, FS_Subset
  <2>3. QED
    BY <2>1, <2>2, FS_Subset
<1> HIDE DEF c
<1>3. ASSUME NEW k \in 1 .. Cardinality(I) PROVE \E i \in I : c(i) = k
  <2> DEFINE T == {i \in 0 .. n : c(i) >= k}
  <2>1. T \subseteq Nat /\ n \in T
    BY <1>1
  <2>2. PICK i \in T : \A h \in T : i <= h
    BY <2>1, SmallestOf
  <2>3. i # 0 /\ i \in 1 .. n /\ i - 1 \in 0 .. n
    BY <1>1, <2>2
  <2>4. ~(c(i - 1) >= k)
    BY <2>2, <2>3
  <2>5. QED
    BY <1>1, <2>3, <2>4
<1>4. ASSUME NEW i \in I PROVE c(i) \in 1 .. Cardinality(I)
  <2>1. i \in 1 .. n /\ i - 1 \in 0 .. n /\ i \in 0 .. n /\ n \in 0 .. n
    OBVIOUS
  <2>2. c(i) = c(i - 1) + 1 /\ c(i) <= c(n)
    BY <1>1, <1>2, <2>1
  <2>3. QED
    BY <1>1, <2>1, <2>2
<1>5. ASSUME NEW h \in I, NEW i \in I, h < i PROVE c(h) < c(i)
  <2>1. h \in 0 .. n /\ i \in 1 .. n /\ i - 1 \in 0 .. n /\ h <= i - 1
    BY <1>5
  <2>2. c(h) <= c(i - 1) /\ c(i) = c(i - 1) + 1
    BY <1>1, <1>2, <2>1
  <2>3. c(h) \in Nat /\ c(i - 1) \in Nat
    BY <1>1, <2>1
  <2>4. QED
    BY <2>2, <2>3
<1>6. ASSUME NEW h \in I, NEW i \in I, c(h) = c(i) PROVE h = i
  <2>1. h \in Nat /\ i \in Nat /\ c(h) \in Nat
    BY <1>1
  <2>2. ~(h < i) /\ ~(i < h)
    BY <1>5, <1>6, <2>1
  <2>3. QED
    BY <2>1, <2>2
<1>7. QED
  BY <1>3, <1>4, <1>6 DEF c

\* What is picked from a sequence are its elements at the places, each once.
LEMMA PickedIs ==
    ASSUME NEW S, NEW seq \in Seq(S), NEW I \in SUBSET DOMAIN seq
    PROVE  /\ Picked(seq, I) \in Seq(S) /\ Len(Picked(seq, I)) <= Len(seq)
           /\ \E place \in [DOMAIN Picked(seq, I) -> I] :
                 /\ \A k \in DOMAIN Picked(seq, I) : Picked(seq, I)[k] = seq[place[k]]
                 /\ \A k, l \in DOMAIN Picked(seq, I) : place[k] = place[l] => k = l
                 /\ \A i \in I : \E k \in DOMAIN Picked(seq, I) : place[k] = i
<1> DEFINE n == Len(seq)
           c(i) == Cardinality({j \in I : j <= i})
           at(k) == CHOOSE i \in I : c(i) = k
<1>1. n \in Nat /\ I \in SUBSET (1 .. n) /\ \A i \in I : seq[i] \in S
  OBVIOUS
<1>2. Cardinality(I) \in Nat /\ Cardinality(I) <= n
  BY <1>1, Counts
<1>3. /\ \A k \in 1 .. Cardinality(I) : \E i \in I : c(i) = k
      /\ \A i \in I : c(i) \in 1 .. Cardinality(I)
      /\ \A h, i \in I : c(h) = c(i) => h = i
  BY <1>1, Places
<1>4. Picked(seq, I) = [k \in 1 .. Cardinality(I) |-> seq[at(k)]]
  BY DEF Picked
<1> HIDE DEF c
<1>5. \A k \in 1 .. Cardinality(I) : at(k) \in I /\ c(at(k)) = k
  BY <1>3
<1>6. \A i \in I : at(c(i)) = i
  BY <1>3, <1>5
<1> HIDE DEF at
<1> DEFINE m == Cardinality(I)
           place == [k \in 1 .. m |-> at(k)]
<1>7. Picked(seq, I) \in Seq(S) /\ DOMAIN Picked(seq, I) = 1 .. m /\ Len(Picked(seq, I)) = m
  <2>1. \A k \in 1 .. m : seq[at(k)] \in S
    BY <1>1, <1>5
  <2>2. QED
    BY <1>2, <1>4, <2>1
<1>8. /\ place \in [1 .. m -> I]
      /\ \A k \in 1 .. m : Picked(seq, I)[k] = seq[place[k]]
      /\ \A k, l \in 1 .. m : place[k] = place[l] => k = l
  BY <1>4, <1>5
<1>9. \A i \in I : \E k \in 1 .. m : place[k] = i
  <2> TAKE i \in I
  <2>1. c(i) \in 1 .. m /\ place[c(i)] = i
    BY <1>3, <1>6
  <2>2. QED
    BY <2>1
<1> HIDE DEF place, m
<1>10. place \in [DOMAIN Picked(seq, I) -> I]
  BY <1>7, <1>8
<1>11. /\ \A k \in DOMAIN Picked(seq, I) : Picked(seq, I)[k] = seq[place[k]]
       /\ \A k, l \in DOMAIN Picked(seq, I) : place[k] = place[l] => k = l
       /\ \A i \in I : \E k \in DOMAIN Picked(seq, I) : place[k] = i
  BY <1>7, <1>8, <1>9
<1>12. Len(Picked(seq, I)) <= Len(seq)
  BY <1>2, <1>7 DEF m
<1>13. QED
  BY <1>7, <1>10, <1>11, <1>12

NoDup(s) == \A i, j \in DOMAIN s : s[i] = s[j] => i = j

\* An element is contained in a sequence that has it at one of its places.
LEMMA ContainsIs ==
    ASSUME NEW S, NEW s \in Seq(S), NEW e
    PROVE  Contains(s, e) <=> e \in ToSet(s)
  BY DEF Contains, ToSet

\* Keeping the elements of A.
LEMMA Keeps ==
    ASSUME NEW S, NEW s \in Seq(S), NEW A, NEW I \in SUBSET DOMAIN s,
           \A i \in DOMAIN s : i \in I <=> s[i] \in A
    PROVE  /\ Picked(s, I) \in Seq(S) /\ Len(Picked(s, I)) <= Len(s)
           /\ ToSet(Picked(s, I)) = ToSet(s) \cap A
           /\ NoDup(s) => NoDup(Picked(s, I))
<1>0. PICK p : p = Picked(s, I)
  OBVIOUS
<1>1. p \in Seq(S) /\ Len(p) <= Len(s)
  BY <1>0, PickedIs
<1>2. PICK place \in [DOMAIN p -> I] :
         /\ \A k \in DOMAIN p : p[k] = s[place[k]]
         /\ \A k, l \in DOMAIN p : place[k] = place[l] => k = l
         /\ \A i \in I : \E k \in DOMAIN p : place[k] = i
  BY <1>0, PickedIs
<1>3. \A x \in ToSet(p) : x \in ToSet(s) \cap A
  BY <1>2 DEF ToSet
<1>4. ASSUME NEW i \in DOMAIN s, s[i] \in A PROVE s[i] \in ToSet(p)
  <2>1. PICK k \in DOMAIN p : place[k] = i
    BY <1>2, <1>4
  <2>2. p[k] = s[i]
    BY <1>2, <2>1
  <2>3. QED
    BY <2>2 DEF ToSet
<1>5. NoDup(s) => NoDup(p)
  BY <1>2 DEF NoDup
<1>6. \A x \in ToSet(s) \cap A : x \in ToSet(p)
  BY <1>4 DEF ToSet
<1>7. QED
  BY <1>0, <1>1, <1>3, <1>5, <1>6

\* Without takes one element out.
LEMMA WithoutIs ==
    ASSUME NEW S, NEW ids \in Seq(S), NEW id
    PROVE  /\ Without(ids, id) \in Seq(S) /\ Len(Without(ids, id)) <= Len(ids)
           /\ ToSet(Without(ids, id)) = ToSet(ids) \ {id}
           /\ NoDup(ids) => NoDup(Without(ids, id))
<1> DEFINE A == S \ {id}
<1>1. \A i \in DOMAIN ids : ids[i] \in S
  OBVIOUS
<1>2. PICK I \in SUBSET DOMAIN ids : I = {i \in DOMAIN ids : ids[i] # id}
  OBVIOUS
<1>3. Without(ids, id) = Picked(ids, I) /\ \A i \in DOMAIN ids : i \in I <=> ids[i] \in A
  BY <1>1, <1>2 DEF Without, Filter
<1>4. ToSet(ids) \cap A = ToSet(ids) \ {id}
  BY <1>1 DEF ToSet
<1> HIDE DEF A
<1>5. /\ Picked(ids, I) \in Seq(S) /\ Len(Picked(ids, I)) <= Len(ids)
      /\ ToSet(Picked(ids, I)) = ToSet(ids) \cap A
      /\ NoDup(ids) => NoDup(Picked(ids, I))
  BY <1>3, Keeps
<1>6. QED
  BY <1>3, <1>4, <1>5

\* UniqueIds keeps every element once.
LEMMA UniqueIs ==
    ASSUME NEW S, NEW ids \in Seq(S)
    PROVE  /\ UniqueIds(ids) \in Seq(S) /\ Len(UniqueIds(ids)) <= Len(ids)
           /\ ToSet(UniqueIds(ids)) = ToSet(ids) /\ NoDup(UniqueIds(ids))
<1> DEFINE I == {i \in DOMAIN ids : \A j \in 1 .. i - 1 : ids[j] # ids[i]}
           p == UniqueIds(ids)
<1>1. I \in SUBSET DOMAIN ids /\ p = Picked(ids, I)
  BY DEF UniqueIds
<1>2. ASSUME NEW i \in I, NEW h \in I, h < i PROVE ids[h] # ids[i]
  <2>1. h \in 1 .. i - 1
    BY <1>2
  <2>2. QED
    BY <2>1
<1>3. ASSUME NEW i \in DOMAIN ids PROVE \E h \in I : ids[h] = ids[i]
  <2> DEFINE T == {j \in DOMAIN ids : ids[j] = ids[i]}
  <2>1. T \subseteq Nat /\ T # {}
    OBVIOUS
  <2>2. PICK h \in T : \A j \in T : h <= j
    BY <2>1, SmallestOf
  <2>3. ASSUME NEW j \in 1 .. h - 1 PROVE ids[j] # ids[h]
    <3>1. j \in DOMAIN ids /\ ~(h <= j)
      OBVIOUS
    <3>2. j \notin T
      BY <2>2, <3>1
    <3>3. QED
      BY <2>2, <3>1, <3>2
  <2>4. h \in I
    BY <2>3
  <2>5. QED
    BY <2>4
<1> HIDE DEF I, p
<1>4. p \in Seq(S) /\ Len(p) <= Len(ids)
  BY <1>1, PickedIs
<1>5. PICK place \in [DOMAIN p -> I] :
         /\ \A k \in DOMAIN p : p[k] = ids[place[k]]
         /\ \A k, l \in DOMAIN p : place[k] = place[l] => k = l
         /\ \A i \in I : \E k \in DOMAIN p : place[k] = i
  BY <1>1, PickedIs
<1>6. ASSUME NEW k \in DOMAIN p, NEW l \in DOMAIN p, p[k] = p[l] PROVE k = l
  <2>1. place[k] \in I /\ place[l] \in I /\ ids[place[k]] = ids[place[l]]
    BY <1>5, <1>6
  <2>2. place[k] \in Nat /\ place[l] \in Nat
    BY <1>1, <2>1
  <2>3. ~(place[k] < place[l]) /\ ~(place[l] < place[k])
    BY <1>2, <2>1
  <2>4. QED
    BY <1>5, <2>2, <2>3
<1>7. \A x \in ToSet(p) : x \in ToSet(ids)
  BY <1>1, <1>5 DEF ToSet
<1>8. \A x \in ToSet(ids) : x \in ToSet(p)
  BY <1>3, <1>5 DEF ToSet
<1>9. ToSet(p) = ToSet(ids) /\ NoDup(p)
  BY <1>6, <1>7, <1>8 DEF NoDup
<1>10. QED
  BY <1>4, <1>9 DEF p

-----------------------------------------------------------------------------
(* The operators of PageState *)

\* An element more at the end.
LEMMA AppendIs ==
    ASSUME NEW S, NEW s \in Seq(S), NEW e \in S
    PROVE  /\ Append(s, e) \in Seq(S) /\ Len(Append(s, e)) = Len(s) + 1
           /\ ToSet(Append(s, e)) = ToSet(s) \cup {e}
<1>1. Append(s, e) \in Seq(S) /\ Len(Append(s, e)) = Len(s) + 1
  OBVIOUS
<1>2. /\ \A i \in DOMAIN s : i \in DOMAIN Append(s, e) /\ Append(s, e)[i] = s[i]
      /\ Len(s) + 1 \in DOMAIN Append(s, e) /\ Append(s, e)[Len(s) + 1] = e
      /\ \A i \in DOMAIN Append(s, e) : i \in DOMAIN s \/ i = Len(s) + 1
  OBVIOUS
<1>3. \A x : x \in ToSet(Append(s, e)) <=> x \in ToSet(s) \/ x = e
  BY <1>2 DEF ToSet
<1>4. QED
  BY <1>1, <1>3

\* Added puts one element in.
LEMMA AddedIs ==
    ASSUME NEW S, NEW open \in Seq(S), NoDup(open), NEW id \in S
    PROVE  /\ Added(open, id) \in Seq(S) /\ Len(Added(open, id)) <= Len(open) + 1
           /\ ToSet(Added(open, id)) = ToSet(open) \cup {id}
           /\ NoDup(Added(open, id))
<1>1. CASE Contains(open, id)
  <2>1. Added(open, id) = open /\ id \in ToSet(open)
    BY <1>1, ContainsIs DEF Added
  <2>2. QED
    BY <2>1
<1>2. CASE ~Contains(open, id)
  <2> DEFINE s == Append(open, id)
  <2>1. /\ s \in Seq(S) /\ Len(s) = Len(open) + 1 /\ ToSet(s) = ToSet(open) \cup {id}
    BY AppendIs
  <2>2. Added(open, id) = UniqueIds(s)
    BY <1>2 DEF Added
  <2> HIDE DEF s
  <2>3. /\ UniqueIds(s) \in Seq(S) /\ Len(UniqueIds(s)) <= Len(s)
        /\ ToSet(UniqueIds(s)) = ToSet(s) /\ NoDup(UniqueIds(s))
    BY <2>1, UniqueIs
  <2>4. QED
    BY <2>1, <2>2, <2>3
<1>3. QED
  BY <1>1, <1>2

\* Taking the element of a place out.
LEMMA RemoveAtIs ==
    ASSUME NEW S, NEW s \in Seq(S), NEW i \in DOMAIN s
    PROVE  /\ RemoveAt(s, i) \in Seq(S) /\ Len(RemoveAt(s, i)) = Len(s) - 1
           /\ \A k \in 1 .. Len(s) - 1 :
                 RemoveAt(s, i)[k] = IF k < i THEN s[k] ELSE s[k + 1]
<1> DEFINE a == SubSeq(s, 1, i - 1)
           b == SubSeq(s, i + 1, Len(s))
<1>1. /\ a \in Seq(S) /\ Len(a) = i - 1 /\ \A k \in 1 .. i - 1 : a[k] = s[k]
  OBVIOUS
<1>2. /\ b \in Seq(S) /\ Len(b) = Len(s) - i /\ \A k \in 1 .. Len(s) - i : b[k] = s[i + k]
  OBVIOUS
<1>3. RemoveAt(s, i) = a \o b
  BY DEF RemoveAt
<1> HIDE DEF a, b
<1>4. /\ a \o b \in Seq(S) /\ Len(a \o b) = Len(s) - 1
      /\ \A k \in 1 .. Len(s) - 1 : (a \o b)[k] = IF k < i THEN a[k] ELSE b[k - (i - 1)]
  BY <1>1, <1>2
<1>5. ASSUME NEW k \in 1 .. Len(s) - 1
      PROVE  (a \o b)[k] = IF k < i THEN s[k] ELSE s[k + 1]
  <2>1. CASE k < i
    BY <1>1, <1>4, <2>1
  <2>2. CASE ~(k < i)
    <3>1. k - (i - 1) \in 1 .. Len(s) - i /\ i + (k - (i - 1)) = k + 1
      BY <2>2
    <3>2. QED
      BY <1>2, <1>4, <2>2, <3>1
  <2>3. QED
    BY <2>1, <2>2
<1>6. QED
  BY <1>3, <1>4, <1>5

\* DropOne takes one pane out, and not the active one if there are two.
LEMMA DropOneIs ==
    ASSUME NEW S, NEW open \in Seq(S), NEW active
    PROVE  /\ DropOne(open, active) \in Seq(S)
           /\ open # <<>> => Len(DropOne(open, active)) = Len(open) - 1
           /\ ToSet(DropOne(open, active)) \subseteq ToSet(open)
           /\ NoDup(open) => NoDup(DropOne(open, active))
           /\ NoDup(open) /\ Len(open) > 1 /\ active \in ToSet(open)
                 => active \in ToSet(DropOne(open, active))
<1> DEFINE others == {i \in 1 .. Len(open) : open[i] # active}
           first == IF others # {} THEN Min(others) ELSE 0
           at == IF first > 0 THEN first ELSE 1
           p == DropOne(open, active)
<1>1. p = RemoveAt(open, at)
  BY DEF DropOne, SelectInSeq
<1>2. CASE open = <<>>
  <2>1. others = {} /\ at = 1
    BY <1>2
  <2>2. p = <<>>
    BY <1>1, <1>2, <2>1 DEF RemoveAt
  <2>3. QED
    BY <1>2, <2>2 DEF ToSet, NoDup
<1>3. CASE open # <<>>
  <2>1. at \in DOMAIN open /\ (others # {} => at \in others)
    <3>1. CASE others = {}
      BY <1>3, <3>1
    <3>2. CASE others # {}
      <4>1. others \subseteq Nat
        OBVIOUS
      <4>2. \E x \in others : \A y \in others : x <= y
        BY <3>2, <4>1, SmallestOf
      <4>3. Min(others) \in others
        BY <4>2 DEF Min
      <4>4. Min(others) > 0 /\ Min(others) \in 1 .. Len(open)
        BY <4>3
      <4>5. QED
        BY <3>2, <4>3, <4>4
    <3>3. QED
      BY <3>1, <3>2
  <2> HIDE DEF p, at
  <2>2. /\ p \in Seq(S) /\ Len(p) = Len(open) - 1
        /\ \A k \in 1 .. Len(open) - 1 : p[k] = IF k < at THEN open[k] ELSE open[k + 1]
    BY <1>1, <2>1, RemoveAtIs
  <2>3. DOMAIN p = 1 .. Len(open) - 1
    BY <2>2
  <2>4. ToSet(p) \subseteq ToSet(open)
    BY <2>2, <2>3 DEF ToSet
  <2>5. NoDup(open) => NoDup(p)
    <3> SUFFICES ASSUME NoDup(open), NEW k \in DOMAIN p, NEW l \in DOMAIN p, p[k] = p[l]
                 PROVE  k = l
      BY DEF NoDup
    <3>1. k \in 1 .. Len(open) - 1 /\ l \in 1 .. Len(open) - 1 /\ at \in 1 .. Len(open)
      BY <2>1, <2>3
    <3>2. /\ k \in DOMAIN open /\ l \in DOMAIN open
          /\ k + 1 \in DOMAIN open /\ l + 1 \in DOMAIN open
      BY <3>1
    <3>3. CASE k < at /\ l < at
      BY <2>2, <3>1, <3>2, <3>3 DEF NoDup
    <3>4. CASE k < at /\ ~(l < at)
      <4>1. k = l + 1
        BY <2>2, <3>1, <3>2, <3>4 DEF NoDup
      <4>2. QED
        BY <3>1, <3>4, <4>1
    <3>5. CASE ~(k < at) /\ l < at
      <4>1. k + 1 = l
        BY <2>2, <3>1, <3>2, <3>5 DEF NoDup
      <4>2. QED
        BY <3>1, <3>5, <4>1
    <3>6. CASE ~(k < at) /\ ~(l < at)
      <4>1. k + 1 = l + 1
        BY <2>2, <3>1, <3>2, <3>6 DEF NoDup
      <4>2. QED
        BY <3>1, <4>1
    <3>7. QED
      BY <3>3, <3>4, <3>5, <3>6
  <2>6. ASSUME NoDup(open), Len(open) > 1, active \in ToSet(open) PROVE active \in ToSet(p)
    <3>1. PICK i \in DOMAIN open : open[i] = active
      BY <2>6 DEF ToSet
    <3>2. \E j \in DOMAIN open : j # i
      <4>0. 1 \in DOMAIN open /\ 2 \in DOMAIN open
        BY <2>6
      <4>1. CASE i = 1
        BY <4>0, <4>1
      <4>2. CASE i # 1
        BY <4>0, <4>2
      <4>3. QED
        BY <4>1, <4>2
    <3>3. others # {}
      BY <2>6, <3>1, <3>2 DEF NoDup
    <3>4. at # i /\ at \in 1 .. Len(open) /\ i \in 1 .. Len(open)
      BY <2>1, <3>1, <3>3
    <3>5. CASE i < at
      <4>1. i \in DOMAIN p /\ p[i] = active
        BY <2>2, <2>3, <3>1, <3>4, <3>5
      <4>2. QED
        BY <4>1 DEF ToSet
    <3>6. CASE at < i
      <4>1. i - 1 \in DOMAIN p /\ ~(i - 1 < at) /\ (i - 1) + 1 = i
        BY <2>3, <3>4, <3>6
      <4>2. p[i - 1] = active
        BY <2>2, <2>3, <3>1, <4>1
      <4>3. QED
        BY <4>1, <4>2 DEF ToSet
    <3>7. QED
      BY <3>4, <3>5, <3>6
  <2>7. QED
    BY <2>2, <2>4, <2>5, <2>6 DEF p
<1>4. QED
  BY <1>2, <1>3

\* The loop of Trim drops one pane after another.
LEMMA TrimSteps ==
    ASSUME NEW open \in Seq(Workspace), NEW active
    PROVE  LET after[n \in 0 .. Len(open)] ==
                  IF n = 0 THEN open ELSE DropOne(after[n - 1], active)
           IN  /\ after[0] = open
               /\ \A n \in 1 .. Len(open) : after[n] = DropOne(after[n - 1], active)
<1> DEFINE S == Seq(Workspace)
           n == Len(open)
           step == [i \in 1 .. n |-> [o \in S |-> DropOne(o, active)]]
           is(f) == f = [i \in 0 .. n |-> IF i = 0 THEN open ELSE DropOne(f[i - 1], active)]
           after == CHOOSE f : is(f)
<1>1. n \in Nat /\ open \in S
  OBVIOUS
<1>2. step \in [1 .. n -> [S -> S]]
  BY DropOneIs
<1>3. PICK g \in [0 .. n -> S] :
         g[0] = open /\ \A i \in 1 .. n : g[i] = step[i][g[i - 1]]
  <2> HIDE DEF step, S, n
  <2>1. Stepwise(S, open, n, step)
    BY <1>1, <1>2, Recursion
  <2>2. QED
    BY <2>1 DEF Stepwise
<1>4. is(g)
  <2>1. \A i \in 0 .. n : i # 0 => i \in 1 .. n /\ i - 1 \in 0 .. n
    OBVIOUS
  <2>2. \A i \in 0 .. n : i # 0 => step[i][g[i - 1]] = DropOne(g[i - 1], active)
    BY <2>1
  <2>3. \A i \in 0 .. n : g[i] = IF i = 0 THEN open ELSE DropOne(g[i - 1], active)
    BY <1>3, <2>1, <2>2
  <2>4. g = [i \in 0 .. n |-> g[i]]
    BY <1>3
  <2> HIDE DEF n, S, step
  <2>5. QED
    BY <2>3, <2>4
<1>5. is(after)
  BY <1>4
<1> HIDE DEF after
<1>6. after[0] = open /\ \A i \in 1 .. n : after[i] = DropOne(after[i - 1], active)
  BY <1>1, <1>5
<1>7. QED
  BY <1>6 DEF after

\* Trim makes room for the pane that came, and keeps the active one.
LEMMA TrimIs ==
    ASSUME MaxOpenAssumption, NEW open \in Seq(Workspace), NoDup(open),
           Len(open) <= MaxOpen + 1, NEW active, NEW p, p = Trim(open, active)
    PROVE  /\ p \in Seq(Workspace) /\ Len(p) <= MaxOpen /\ NoDup(p)
           /\ ToSet(p) \subseteq ToSet(open)
           /\ active \in ToSet(open) => active \in ToSet(p)
           /\ open # <<>> => p # <<>>
<1> DEFINE n == Len(open)
           is(f) == f = [i \in 0 .. n |-> IF i = 0 THEN open ELSE DropOne(f[i - 1], active)]
           after == CHOOSE f : is(f)
<1>1. n \in Nat /\ MaxOpen \in Nat /\ MaxOpen > 0
  BY DEF MaxOpenAssumption
<1>2. after[0] = open /\ \A i \in 1 .. n : after[i] = DropOne(after[i - 1], active)
  BY TrimSteps
<1>3. p = after[IF Len(open) > MaxOpen THEN Len(open) - MaxOpen ELSE 0]
  BY DEF Trim
<1> HIDE DEF after
<1>4. CASE ~(n > MaxOpen)
  BY <1>1, <1>2, <1>3, <1>4
<1>5. CASE n > MaxOpen
  <2>1. n = MaxOpen + 1 /\ n - MaxOpen = 1 /\ 1 \in 0 .. n /\ n > 1
    BY <1>1, <1>5
  <2>2. p = after[1]
    BY <1>3, <1>5, <2>1
  <2>3. p = DropOne(open, active)
    BY <1>2, <2>1, <2>2
  <2>4. open # <<>>
    BY <2>1
  <2>5. /\ p \in Seq(Workspace) /\ Len(p) = Len(open) - 1
        /\ ToSet(p) \subseteq ToSet(open) /\ NoDup(p)
        /\ active \in ToSet(open) => active \in ToSet(p)
    BY <2>1, <2>3, <2>4, DropOneIs
  <2>6. p # <<>> /\ Len(p) <= MaxOpen
    BY <1>1, <2>1, <2>5
  <2>7. QED
    BY <2>5, <2>6
<1>6. QED
  BY <1>4, <1>5

\* The states of a page, and the layouts that leave it.
PageStates ==
    [open : Seq(Workspace), active : Workspace \cup {None}, dismissed : Seq(Workspace),
     prev : [Workspace -> BOOLEAN], hydrated : BOOLEAN]
SoundPage == {p \in PageStates : Sound(p)}
SoundView == {v \in View : Sound(v)}

\* A page is sound when its panes fit, are different, and the active one is among them.
LEMMA SoundIs ==
    ASSUME NEW s, s.open \in Seq(Workspace)
    PROVE  Sound(s) <=> /\ Len(s.open) <= MaxOpen /\ NoDup(s.open)
                        /\ (s.active = None) <=> (s.open = <<>>)
                        /\ s.active # None => s.active \in ToSet(s.open)
  BY ContainsIs DEF Sound, NoDup

\* The last pane is one of the panes.
LEMMA LastIs ==
    ASSUME NoneAssumption, NEW seq \in Seq(Workspace)
    PROVE  /\ LastOf(seq) \in Workspace \cup {None}
           /\ (LastOf(seq) = None) <=> (seq = <<>>)
           /\ LastOf(seq) # None => LastOf(seq) \in ToSet(seq)
<1>1. CASE seq = <<>>
  BY <1>1 DEF LastOf
<1>2. CASE seq # <<>>
  <2>1. Len(seq) \in DOMAIN seq /\ seq[Len(seq)] \in Workspace
    BY <1>2
  <2>2. LastOf(seq) = seq[Len(seq)]
    BY <1>2 DEF LastOf
  <2>3. QED
    BY <1>2, <2>1, <2>2 DEF ToSet, NoneAssumption
<1>3. QED
  BY <1>1, <1>2

\* Opening a pane.
LEMMA OpenPaneIs ==
    ASSUME MaxOpenAssumption, NoneAssumption, NEW s \in SoundPage, NEW id \in Workspace,
           NEW r, r = OpenPane(s, id)
    PROVE  /\ r \in SoundPage /\ r.prev = s.prev /\ r.hydrated = s.hydrated
           /\ ToSet(r.open) \subseteq ToSet(s.open) \cup {id}
           /\ ToSet(r.dismissed) = ToSet(s.dismissed) \ {id}
<1>1. /\ s.open \in Seq(Workspace) /\ s.dismissed \in Seq(Workspace)
      /\ s.prev \in [Workspace -> BOOLEAN] /\ s.hydrated \in BOOLEAN
      /\ Len(s.open) <= MaxOpen /\ NoDup(s.open) /\ s \in PageStates
  BY SoundIs DEF SoundPage, PageStates
<1>2. MaxOpen \in Nat /\ Len(s.open) \in Nat
  BY <1>1 DEF MaxOpenAssumption
<1>3. PICK q \in Seq(Workspace) : q = Added(s.open, id)
  BY <1>1, AddedIs
<1>4. /\ NoDup(q) /\ Len(q) <= Len(s.open) + 1 /\ ToSet(q) = ToSet(s.open) \cup {id}
  BY <1>1, <1>3, AddedIs
<1>5. Len(q) <= MaxOpen + 1
  BY <1>1, <1>2, <1>4
<1>6. PICK p : p = Trim(q, id)
  OBVIOUS
<1>7. /\ p \in Seq(Workspace) /\ Len(p) <= MaxOpen /\ NoDup(p)
      /\ ToSet(p) \subseteq ToSet(q) /\ id \in ToSet(p)
  BY <1>4, <1>5, <1>6, TrimIs
<1>8. PICK d \in Seq(Workspace) : d = Without(s.dismissed, id)
                                 /\ ToSet(d) = ToSet(s.dismissed) \ {id}
  BY <1>1, WithoutIs
<1>9. r = [s EXCEPT !.open = p, !.active = id, !.dismissed = d]
  BY <1>3, <1>6, <1>8 DEF OpenPane
<1>10. /\ r \in PageStates /\ r.open = p /\ r.active = id /\ r.dismissed = d
       /\ r.prev = s.prev /\ r.hydrated = s.hydrated
  BY <1>1, <1>7, <1>8, <1>9 DEF PageStates
<1>11. p # <<>> /\ id # None
  BY <1>7 DEF ToSet, NoneAssumption
<1>12. Sound(r)
  BY <1>7, <1>10, <1>11, SoundIs
<1>13. QED
  BY <1>4, <1>7, <1>8, <1>10, <1>12 DEF SoundPage

\* A pane that comes by itself leaves the active one as it is.
LEMMA AppendPaneIs ==
    ASSUME MaxOpenAssumption, NoneAssumption, NEW s \in SoundPage, NEW id \in Workspace,
           NEW r, r = AppendPane(s, id)
    PROVE  /\ r \in SoundPage /\ r.prev = s.prev /\ r.hydrated = s.hydrated
           /\ ToSet(r.open) \subseteq ToSet(s.open) \cup {id}
           /\ ToSet(r.dismissed) = ToSet(s.dismissed) \ {id}
<1>1. /\ s.open \in Seq(Workspace) /\ s.dismissed \in Seq(Workspace)
      /\ s.prev \in [Workspace -> BOOLEAN] /\ s.hydrated \in BOOLEAN
      /\ s.active \in Workspace \cup {None} /\ s \in PageStates
  BY DEF SoundPage, PageStates
<1>2. /\ Len(s.open) <= MaxOpen /\ NoDup(s.open)
      /\ s.active # None => s.active \in ToSet(s.open)
  BY <1>1, SoundIs DEF SoundPage
<1>3. PICK q \in Seq(Workspace) : q = Added(s.open, id)
  BY <1>1, <1>2, AddedIs
<1>4. /\ NoDup(q) /\ Len(q) <= Len(s.open) + 1 /\ ToSet(q) = ToSet(s.open) \cup {id}
  BY <1>1, <1>2, <1>3, AddedIs
<1>5. Len(q) <= MaxOpen + 1 /\ q # <<>>
  <2>1. MaxOpen \in Nat /\ Len(s.open) \in Nat
    BY <1>1 DEF MaxOpenAssumption
  <2>2. Len(q) <= MaxOpen + 1
    BY <1>2, <1>4, <2>1
  <2>3. q # <<>>
    BY <1>4 DEF ToSet
  <2>4. QED
    BY <2>2, <2>3
<1>6. PICK p : p = Trim(q, s.active)
  OBVIOUS
<1>7. /\ p \in Seq(Workspace) /\ Len(p) <= MaxOpen /\ NoDup(p)
      /\ ToSet(p) \subseteq ToSet(q) /\ p # <<>>
      /\ s.active \in ToSet(q) => s.active \in ToSet(p)
  BY <1>4, <1>5, <1>6, TrimIs
<1>8. PICK d \in Seq(Workspace) : d = Without(s.dismissed, id)
                                 /\ ToSet(d) = ToSet(s.dismissed) \ {id}
  BY <1>1, WithoutIs
<1>9. PICK a : a = IF s.active = None THEN LastOf(p) ELSE s.active
  OBVIOUS
<1>10. a \in Workspace \cup {None} /\ a # None /\ a \in ToSet(p)
  BY <1>1, <1>2, <1>4, <1>7, <1>9, LastIs
<1>11. r = [s EXCEPT !.open = p, !.active = a, !.dismissed = d]
  BY <1>3, <1>6, <1>8, <1>9 DEF AppendPane
<1>12. /\ r \in PageStates /\ r.open = p /\ r.active = a /\ r.dismissed = d
       /\ r.prev = s.prev /\ r.hydrated = s.hydrated
  BY <1>1, <1>7, <1>8, <1>10, <1>11 DEF PageStates
<1>13. Sound(r)
  BY <1>7, <1>10, <1>12, SoundIs
<1>14. QED
  BY <1>4, <1>7, <1>8, <1>12, <1>13 DEF SoundPage

\* Closing a pane.
LEMMA DismissPaneIs ==
    ASSUME MaxOpenAssumption, NoneAssumption, NEW s \in SoundPage, NEW id \in Workspace,
           NEW keep \in BOOLEAN, NEW r, r = DismissPane(s, id, keep)
    PROVE  /\ r \in SoundPage /\ r.prev = s.prev /\ r.hydrated = s.hydrated
           /\ ToSet(r.open) = ToSet(s.open) \ {id}
<1>1. /\ s.open \in Seq(Workspace) /\ s.dismissed \in Seq(Workspace)
      /\ s.prev \in [Workspace -> BOOLEAN] /\ s.hydrated \in BOOLEAN
      /\ s.active \in Workspace \cup {None} /\ s \in PageStates
  BY DEF SoundPage, PageStates
<1>2. /\ Len(s.open) <= MaxOpen /\ NoDup(s.open)
      /\ s.active # None => s.active \in ToSet(s.open)
      /\ (s.active = None) <=> (s.open = <<>>)
  BY <1>1, SoundIs DEF SoundPage
<1>3. PICK p \in Seq(Workspace) : /\ p = Without(s.open, id) /\ Len(p) <= Len(s.open)
                                 /\ NoDup(p) /\ ToSet(p) = ToSet(s.open) \ {id}
  BY <1>1, <1>2, WithoutIs
<1>4. PICK a : a = IF s.active = id THEN LastOf(p) ELSE s.active
  OBVIOUS
<1>5. /\ a \in Workspace \cup {None} /\ ((a = None) <=> (p = <<>>))
      /\ a # None => a \in ToSet(p)
  <2>1. CASE s.active = id
    BY <1>3, <1>4, <2>1, LastIs
  <2>2. CASE s.active # id /\ s.active # None
    <3>1. s.active \in ToSet(p)
      BY <1>2, <1>3, <2>2
    <3>2. p # <<>>
      BY <3>1 DEF ToSet
    <3>3. QED
      BY <1>1, <1>4, <2>2, <3>1, <3>2
  <2>3. CASE s.active # id /\ s.active = None
    <3>1. s.open = <<>>
      BY <1>2, <2>3
    <3>2. Len(p) = 0
      BY <1>3, <3>1
    <3>3. p = <<>>
      BY <3>2
    <3>4. QED
      BY <1>4, <2>3, <3>3
  <2>4. QED
    BY <2>1, <2>2, <2>3
<1>6. PICK d : d = IF keep THEN UniqueIds(Append(s.dismissed, id)) ELSE Without(s.dismissed, id)
  OBVIOUS
<1>7. d \in Seq(Workspace)
  <2>1. CASE keep
    <3>1. PICK e : e = Append(s.dismissed, id)
      OBVIOUS
    <3>0. e \in Seq(Workspace)
      BY <1>1, <3>1, AppendIs
    <3>2. d = UniqueIds(e)
      BY <1>6, <2>1, <3>1
    <3>3. QED
      BY <2>1, <3>0, <3>2, UniqueIs
  <2>2. CASE ~keep
    BY <1>1, <1>6, <2>2, WithoutIs
  <2>3. QED
    BY <2>1, <2>2
<1>8. r = [s EXCEPT !.open = p, !.active = a, !.dismissed = d]
  BY <1>3, <1>4, <1>6 DEF DismissPane
<1>9. /\ r \in PageStates /\ r.open = p /\ r.active = a /\ r.dismissed = d
      /\ r.prev = s.prev /\ r.hydrated = s.hydrated
  <2>1. p \in Seq(Workspace) /\ a \in Workspace \cup {None} /\ d \in Seq(Workspace)
    BY <1>3, <1>5, <1>7
  <2>2. QED
    BY <1>1, <1>8, <2>1 DEF PageStates
<1>10. Len(p) <= MaxOpen /\ NoDup(p)
  <2>1. MaxOpen \in Nat /\ Len(s.open) \in Nat /\ Len(p) \in Nat
    BY <1>1 DEF MaxOpenAssumption
  <2>2. QED
    BY <1>2, <1>3, <2>1
<1>11. Sound(r)
  BY <1>5, <1>9, <1>10, SoundIs
<1>12. QED
  BY <1>3, <1>7, <1>9, <1>11 DEF SoundPage

\* Who asks for attention in a list.
AskedIn(l) == [w \in Workspace |-> \E i \in DOMAIN l : l[i].id = w /\ IsAttention(l[i])]

\* Before its loop a reconciliation only takes panes and dismissals away.
LEMMA PrunedIs ==
    ASSUME MaxOpenAssumption, NoneAssumption, NEW s \in SoundPage, NEW l \in Seq(Entry),
           NEW r, r = Pruned(s, l)
    PROVE  /\ r \in SoundPage /\ r.prev = AskedIn(l) /\ r.hydrated = TRUE
           /\ ToSet(r.open) \subseteq ToSet(s.open)
           /\ \A w \in ToSet(s.dismissed) : AskedIn(l)[w] => w \in ToSet(r.dismissed)
<1>1. /\ s.open \in Seq(Workspace) /\ s.dismissed \in Seq(Workspace)
      /\ s.active \in Workspace \cup {None} /\ s \in PageStates
  BY DEF SoundPage, PageStates
<1>2. /\ Len(s.open) <= MaxOpen /\ NoDup(s.open)
      /\ s.active # None => s.active \in ToSet(s.open)
  BY <1>1, SoundIs DEF SoundPage
<1>3. AskedIn(l) \in [Workspace -> BOOLEAN]
  BY DEF AskedIn
<1>4. PICK p : p = Filter(s.open, LAMBDA id : id \in Ids(l))
  OBVIOUS
<1>5. /\ p \in Seq(Workspace) /\ Len(p) <= Len(s.open) /\ NoDup(p)
      /\ ToSet(p) = ToSet(s.open) \cap Ids(l)
  <2>1. PICK o \in Seq(Workspace) : o = s.open
    BY <1>1
  <2>2. PICK A : A = Ids(l)
    OBVIOUS
  <2>3. PICK I \in SUBSET DOMAIN o : I = {i \in DOMAIN o : o[i] \in A}
    OBVIOUS
  <2>4. p = Picked(o, I) /\ \A i \in DOMAIN o : i \in I <=> o[i] \in A
    BY <1>4, <2>1, <2>2, <2>3 DEF Filter
  <2>5. /\ p \in Seq(Workspace) /\ Len(p) <= Len(o)
        /\ ToSet(p) = ToSet(o) \cap A /\ (NoDup(o) => NoDup(p))
    BY <2>4, Keeps
  <2>6. QED
    BY <1>2, <2>1, <2>2, <2>5
<1>6. PICK d : d = Filter(s.dismissed, LAMBDA id : id \in Ids(l) /\ AskedIn(l)[id])
  OBVIOUS
<1>7. /\ d \in Seq(Workspace)
      /\ \A w \in ToSet(s.dismissed) : AskedIn(l)[w] => w \in ToSet(d)
  <2> DEFINE A == {w \in Workspace : w \in Ids(l) /\ AskedIn(l)[w]}
  <2>1. PICK o \in Seq(Workspace) : o = s.dismissed
    BY <1>1
  <2>2. PICK I \in SUBSET DOMAIN o : I = {i \in DOMAIN o : o[i] \in Ids(l) /\ AskedIn(l)[o[i]]}
    OBVIOUS
  <2>3. d = Picked(o, I) /\ \A i \in DOMAIN o : i \in I <=> o[i] \in A
    BY <1>6, <2>1, <2>2 DEF Filter
  <2>4. \A w \in Workspace : AskedIn(l)[w] => w \in A
    BY DEF AskedIn, Ids
  <2> HIDE DEF A
  <2>5. d \in Seq(Workspace) /\ ToSet(d) = ToSet(o) \cap A
    BY <2>3, Keeps
  <2>6. \A w \in ToSet(o) : w \in Workspace
    BY DEF ToSet
  <2>7. QED
    BY <2>1, <2>4, <2>5, <2>6
<1>8. PICK a : a = IF Contains(p, s.active) THEN s.active ELSE LastOf(p)
  OBVIOUS
<1>9. /\ a \in Workspace \cup {None} /\ ((a = None) <=> (p = <<>>))
      /\ a # None => a \in ToSet(p)
  <2>1. CASE Contains(p, s.active)
    <3>1. s.active \in ToSet(p) /\ a = s.active
      BY <1>5, <1>8, <2>1, ContainsIs
    <3>2. s.active \in Workspace /\ p # <<>>
      BY <1>5, <3>1 DEF ToSet
    <3>3. QED
      BY <3>1, <3>2 DEF NoneAssumption
  <2>2. CASE ~Contains(p, s.active)
    BY <1>5, <1>8, <2>2, LastIs
  <2>3. QED
    BY <2>1, <2>2
<1>10. r = [s EXCEPT !.open = p, !.active = a, !.dismissed = d, !.prev = AskedIn(l),
                     !.hydrated = TRUE]
  BY <1>4, <1>6, <1>8 DEF Pruned, AskedIn
<1>11. /\ r \in PageStates /\ r.open = p /\ r.active = a /\ r.dismissed = d
       /\ r.prev = AskedIn(l) /\ r.hydrated = TRUE
  <2>1. p \in Seq(Workspace) /\ a \in Workspace \cup {None} /\ d \in Seq(Workspace)
    BY <1>5, <1>7, <1>9
  <2>2. QED
    BY <1>1, <1>3, <1>10, <2>1 DEF PageStates
<1>12. Len(p) <= MaxOpen
  <2>1. MaxOpen \in Nat /\ Len(s.open) \in Nat /\ Len(p) \in Nat
    BY <1>1, <1>5 DEF MaxOpenAssumption
  <2>2. QED
    BY <1>2, <1>5, <2>1
<1>13. Sound(r)
  BY <1>5, <1>9, <1>11, <1>12, SoundIs
<1>14. QED
  BY <1>5, <1>7, <1>11, <1>13 DEF SoundPage

\* The ids of a list are workspaces.
LEMMA IdsAre ==
    ASSUME NEW l \in Seq(Entry)
    PROVE  \A i \in DOMAIN l : l[i] \in Entry /\ l[i].id \in Workspace
<1>1. \A i \in DOMAIN l : l[i] \in Entry
  OBVIOUS
<1>2. \A e \in Entry : e.id \in Workspace
  BY DEF Entry
<1>3. QED
  BY <1>1, <1>2

\* The panes that come by themselves, one after another, from a page that is pruned.
Appended(start, m, id, Begin) ==
    \E f \in [0 .. m -> SoundPage] :
       /\ f[0] = start
       /\ \A n \in 1 .. m : f[n] = IF n \in Begin /\ ~Contains(f[n - 1].dismissed, id[n])
                                   THEN AppendPane(f[n - 1], id[n]) ELSE f[n - 1]

\* The loop of a reconciliation, from a page that is already pruned.
LEMMA LoopOf ==
    ASSUME MaxOpenAssumption, NoneAssumption, NEW start \in SoundPage, NEW m \in Nat,
           NEW id \in [1 .. m -> Workspace], NEW Begin \in SUBSET (1 .. m)
    PROVE  Appended(start, m, id, Begin)
<1> DEFINE next(n, p) == IF n \in Begin /\ ~Contains(p.dismissed, id[n])
                         THEN AppendPane(p, id[n]) ELSE p
           step == [n \in 1 .. m |-> [p \in SoundPage |-> next(n, p)]]
<1>1. \A n \in 1 .. m, p \in SoundPage : AppendPane(p, id[n]) \in SoundPage
  <2> TAKE n \in 1 .. m, p \in SoundPage
  <2>1. id[n] \in Workspace
    OBVIOUS
  <2>2. PICK w \in Workspace : w = id[n]
    BY <2>1
  <2>3. PICK r : r = AppendPane(p, w)
    OBVIOUS
  <2>4. r \in SoundPage
    BY <2>3, AppendPaneIs
  <2>5. QED
    BY <2>2, <2>3, <2>4
<1>2. \A n \in 1 .. m, p \in SoundPage : next(n, p) \in SoundPage
  BY <1>1
<1> HIDE DEF next
<1>3. step \in [1 .. m -> [SoundPage -> SoundPage]]
  BY <1>2
<1>4. \A n \in 1 .. m, p \in SoundPage : step[n][p] = next(n, p)
  OBVIOUS
<1> HIDE DEF step
<1>5. PICK f \in [0 .. m -> SoundPage] :
         f[0] = start /\ \A n \in 1 .. m : f[n] = step[n][f[n - 1]]
  <2>1. start \in SoundPage /\ m \in Nat
    OBVIOUS
  <2>2. Stepwise(SoundPage, start, m, step)
    BY <1>3, <2>1, Recursion
  <2>3. QED
    BY <2>2 DEF Stepwise
<1>6. \A n \in 1 .. m : f[n] = next(n, f[n - 1])
  <2> TAKE n \in 1 .. m
  <2>1. n - 1 \in 0 .. m
    OBVIOUS
  <2>2. f[n - 1] \in SoundPage
    BY <2>1
  <2>3. QED
    BY <1>4, <1>5, <2>2
<1>7. QED
  BY <1>5, <1>6 DEF next, Appended

\* The loop of a reconciliation goes through the list.
LEMMA ReconcileSteps ==
    ASSUME MaxOpenAssumption, NoneAssumption, NEW s \in SoundPage, NEW l \in Seq(Entry)
    PROVE  \E after \in [0 .. Len(l) -> SoundPage] :
              /\ after[0] = Pruned(s, l)
              /\ \A n \in 1 .. Len(l) :
                    after[n] = IF /\ IsAttention(l[n]) /\ ~s.prev[l[n].id]
                                  /\ ~Contains(after[n - 1].dismissed, l[n].id)
                               THEN AppendPane(after[n - 1], l[n].id) ELSE after[n - 1]
              /\ Reconcile(s, l) = after[IF s.hydrated THEN Len(l) ELSE 0]
<1> DEFINE m == Len(l)
           next(n, p) == IF /\ IsAttention(l[n]) /\ ~s.prev[l[n].id]
                            /\ ~Contains(p.dismissed, l[n].id)
                         THEN AppendPane(p, l[n].id) ELSE p
           is(f) == f = [n \in 0 .. m |-> IF n = 0 THEN Pruned(s, l) ELSE next(n, f[n - 1])]
           after == CHOOSE f : is(f)
           id == [n \in 1 .. m |-> l[n].id]
           Begin == {n \in 1 .. m : IsAttention(l[n]) /\ ~s.prev[l[n].id]}
<1>1. Pruned(s, l) \in SoundPage
  BY PrunedIs
<1>2. m \in Nat /\ id \in [1 .. m -> Workspace] /\ Begin \in SUBSET (1 .. m)
  BY IdsAre
<1>3. Reconcile(s, l) = after[IF s.hydrated THEN m ELSE 0]
  BY DEF Reconcile
<1>4. \A n \in 1 .. m : \A p :
         next(n, p) = IF n \in Begin /\ ~Contains(p.dismissed, id[n])
                      THEN AppendPane(p, id[n]) ELSE p
  OBVIOUS
<1> HIDE DEF next, id, Begin
<1>5. PICK g \in [0 .. m -> SoundPage] :
         g[0] = Pruned(s, l) /\ \A n \in 1 .. m : g[n] = next(n, g[n - 1])
  <2> HIDE DEF m, is, after
  <2>1. PICK start \in SoundPage : start = Pruned(s, l)
    BY <1>1
  <2>2. Appended(start, m, id, Begin)
    BY <1>2, LoopOf
  <2>3. QED
    BY <1>4, <2>1, <2>2 DEF Appended
<1>6. is(g)
  <2>1. \A n \in 0 .. m : n # 0 => n \in 1 .. m
    OBVIOUS
  <2>2. \A n \in 0 .. m : g[n] = IF n = 0 THEN Pruned(s, l) ELSE next(n, g[n - 1])
    BY <1>5, <2>1
  <2>3. g = [n \in 0 .. m |-> g[n]]
    BY <1>5
  <2> HIDE DEF m
  <2>4. QED
    BY <2>2, <2>3
<1>7. is(after)
  BY <1>6
<1> HIDE DEF after
<1>8. after[0] = Pruned(s, l) /\ \A n \in 1 .. m : after[n] = next(n, after[n - 1])
  BY <1>2, <1>7
<1>9. \A n \in 0 .. m : after[n] = g[n]
  <2> DEFINE G == {n \in 0 .. m : after[n] = g[n]}
  <2>1. 0 \in G
    BY <1>2, <1>5, <1>8
  <2>2. \A n \in 1 .. m : n - 1 \in G => n \in G
    BY <1>5, <1>8
  <2> HIDE DEF G
  <2>3. \A n \in 0 .. m : n \in G
    BY <1>2, <2>1, <2>2, Climb
  <2>4. QED
    BY <2>3 DEF G
<1>10. after \in [0 .. m -> SoundPage]
  BY <1>5, <1>7, <1>9
<1>11. QED
  BY <1>3, <1>8, <1>10 DEF next

\* A reconciliation keeps a page sound, remembers who asks, and brings no pane that
\* was not there of a workspace that asked before or was put away.
LEMMA ReconcileIs ==
    ASSUME MaxOpenAssumption, NoneAssumption, NEW s \in SoundPage, NEW l \in Seq(Entry),
           NEW r, r = Reconcile(s, l)
    PROVE  /\ r \in SoundPage /\ r.prev = AskedIn(l) /\ r.hydrated = TRUE
           /\ \A w \in Workspace :
                 /\ w \notin ToSet(s.open) /\ AskedIn(l)[w]
                 /\ s.prev[w] \/ w \in ToSet(s.dismissed) \/ ~s.hydrated
                 => w \notin ToSet(r.open)
<1> DEFINE m == Len(l)
<1>1. PICK after \in [0 .. m -> SoundPage] :
         /\ after[0] = Pruned(s, l)
         /\ \A n \in 1 .. m :
               after[n] = IF /\ IsAttention(l[n]) /\ ~s.prev[l[n].id]
                             /\ ~Contains(after[n - 1].dismissed, l[n].id)
                          THEN AppendPane(after[n - 1], l[n].id) ELSE after[n - 1]
         /\ r = after[IF s.hydrated THEN m ELSE 0]
  BY ReconcileSteps
<1>2. m \in Nat /\ \A n \in 1 .. m : l[n].id \in Workspace /\ n - 1 \in 0 .. m
  BY IdsAre
<1>3. \A n \in 0 .. m : after[n].prev = AskedIn(l) /\ after[n].hydrated = TRUE
  <2> DEFINE G == {n \in 0 .. m : after[n].prev = AskedIn(l) /\ after[n].hydrated = TRUE}
  <2>1. 0 \in G
    <3>1. after[0].prev = AskedIn(l) /\ after[0].hydrated = TRUE
      BY <1>1, PrunedIs
    <3>2. QED
      BY <1>2, <3>1
  <2>2. ASSUME NEW n \in 1 .. m, n - 1 \in G PROVE n \in G
    <3>1. after[n - 1] \in SoundPage
      BY <1>1, <1>2
    <3>2. \/ after[n] = AppendPane(after[n - 1], l[n].id)
          \/ after[n] = after[n - 1]
      BY <1>1
    <3>3. QED
      BY <1>2, <2>2, <3>1, <3>2, AppendPaneIs
  <2> HIDE DEF G
  <2>3. \A n \in 0 .. m : n \in G
    BY <1>2, <2>1, <2>2, Climb
  <2>4. QED
    BY <2>3 DEF G
<1>4. r \in SoundPage /\ r.prev = AskedIn(l) /\ r.hydrated = TRUE
  <2>1. 0 \in 0 .. m /\ m \in 0 .. m
    BY <1>2
  <2>2. QED
    BY <1>1, <1>3, <2>1
<1>5. ASSUME NEW w \in Workspace, w \notin ToSet(s.open), AskedIn(l)[w],
             s.prev[w] \/ w \in ToSet(s.dismissed)
      PROVE  \A n \in 0 .. m : w \notin ToSet(after[n].open)
  <2> DEFINE out(p) == w \notin ToSet(p.open) /\ (s.prev[w] \/ w \in ToSet(p.dismissed))
             G == {n \in 0 .. m : out(after[n])}
  <2>1. 0 \in G
    <3>1. /\ ToSet(after[0].open) \subseteq ToSet(s.open)
          /\ \A v \in ToSet(s.dismissed) : AskedIn(l)[v] => v \in ToSet(after[0].dismissed)
      BY <1>1, PrunedIs
    <3>2. out(after[0])
      BY <1>5, <3>1
    <3>3. QED
      BY <1>2, <3>2
  <2>2. ASSUME NEW n \in 1 .. m, n - 1 \in G PROVE n \in G
    <3>1. after[n - 1] \in SoundPage /\ out(after[n - 1])
      BY <1>1, <1>2, <2>2
    <3>2. CASE after[n] = after[n - 1]
      BY <3>1, <3>2
    <3>3. CASE /\ after[n] = AppendPane(after[n - 1], l[n].id)
               /\ ~s.prev[l[n].id] /\ ~Contains(after[n - 1].dismissed, l[n].id)
      <4>1. after[n - 1].dismissed \in Seq(Workspace)
        BY <3>1 DEF SoundPage, PageStates
      <4>2. l[n].id \notin ToSet(after[n - 1].dismissed)
        BY <3>3, <4>1, ContainsIs
      <4>3. w # l[n].id
        BY <3>1, <3>3, <4>2
      <4>4. /\ ToSet(after[n].open) \subseteq ToSet(after[n - 1].open) \cup {l[n].id}
            /\ ToSet(after[n].dismissed) = ToSet(after[n - 1].dismissed) \ {l[n].id}
        <5>1. PICK q \in SoundPage : q = after[n - 1]
          BY <3>1
        <5>2. PICK a : a = after[n]
          OBVIOUS
        <5>3. PICK x \in Workspace : x = l[n].id
          BY <1>2
        <5>4. a = AppendPane(q, x)
          BY <3>3, <5>1, <5>2, <5>3
        <5>5. /\ ToSet(a.open) \subseteq ToSet(q.open) \cup {x}
              /\ ToSet(a.dismissed) = ToSet(q.dismissed) \ {x}
          BY <5>4, AppendPaneIs
        <5>6. QED
          BY <5>1, <5>2, <5>3, <5>5
      <4>5. out(after[n])
        BY <3>1, <4>3, <4>4
      <4>6. QED
        BY <4>5
    <3>4. QED
      BY <1>1, <3>2, <3>3
  <2> HIDE DEF G
  <2>3. \A n \in 0 .. m : n \in G
    BY <1>2, <2>1, <2>2, Climb
  <2>4. QED
    BY <2>3 DEF G
<1>6. ASSUME NEW w \in Workspace, w \notin ToSet(s.open), ~s.hydrated
      PROVE  w \notin ToSet(r.open)
  <2>1. r = Pruned(s, l)
    BY <1>1, <1>6
  <2>2. QED
    BY <1>6, <2>1, PrunedIs
<1>7. ASSUME NEW w \in Workspace, w \notin ToSet(s.open), AskedIn(l)[w],
             s.prev[w] \/ w \in ToSet(s.dismissed)
      PROVE  w \notin ToSet(r.open)
  <2>1. 0 \in 0 .. m /\ m \in 0 .. m
    BY <1>2
  <2>2. QED
    BY <1>1, <1>5, <1>7, <2>1
<1>8. QED
  BY <1>4, <1>6, <1>7

\* What localStorage and the server hold of a sound page, and the page that comes of it.
LEMMA ViewOfIs ==
    ASSUME NEW s \in SoundPage
    PROVE  ViewOf(s) \in SoundView
<1>1. /\ s.open \in Seq(Workspace) /\ s.dismissed \in Seq(Workspace)
      /\ s.active \in Workspace \cup {None} /\ Sound(s)
  BY DEF SoundPage, PageStates
<1>2. PICK v : v = ViewOf(s)
  OBVIOUS
<1>3. v \in View /\ v.open = s.open /\ v.active = s.active
  BY <1>1, <1>2 DEF ViewOf, View
<1>4. Sound(v)
  BY <1>1, <1>3, SoundIs
<1>5. QED
  BY <1>2, <1>3, <1>4 DEF SoundView

\* A stored layout of a sound page is read as it is.
LEMMA ReadPersistedIs ==
    ASSUME MaxOpenAssumption, NEW v \in SoundView, NEW r, r = ReadPersisted(v)
    PROVE  /\ r \in SoundPage /\ ViewOf(r) = v
           /\ r.open = v.open /\ r.active = v.active /\ r.dismissed = v.dismissed
           /\ r.prev = [w \in Workspace |-> FALSE] /\ r.hydrated = FALSE
<1>1. /\ v.open \in Seq(Workspace) /\ v.dismissed \in Seq(Workspace)
      /\ v.active \in Workspace \cup {None} /\ v \in View /\ Sound(v)
  BY DEF SoundView, View
<1>2. Len(v.open) <= MaxOpen /\ Len(v.open) \in Nat
  BY <1>1, SoundIs
<1>3. PICK n : n = IF Len(v.open) < MaxOpen THEN Len(v.open) ELSE MaxOpen
  OBVIOUS
<1>4. n = Len(v.open)
  <2>1. MaxOpen \in Nat
    BY DEF MaxOpenAssumption
  <2>2. QED
    BY <1>2, <1>3, <2>1
<1>5. SubSeq(v.open, 1, n) = v.open
  <2>1. PICK o \in Seq(Workspace) : o = v.open
    BY <1>1
  <2>2. SubSeq(o, 1, Len(o)) = o
    OBVIOUS
  <2>3. QED
    BY <1>4, <2>1, <2>2
<1>6. r = [open |-> v.open, active |-> v.active, dismissed |-> v.dismissed,
           prev |-> [w \in Workspace |-> FALSE], hydrated |-> FALSE]
  BY <1>3, <1>5 DEF ReadPersisted, CreatePageState
<1>7. /\ r.open = v.open /\ r.active = v.active /\ r.dismissed = v.dismissed
      /\ r.prev = [w \in Workspace |-> FALSE] /\ r.hydrated = FALSE
  BY <1>6
<1>8. r \in PageStates
  BY <1>1, <1>6 DEF PageStates
<1>9. Sound(r)
  BY <1>1, <1>7, SoundIs
<1>10. ViewOf(r) = v
  BY <1>1, <1>7 DEF ViewOf, View
<1>11. QED
  BY <1>7, <1>8, <1>9, <1>10 DEF SoundPage

\* A remote layout replaces the panes, and leaves what the tab knows of attention.
LEMMA WithRemoteIs ==
    ASSUME MaxOpenAssumption, NEW s \in SoundPage, NEW v \in SoundView,
           NEW r, r = WithRemote(s, v)
    PROVE  /\ r \in SoundPage /\ ViewOf(r) = v /\ r.open = v.open
           /\ r.prev = s.prev /\ r.hydrated = s.hydrated
<1>1. PICK q \in SoundPage : q = ReadPersisted(v)
  BY ReadPersistedIs
<1>2. q.open = v.open /\ q.active = v.active /\ q.dismissed = v.dismissed
  BY <1>1, ReadPersistedIs
<1>3. /\ v.open \in Seq(Workspace) /\ v.dismissed \in Seq(Workspace)
      /\ v.active \in Workspace \cup {None} /\ v \in View /\ Sound(v)
  BY DEF SoundView, View
<1>4. s \in PageStates
  BY DEF SoundPage
<1>5. r = [s EXCEPT !.open = v.open, !.active = v.active, !.dismissed = v.dismissed]
  BY <1>1, <1>2 DEF WithRemote
<1>6. /\ r \in PageStates /\ r.open = v.open /\ r.active = v.active
      /\ r.dismissed = v.dismissed /\ r.prev = s.prev /\ r.hydrated = s.hydrated
  BY <1>3, <1>4, <1>5 DEF PageStates
<1>7. Sound(r)
  BY <1>3, <1>6, SoundIs
<1>8. ViewOf(r) = v
  BY <1>3, <1>6 DEF ViewOf, View
<1>9. QED
  BY <1>6, <1>7, <1>8 DEF SoundPage

UniqueIdsIn(l) == \A i, j \in DOMAIN l : l[i].id = l[j].id => i = j

\* A list that keeps the order of the page has the entries of the new list: a workspace
\* that asks for attention in one asks in the other.
LEMMA PreserveOrderIs ==
    ASSUME NEW shown \in Seq(Entry), NEW next \in Seq(Entry), UniqueIdsIn(next),
           NEW r, r = PreserveOrder(shown, next)
    PROVE  /\ r \in Seq(Entry)
           /\ \A i \in DOMAIN next :
                 IsAttention(next[i]) => AskedIn(r)[next[i].id]
<1> DEFINE place(id) == SelectInSeq(next, LAMBDA w : w.id = id)
<1>1. ASSUME NEW i \in DOMAIN next PROVE place(next[i].id) = i
  <2> DEFINE T == {j \in 1 .. Len(next) : next[j].id = next[i].id}
  <2>1. place(next[i].id) = IF T # {} THEN Min(T) ELSE 0
    BY DEF SelectInSeq
  <2>2. \A j \in 1 .. Len(next) : next[j].id = next[i].id => j = i
    BY DEF UniqueIdsIn
  <2>3. i \in T /\ \A j \in T : j = i
    BY <2>2
  <2>4. i \in Nat /\ i <= i
    OBVIOUS
  <2> HIDE DEF T, place
  <2>5. \E x \in T : \A y \in T : x <= y
    BY <2>3, <2>4
  <2>6. Min(T) \in T
    BY <2>5 DEF Min
  <2>7. QED
    BY <2>1, <2>3, <2>6
<1> HIDE DEF place
<1>2. PICK I \in SUBSET DOMAIN shown : I = {i \in DOMAIN shown : shown[i].id \in Ids(next)}
  OBVIOUS
<1>3. PICK J \in SUBSET DOMAIN next : J = {i \in DOMAIN next : next[i].id \notin Ids(shown)}
  OBVIOUS
<1>4. PICK k : k = Picked(shown, I)
  OBVIOUS
<1>5. PICK m : m = Picked(next, J)
  OBVIOUS
<1>6. k \in Seq(Entry) /\ m \in Seq(Entry)
  BY <1>4, <1>5, PickedIs
<1>7. PICK h : h = [i \in DOMAIN k |-> next[place(k[i].id)]]
  OBVIOUS
<1>8. r = h \o m
  BY <1>2, <1>3, <1>4, <1>5, <1>7 DEF PreserveOrder, Filter, place
<1>9. /\ \A i \in DOMAIN k : \E j \in I : k[i] = shown[j]
      /\ \A j \in I : \E i \in DOMAIN k : k[i] = shown[j]
      /\ \A j \in J : \E i \in DOMAIN m : m[i] = next[j]
  <2>1. PICK p \in [DOMAIN k -> I] :
           /\ \A i \in DOMAIN k : k[i] = shown[p[i]]
           /\ \A i \in I : \E j \in DOMAIN k : p[j] = i
    BY <1>4, PickedIs
  <2>2. PICK q \in [DOMAIN m -> J] :
           /\ \A i \in DOMAIN m : m[i] = next[q[i]]
           /\ \A i \in J : \E j \in DOMAIN m : q[j] = i
    BY <1>5, PickedIs
  <2>3. \A i \in DOMAIN k : \E j \in I : k[i] = shown[j]
    BY <2>1
  <2>4. \A j \in I : \E i \in DOMAIN k : k[i] = shown[j]
    BY <2>1
  <2>5. \A j \in J : \E i \in DOMAIN m : m[i] = next[j]
    BY <2>2
  <2>6. QED
    BY <2>3, <2>4, <2>5
<1>10. \A i \in DOMAIN k : \E j \in DOMAIN next : k[i].id = next[j].id
  <2>1. \A j \in I : shown[j].id \in Ids(next)
    BY <1>2
  <2>2. QED
    BY <1>9, <2>1 DEF Ids
<1>11. \A i \in DOMAIN k, j \in DOMAIN next : k[i].id = next[j].id => h[i] = next[j]
  BY <1>1, <1>7
<1>12. h \in Seq(Entry) /\ DOMAIN h = DOMAIN k
  <2>1. DOMAIN k = 1 .. Len(k) /\ Len(k) \in Nat
    BY <1>6
  <2>2. \A j \in DOMAIN next : next[j] \in Entry
    OBVIOUS
  <2>3. \A i \in DOMAIN k : h[i] \in Entry
    BY <1>10, <1>11, <2>2
  <2>4. h = [i \in DOMAIN k |-> h[i]]
    BY <1>7
  <2>5. QED
    BY <2>1, <2>3, <2>4
<1>13. r \in Seq(Entry)
  BY <1>6, <1>8, <1>12
<1>14. /\ \A i \in DOMAIN h : i \in DOMAIN r /\ r[i] = h[i]
       /\ \A i \in DOMAIN m : \E j \in DOMAIN r : r[j] = m[i]
  <2>1. \A i \in DOMAIN h : i \in DOMAIN r /\ r[i] = h[i]
    BY <1>6, <1>8, <1>12
  <2>2. ASSUME NEW i \in DOMAIN m PROVE Len(h) + i \in DOMAIN r /\ r[Len(h) + i] = m[i]
    BY <1>6, <1>8, <1>12
  <2>3. QED
    BY <2>1, <2>2
<1>15. ASSUME NEW i \in DOMAIN next, IsAttention(next[i])
       PROVE  \E j \in DOMAIN r : r[j] = next[i]
  <2>1. CASE next[i].id \in Ids(shown)
    <3>1. PICK j \in DOMAIN shown : shown[j].id = next[i].id
      BY <2>1 DEF Ids
    <3>2. j \in I
      BY <1>2, <3>1 DEF Ids
    <3>3. PICK n \in DOMAIN k : k[n] = shown[j]
      BY <1>9, <3>2
    <3>4. h[n] = next[i] /\ n \in DOMAIN h
      BY <1>11, <1>12, <3>1, <3>3
    <3>5. QED
      BY <1>14, <3>4
  <2>2. CASE next[i].id \notin Ids(shown)
    <3>1. i \in J
      BY <1>3, <2>2
    <3>2. PICK n \in DOMAIN m : m[n] = next[i]
      BY <1>9, <3>1
    <3>3. QED
      BY <1>14, <3>2
  <2>3. QED
    BY <2>1, <2>2
<1>16. ASSUME NEW i \in DOMAIN next, IsAttention(next[i]) PROVE AskedIn(r)[next[i].id]
  <2>1. next[i].id \in Workspace
    BY IdsAre
  <2>2. PICK j \in DOMAIN r : r[j] = next[i]
    BY <1>15, <1>16
  <2>3. QED
    BY <1>16, <2>1, <2>2 DEF AskedIn
<1>17. QED
  BY <1>13, <1>16

\* The sections of the sidebar hold entries of the list.
LEMMA SectionsIs ==
    ASSUME NEW l \in Seq(Entry), NEW key, key \in {"attention", "running", "idle"},
           NEW i \in DOMAIN Sections(l)[key]
    PROVE  Sections(l)[key][i] \in Entry /\ l # <<>>
<1>1. PICK I \in SUBSET DOMAIN l : I = {j \in DOMAIN l : SectionOf(l[j]) = key}
  OBVIOUS
<1>2. Sections(l)[key] = Picked(l, I)
  BY <1>1 DEF Sections, Filter
<1>3. Picked(l, I) \in Seq(Entry) /\ Len(Picked(l, I)) <= Len(l)
  BY PickedIs
<1>4. PICK p \in Seq(Entry) : p = Picked(l, I)
  BY <1>3
<1>5. i \in DOMAIN p /\ p[i] \in Entry /\ Len(p) >= 1 /\ Len(l) # 0
  BY <1>2, <1>3, <1>4
<1>6. QED
  BY <1>2, <1>4, <1>5

-----------------------------------------------------------------------------
(* The tabs and the server *)

\* What TLC also checks of every instance.
Assumptions ==
    /\ MaxOpenAssumption /\ NoneAssumption /\ BoardsAssumption /\ FirstViewAssumption
    /\ RunningAssumption

Frames == [kind : {"view"}, view : SoundView] \cup [kind : {"list"}, list : Boards]
Loads == [stage : {"none"}, list : {<<>>}] \cup [stage : {"answered"}, list : Boards]
Puts == [view : SoundView, stage : {"sent", "stored", "told"}]

\* Everything that is or will be a page, or a view of one, is sound: also what is in
\* localStorage, on its way, or under way in a PUT.
PageType == page \in [Tab -> SoundPage] /\ list \in [Tab -> Seq(Entry)]
FlagType ==
    /\ sig \in [Tab -> View \cup {None}] /\ hydrated \in [Tab -> BOOLEAN]
    /\ phase \in [Tab -> {"never", "closed", "asked", "up"}]
    /\ online \in [Tab -> BOOLEAN] /\ seen \in [Tab -> SUBSET Workspace]
    /\ calm \in BOOLEAN /\ behind \in [Tab -> BOOLEAN] /\ shut \in [Tab -> SUBSET Workspace]
TransitType ==
    /\ answer \in [Tab -> SoundView \cup {None}]
    /\ \A t \in Tab : phase[t] = "asked" => answer[t] \in SoundView
    /\ load \in [Tab -> Loads] /\ inbox \in [Tab -> Seq(Frames)]
    /\ puts \in [Tab -> Seq(Puts)]
    /\ storage \in SoundView
ServerType == view \in SoundView /\ board \in Boards
ViewType == PageType /\ FlagType /\ TransitType /\ ServerType

\* A list of the server is a list of entries, each workspace once.
LEMMA BoardIs ==
    ASSUME Assumptions, NEW b, b \in Boards
    PROVE  b \in Seq(Entry) /\ UniqueIdsIn(b)
  BY DEF Assumptions, BoardsAssumption, UniqueIdsIn

\* What a frame carries.
LEMMA FrameIs ==
    ASSUME NEW f, f \in Frames
    PROVE  /\ f.kind = "view" => f.view \in SoundView
           /\ f.kind = "list" => f.list \in Boards
  BY DEF Frames

\* The list of an answer.
LEMMA LoadIs ==
    ASSUME NEW f, f \in Loads, f.stage = "answered"
    PROVE  f.list \in Boards
  BY DEF Loads

\* The start of a tab.
LEMMA FirstPageIs ==
    ASSUME Assumptions, NEW l \in Seq(Entry), NEW r, r = Reconcile(ReadPersisted(FirstView), l)
    PROVE  r \in SoundPage /\ FirstView \in SoundView /\ r.prev = AskedIn(l)
<1>1. FirstView \in SoundView /\ MaxOpenAssumption /\ NoneAssumption
  BY DEF Assumptions, FirstViewAssumption, SoundView
<1>2. PICK v \in SoundView : v = FirstView
  BY <1>1
<1>3. PICK p \in SoundPage : p = ReadPersisted(v)
  BY <1>1, ReadPersistedIs
<1>4. r = Reconcile(p, l)
  BY <1>2, <1>3
<1>5. r \in SoundPage /\ r.prev = AskedIn(l)
  BY <1>1, <1>4, ReconcileIs
<1>6. QED
  BY <1>1, <1>5

\* The type at the start.
LEMMA TypeInit ==
    ASSUME Assumptions, ViewInit
    PROVE  ViewType
<1>1. FirstView \in SoundView /\ <<>> \in Seq(Entry) /\ board \in Boards
  <2>1. <<>> \in Seq(Entry)
    OBVIOUS
  <2>2. FirstView \in SoundView
    BY <2>1, FirstPageIs
  <2>3. QED
    BY <2>1, <2>2 DEF ViewInit
<1>2. board \in Seq(Entry)
  BY <1>1, BoardIs
<1>3. list \in [Tab -> Seq(Entry)]
  BY <1>1, <1>2 DEF ViewInit
<1>4. ASSUME NEW t \in Tab PROVE Reconcile(ReadPersisted(FirstView), list[t]) \in SoundPage
  <2>1. PICK l \in Seq(Entry) : l = list[t]
    BY <1>3
  <2>2. QED
    BY <2>1, FirstPageIs
<1>5. page \in [Tab -> SoundPage]
  BY <1>4 DEF ViewInit
<1>6. FlagType
  <2>1. FirstView \in View
    BY <1>1 DEF SoundView
  <2>2. sig \in [Tab -> View \cup {None}]
    BY <2>1 DEF ViewInit
  <2>3. hydrated \in [Tab -> BOOLEAN] /\ online \in [Tab -> BOOLEAN]
    BY DEF ViewInit
  <2>4. phase \in [Tab -> {"never", "closed", "asked", "up"}]
    BY DEF ViewInit
  <2>5. /\ seen \in [Tab -> SUBSET Workspace] /\ shut \in [Tab -> SUBSET Workspace]
        /\ calm \in BOOLEAN /\ behind \in [Tab -> BOOLEAN]
    BY DEF ViewInit
  <2>6. QED
    BY <2>2, <2>3, <2>4, <2>5 DEF FlagType
<1>7. TransitType
  <2>1. answer \in [Tab -> SoundView \cup {None}]
    BY DEF ViewInit
  <2>2. \A t \in Tab : phase[t] # "asked"
    BY DEF ViewInit
  <2>3. NoLoad \in Loads
    BY DEF NoLoad, Loads
  <2>4. load \in [Tab -> Loads]
    BY <2>3 DEF ViewInit
  <2>5. <<>> \in Seq(Frames) /\ <<>> \in Seq(Puts)
    OBVIOUS
  <2>6. inbox \in [Tab -> Seq(Frames)] /\ puts \in [Tab -> Seq(Puts)]
    BY <2>5 DEF ViewInit
  <2>7. storage \in SoundView
    BY <1>1 DEF ViewInit
  <2>8. QED
    BY <2>1, <2>2, <2>4, <2>6, <2>7 DEF TransitType
<1>8. ServerType
  BY <1>1 DEF ViewInit, ServerType
<1>9. QED
  BY <1>3, <1>5, <1>6, <1>7, <1>8 DEF ViewType, PageType

\* What Show does with a sound page.
LEMMA ShowIs ==
    ASSUME Assumptions, ViewType, NEW t \in Tab, NEW p \in SoundPage, NEW isRemote \in BOOLEAN,
           Show(t, p, isRemote)
    PROVE  /\ page' = [page EXCEPT ![t] = p] /\ page' \in [Tab -> SoundPage]
           /\ storage' \in SoundView /\ sig' \in [Tab -> View \cup {None}]
           /\ puts' \in [Tab -> Seq(Puts)] /\ calm' \in BOOLEAN
<1>1. PICK v \in SoundView : v = ViewOf(p)
  BY ViewOfIs
<1>2. v \in View
  BY <1>1 DEF SoundView
<1>3. page' = [page EXCEPT ![t] = p] /\ storage' = v
  BY <1>1 DEF Show
<1>4. page' \in [Tab -> SoundPage]
  BY <1>3 DEF ViewType, PageType
<1>5. sig' = sig \/ sig' = [sig EXCEPT ![t] = v]
  BY <1>1 DEF Show
<1>6. sig' \in [Tab -> View \cup {None}]
  BY <1>2, <1>5 DEF ViewType, FlagType
<1>7. puts' = puts \/ puts' = [puts EXCEPT ![t] = Append(@, [view |-> v, stage |-> "sent"])]
  BY <1>1 DEF Show
<1>8. puts' \in [Tab -> Seq(Puts)]
  <2>1. puts \in [Tab -> Seq(Puts)]
    BY DEF ViewType, TransitType
  <2>2. [view |-> v, stage |-> "sent"] \in Puts
    BY DEF Puts
  <2>3. PICK q \in Puts : q = [view |-> v, stage |-> "sent"]
    BY <2>2
  <2>4. Append(puts[t], q) \in Seq(Puts)
    BY <2>1
  <2>5. CASE puts' = puts
    BY <2>1, <2>5
  <2>6. CASE puts' = [puts EXCEPT ![t] = Append(@, [view |-> v, stage |-> "sent"])]
    <3>1. puts' = [puts EXCEPT ![t] = Append(puts[t], q)]
      BY <2>3, <2>6
    <3>2. QED
      BY <2>1, <2>4, <3>1
  <2>7. QED
    BY <1>7, <2>5, <2>6
<1>9. calm' \in BOOLEAN
  <2>1. calm \in BOOLEAN
    BY DEF ViewType, FlagType
  <2>2. calm' = calm \/ calm' = (calm /\ NoPut)
    BY DEF Show
  <2>3. QED
    BY <2>1, <2>2
<1>10. QED
  BY <1>3, <1>4, <1>6, <1>8, <1>9

\* A view of the server takes the place of the layout of a tab.
LEMMA ApplyViewIs ==
    ASSUME Assumptions, ViewType, NEW t \in Tab, NEW v \in SoundView, ApplyView(t, v)
    PROVE  /\ page' = [page EXCEPT ![t] = WithRemote(page[t], v)]
           /\ page' \in [Tab -> SoundPage]
           /\ storage' \in SoundView /\ sig' \in [Tab -> View \cup {None}]
           /\ sig' = [sig EXCEPT ![t] = v] /\ puts' = puts /\ calm' = calm
           /\ hydrated' \in [Tab -> BOOLEAN] /\ shut' \in [Tab -> SUBSET Workspace]
<1>1. page[t] \in SoundPage
  BY DEF ViewType, PageType
<1>2. PICK p \in SoundPage : p = page[t]
  BY <1>1
<1>3. PICK r : r = WithRemote(p, v)
  OBVIOUS
<1>4. r \in SoundPage /\ ViewOf(r) = v
  BY <1>3, WithRemoteIs DEF Assumptions
<1>5. Show(t, r, TRUE)
  BY <1>2, <1>3 DEF ApplyView
<1>6. /\ page' = [page EXCEPT ![t] = r] /\ page' \in [Tab -> SoundPage]
      /\ storage' \in SoundView /\ sig' \in [Tab -> View \cup {None}]
  BY <1>4, <1>5, ShowIs
<1>7. sig' = [sig EXCEPT ![t] = v] /\ puts' = puts /\ calm' = calm
  BY <1>4, <1>5 DEF Show
<1>8. hydrated' \in [Tab -> BOOLEAN]
  BY DEF ApplyView, ViewType, FlagType
<1>9. shut' \in [Tab -> SUBSET Workspace]
  BY DEF ApplyView, ViewType, FlagType
<1>10. QED
  BY <1>2, <1>3, <1>6, <1>7, <1>8, <1>9

\* A list of the server is taken over, and the layout follows it.
LEMMA ApplyListIs ==
    ASSUME Assumptions, ViewType, NEW t \in Tab, NEW l, l \in Boards, ApplyList(t, l)
    PROVE  /\ page' \in [Tab -> SoundPage] /\ list' \in [Tab -> Seq(Entry)]
           /\ storage' \in SoundView /\ sig' \in [Tab -> View \cup {None}]
           /\ puts' \in [Tab -> Seq(Puts)] /\ calm' \in BOOLEAN
           /\ shut' \in [Tab -> SUBSET Workspace]
           /\ \E m \in Seq(Entry), r \in SoundPage :
                 /\ m = PreserveOrder(list[t], l) /\ r = Reconcile(page[t], m)
                 /\ list' = [list EXCEPT ![t] = m] /\ page' = [page EXCEPT ![t] = r]
                 /\ Show(t, r, FALSE)
<1>1. l \in Seq(Entry) /\ UniqueIdsIn(l)
  BY BoardIs
<1>2. page[t] \in SoundPage /\ list[t] \in Seq(Entry)
  BY DEF ViewType, PageType
<1>3. PICK m : m = PreserveOrder(list[t], l)
  OBVIOUS
<1>4. m \in Seq(Entry)
  BY <1>1, <1>2, <1>3, PreserveOrderIs
<1>5. PICK r : r = Reconcile(page[t], m)
  OBVIOUS
<1>6. r \in SoundPage
  BY <1>2, <1>4, <1>5, ReconcileIs DEF Assumptions
<1>7. Show(t, r, FALSE)
  BY <1>3, <1>5 DEF ApplyList
<1>8. /\ page' = [page EXCEPT ![t] = r] /\ page' \in [Tab -> SoundPage]
      /\ storage' \in SoundView /\ sig' \in [Tab -> View \cup {None}]
      /\ puts' \in [Tab -> Seq(Puts)] /\ calm' \in BOOLEAN
  BY <1>6, <1>7, ShowIs
<1>9. list' = [list EXCEPT ![t] = m]
  BY <1>3 DEF ApplyList
<1>10. list' \in [Tab -> Seq(Entry)]
  BY <1>4, <1>9 DEF ViewType, PageType
<1>11. shut' \in [Tab -> SUBSET Workspace]
  BY DEF ApplyList, ViewType, FlagType
<1>12. QED
  BY <1>3, <1>4, <1>5, <1>6, <1>7, <1>8, <1>9, <1>10, <1>11

\* The list a tab that starts, or lost its socket, is sent.
LEMMA AnsweredIs ==
    ASSUME ViewType, NEW t \in Tab,
           load' = [load EXCEPT ![t] = [stage |-> "answered", list |-> board]]
    PROVE  load' \in [Tab -> Loads]
<1>1. board \in Boards /\ load \in [Tab -> Loads]
  BY DEF ViewType, ServerType, TransitType
<1>2. [stage |-> "answered", list |-> board] \in Loads
  BY <1>1 DEF Loads
<1>3. QED
  BY <1>1, <1>2

\* No list is under way any more.
LEMMA LoadedIs ==
    ASSUME ViewType, NEW t \in Tab, load' = [load EXCEPT ![t] = NoLoad]
    PROVE  load' \in [Tab -> Loads]
<1>1. load \in [Tab -> Loads]
  BY DEF ViewType, TransitType
<1>2. NoLoad \in Loads
  BY DEF NoLoad, Loads
<1>3. QED
  BY <1>1, <1>2

\* The first frame is handled.
LEMMA HandledIs ==
    ASSUME ViewType, NEW t \in Tab, inbox[t] # <<>>,
           inbox' = [inbox EXCEPT ![t] = Tail(@)]
    PROVE  inbox' \in [Tab -> Seq(Frames)] /\ Head(inbox[t]) \in Frames
<1>1. inbox \in [Tab -> Seq(Frames)]
  BY DEF ViewType, TransitType
<1>2. PICK q \in Seq(Frames) : q = inbox[t]
  BY <1>1
<1>3. q # <<>> /\ Tail(q) \in Seq(Frames) /\ Head(q) \in Frames
  BY <1>2
<1>4. inbox' = [inbox EXCEPT ![t] = Tail(q)]
  BY <1>2
<1>5. QED
  BY <1>1, <1>2, <1>3, <1>4

\* A frame more for every tab that is online.
LEMMA BroadcastIs ==
    ASSUME ViewType, NEW f \in Frames, Broadcast(f)
    PROVE  inbox' \in [Tab -> Seq(Frames)]
<1>1. inbox \in [Tab -> Seq(Frames)]
  BY DEF ViewType, TransitType
<1>2. \A t \in Tab : Append(inbox[t], f) \in Seq(Frames)
  BY <1>1
<1>3. QED
  BY <1>1, <1>2 DEF Broadcast

-----------------------------------------------------------------------------
(* Every step keeps the type *)

\* The start of a tab.
LEMMA TypeStart ==
    ASSUME Assumptions, ViewType, NEW t \in Tab,
           OpenTab(t) \/ ViewArrives(t) \/ ViewFails(t)
    PROVE  ViewType'
<1>0. ServerType'
  BY DEF ViewType, ServerType, OpenTab, ViewArrives, ViewFails, serverVars
<1>1. CASE OpenTab(t)
  <2>1. PICK v \in SoundView : v = storage
    BY DEF ViewType, TransitType
  <2>2. PICK p \in SoundPage : p = ReadPersisted(v)
    BY ReadPersistedIs DEF Assumptions
  <2>3. page' = [page EXCEPT ![t] = p] /\ list' = list
    BY <1>1, <2>1, <2>2 DEF OpenTab
  <2>4. PageType'
    BY <2>3 DEF ViewType, PageType
  <2>5. phase' \in [Tab -> {"never", "closed", "asked", "up"}]
    BY <1>1 DEF OpenTab, ViewType, FlagType
  <2>6. FlagType'
    BY <1>1, <2>5 DEF OpenTab, ViewType, FlagType, history
  <2>7. view \in SoundView /\ answer \in [Tab -> SoundView \cup {None}]
    BY DEF ViewType, ServerType, TransitType
  <2>8. answer' = [answer EXCEPT ![t] = view] /\ answer' \in [Tab -> SoundView \cup {None}]
    BY <1>1, <2>7 DEF OpenTab
  <2>9. ASSUME NEW u \in Tab, phase'[u] = "asked" PROVE answer'[u] \in SoundView
    <3>1. CASE u = t
      BY <2>7, <2>8, <3>1
    <3>2. CASE u # t
      <4>1. phase[u] = "asked" /\ answer'[u] = answer[u]
        BY <1>1, <2>7, <2>8, <2>9, <3>2 DEF OpenTab, ViewType, FlagType
      <4>2. QED
        BY <4>1 DEF ViewType, TransitType
    <3>3. QED
      BY <3>1, <3>2
  <2>10. TransitType'
    BY <1>1, <2>8, <2>9 DEF OpenTab, ViewType, TransitType
  <2>11. QED
    BY <1>0, <2>4, <2>6, <2>10 DEF ViewType
<1>2. CASE ViewArrives(t) \/ ViewFails(t)
  <2>1. phase[t] = "asked" /\ answer[t] \in SoundView
    BY <1>2 DEF ViewArrives, ViewFails, ViewType, TransitType
  <2>2. /\ phase' = [phase EXCEPT ![t] = "up"] /\ answer' = [answer EXCEPT ![t] = None]
        /\ load' = [load EXCEPT ![t] = [stage |-> "answered", list |-> board]]
        /\ online' = online /\ inbox' = inbox /\ seen' = seen /\ list' = list
    BY <1>2 DEF ViewArrives, ViewFails
  <2>3. load' \in [Tab -> Loads]
    BY <2>2, AnsweredIs
  <2>4. /\ page' \in [Tab -> SoundPage] /\ storage' \in SoundView
        /\ sig' \in [Tab -> View \cup {None}] /\ puts' = puts
        /\ calm' = calm
        /\ hydrated' \in [Tab -> BOOLEAN] /\ shut' \in [Tab -> SUBSET Workspace]
    <3>1. CASE ViewArrives(t)
      <4>1. PICK v \in SoundView : v = answer[t]
        BY <2>1
      <4>2. ApplyView(t, v)
        BY <3>1, <4>1 DEF ViewArrives
      <4>3. QED
        BY <4>2, ApplyViewIs
    <3>2. CASE ViewFails(t)
      <4>1. hydrated' \in [Tab -> BOOLEAN]
        BY <3>2 DEF ViewFails, ViewType, FlagType
      <4>2. QED
        BY <3>2, <4>1 DEF ViewFails, ViewType, PageType, FlagType, TransitType
    <3>3. QED
      BY <1>2, <3>1, <3>2
  <2>5. behind' \in [Tab -> BOOLEAN]
    BY <1>2 DEF ViewArrives, ViewFails, ViewType, FlagType
  <2>6. phase' \in [Tab -> {"never", "closed", "asked", "up"}]
    BY <2>2 DEF ViewType, FlagType
  <2>7. FlagType'
    BY <2>2, <2>4, <2>5, <2>6 DEF ViewType, FlagType
  <2>8. answer' \in [Tab -> SoundView \cup {None}]
    BY <2>2 DEF ViewType, TransitType
  <2>9. \A u \in Tab : phase'[u] = "asked" => u # t /\ phase[u] = "asked"
    BY <2>2 DEF ViewType, FlagType
  <2>10. \A u \in Tab : u # t => answer'[u] = answer[u]
    BY <2>2 DEF ViewType, TransitType
  <2>11. \A u \in Tab : phase'[u] = "asked" => answer'[u] \in SoundView
    BY <2>9, <2>10 DEF ViewType, TransitType
  <2>12. TransitType'
    BY <2>2, <2>3, <2>4, <2>8, <2>11 DEF ViewType, TransitType
  <2>13. PageType'
    BY <2>2, <2>4 DEF ViewType, PageType
  <2>14. QED
    BY <1>0, <2>7, <2>12, <2>13 DEF ViewType
<1>3. QED
  BY <1>1, <1>2

\* The list a tab loaded.
LEMMA TypeList ==
    ASSUME Assumptions, ViewType, NEW t \in Tab,
           ListArrives(t) \/ ListFails(t)
    PROVE  ViewType'
<1>0. ServerType'
  BY DEF ViewType, ServerType, ListArrives, ListFails, serverVars
<1>1. load' \in [Tab -> Loads] /\ load[t] \in Loads /\ load[t].stage = "answered"
  <2>1. load' = [load EXCEPT ![t] = NoLoad] /\ load[t].stage = "answered"
    BY DEF ListArrives, ListFails
  <2>2. load[t] \in Loads
    BY DEF ViewType, TransitType
  <2>3. QED
    BY <2>1, <2>2, LoadedIs
<1>2. /\ hydrated' = hydrated /\ phase' = phase /\ answer' = answer /\ online' = online
      /\ inbox' = inbox /\ seen' = seen /\ behind' = behind
  BY DEF ListArrives, ListFails, history
<1>3. /\ page' \in [Tab -> SoundPage] /\ list' \in [Tab -> Seq(Entry)]
      /\ storage' \in SoundView /\ sig' \in [Tab -> View \cup {None}]
      /\ puts' \in [Tab -> Seq(Puts)] /\ calm' \in BOOLEAN
      /\ shut' \in [Tab -> SUBSET Workspace]
  <2>1. CASE ListArrives(t)
    <3>1. PICK l : l = load[t].list
      OBVIOUS
    <3>2. l \in Boards
      BY <1>1, <3>1, LoadIs
    <3>3. ApplyList(t, l)
      BY <2>1, <3>1 DEF ListArrives
    <3>4. QED
      BY <3>2, <3>3, ApplyListIs
  <2>2. CASE ListFails(t)
    BY <2>2 DEF ListFails, history, ViewType, PageType, FlagType, TransitType
  <2>3. QED
    BY <2>1, <2>2
<1>4. PageType'
  BY <1>3 DEF PageType
<1>5. FlagType'
  BY <1>2, <1>3 DEF ViewType, FlagType
<1>6. TransitType'
  BY <1>1, <1>2, <1>3 DEF ViewType, TransitType
<1>7. QED
  BY <1>0, <1>4, <1>5, <1>6 DEF ViewType

\* The board socket opens or breaks.
LEMMA TypeSocket ==
    ASSUME Assumptions, ViewType, NEW t \in Tab,
           Connect(t) \/ SocketBreaks(t)
    PROVE  ViewType'
<1>1. CASE Connect(t)
  <2>1. online' \in [Tab -> BOOLEAN]
    BY <1>1 DEF Connect, ViewType, FlagType
  <2>2. FlagType'
    BY <1>1, <2>1 DEF Connect, ViewType, FlagType, history
  <2>3. PageType' /\ TransitType' /\ ServerType'
    BY <1>1 DEF Connect, ViewType, PageType, TransitType, ServerType, serverVars
  <2>4. QED
    BY <2>2, <2>3 DEF ViewType
<1>2. CASE SocketBreaks(t)
  <2>1. online' \in [Tab -> BOOLEAN]
    BY <1>2 DEF SocketBreaks, ViewType, FlagType
  <2>2. behind' \in [Tab -> BOOLEAN]
    <3>1. behind[t] \in BOOLEAN /\ behind \in [Tab -> BOOLEAN]
      BY DEF ViewType, FlagType
    <3>2. PICK e \in BOOLEAN :
            e = (behind[t] \/ \E i \in DOMAIN inbox[t] : inbox[t][i].kind = "view")
      BY <3>1
    <3>3. behind' = [behind EXCEPT ![t] = e]
      BY <1>2, <3>2 DEF SocketBreaks
    <3>4. QED
      BY <3>1, <3>3
  <2>3. FlagType'
    BY <1>2, <2>1, <2>2 DEF SocketBreaks, ViewType, FlagType
  <2>4. load' \in [Tab -> Loads]
    BY <1>2, AnsweredIs DEF SocketBreaks
  <2>5. inbox' \in [Tab -> Seq(Frames)]
    <3>1. <<>> \in Seq(Frames)
      OBVIOUS
    <3>2. QED
      BY <1>2, <3>1 DEF SocketBreaks, ViewType, TransitType
  <2>6. TransitType'
    BY <1>2, <2>4, <2>5 DEF SocketBreaks, ViewType, TransitType
  <2>7. PageType' /\ ServerType'
    BY <1>2 DEF SocketBreaks, ViewType, PageType, ServerType, serverVars
  <2>8. QED
    BY <2>3, <2>6, <2>7 DEF ViewType
<1>3. QED
  BY <1>1, <1>2

\* A frame of the board socket.
LEMMA TypeFrame ==
    ASSUME Assumptions, ViewType, NEW t \in Tab,
           ViewFrame(t) \/ ListFrame(t)
    PROVE  ViewType'
<1>0. ServerType'
  BY DEF ViewType, ServerType, ViewFrame, ListFrame, serverVars
<1>1. inbox' \in [Tab -> Seq(Frames)] /\ Head(inbox[t]) \in Frames
  BY HandledIs DEF ViewFrame, ListFrame
<1>2. /\ phase' = phase /\ answer' = answer /\ load' = load /\ online' = online
      /\ seen' = seen
  BY DEF ViewFrame, ListFrame
<1>3. /\ page' \in [Tab -> SoundPage] /\ list' \in [Tab -> Seq(Entry)]
      /\ storage' \in SoundView /\ sig' \in [Tab -> View \cup {None}]
      /\ puts' \in [Tab -> Seq(Puts)] /\ calm' \in BOOLEAN
      /\ shut' \in [Tab -> SUBSET Workspace] /\ hydrated' \in [Tab -> BOOLEAN]
  <2>1. CASE ListFrame(t)
    <3>1. PICK l : l = Head(inbox[t]).list
      OBVIOUS
    <3>2. l \in Boards
      BY <1>1, <2>1, <3>1, FrameIs DEF ListFrame
    <3>3. ApplyList(t, l) /\ hydrated' = hydrated
      BY <2>1, <3>1 DEF ListFrame
    <3>4. hydrated \in [Tab -> BOOLEAN]
      BY DEF ViewType, FlagType
    <3>5. QED
      BY <3>2, <3>3, <3>4, ApplyListIs
  <2>2. CASE ViewFrame(t)
    <3>1. Head(inbox[t]).view \in SoundView
      BY <1>1, <2>2, FrameIs DEF ViewFrame
    <3>2. PICK v \in SoundView : v = Head(inbox[t]).view
      BY <3>1
    <3>3. ApplyView(t, v) /\ list' = list
      BY <2>2, <3>2 DEF ViewFrame
    <3>4. list \in [Tab -> Seq(Entry)] /\ puts \in [Tab -> Seq(Puts)] /\ calm \in BOOLEAN
      BY DEF ViewType, PageType, TransitType, FlagType
    <3>5. QED
      BY <3>3, <3>4, ApplyViewIs
  <2>3. QED
    BY <2>1, <2>2
<1>4. behind' \in [Tab -> BOOLEAN]
  BY DEF ViewFrame, ListFrame, ViewType, FlagType
<1>5. PageType'
  BY <1>3 DEF PageType
<1>6. FlagType'
  BY <1>2, <1>3, <1>4 DEF ViewType, FlagType
<1>7. TransitType'
  BY <1>1, <1>2, <1>3 DEF ViewType, TransitType
<1>8. QED
  BY <1>0, <1>5, <1>6, <1>7 DEF ViewType

\* The page and the history of a click.
LEMMA ClickIs ==
    ASSUME Assumptions, ViewType, NEW t \in Tab, NEW w \in Entry,
           OpenWorkspace(t, w)
    PROVE  \E r \in SoundPage : /\ r = OpenPane(page[t], w.id) /\ Show(t, r, FALSE)
                                /\ shut' = [shut EXCEPT ![t] = @ \ {w.id}]
<1>1. page[t] \in SoundPage /\ w.id \in Workspace
  BY DEF ViewType, PageType, Entry
<1>2. PICK r : r = OpenPane(page[t], w.id)
  OBVIOUS
<1>3. r \in SoundPage
  BY <1>1, <1>2, OpenPaneIs DEF Assumptions
<1>4. QED
  BY <1>2, <1>3 DEF OpenWorkspace

\* A click on a card.
LEMMA TypeOpen ==
    ASSUME Assumptions, ViewType, NEW t \in Tab, NEW w \in Entry,
           OpenWorkspace(t, w)
    PROVE  ViewType'
<1>1. PICK r \in SoundPage : Show(t, r, FALSE) /\ shut' = [shut EXCEPT ![t] = @ \ {w.id}]
  BY ClickIs
<1>2. /\ page' \in [Tab -> SoundPage] /\ storage' \in SoundView
      /\ sig' \in [Tab -> View \cup {None}]
      /\ puts' \in [Tab -> Seq(Puts)] /\ calm' \in BOOLEAN
  BY <1>1, ShowIs
<1>3. shut' \in [Tab -> SUBSET Workspace]
  BY <1>1 DEF ViewType, FlagType
<1>4. seen' \in [Tab -> SUBSET Workspace]
  <2>1. w.id \in Workspace /\ seen \in [Tab -> SUBSET Workspace]
    BY DEF Entry, ViewType, FlagType
  <2>2. seen' = seen \/ seen' = [seen EXCEPT ![t] = @ \cup {w.id}]
    BY DEF OpenWorkspace
  <2>3. QED
    BY <2>1, <2>2
<1>5. /\ list' = list /\ hydrated' = hydrated /\ phase' = phase /\ answer' = answer
      /\ load' = load /\ online' = online /\ inbox' = inbox /\ behind' = behind
      /\ view' = view /\ board' = board
  BY DEF OpenWorkspace, serverVars
<1>6. PageType' /\ FlagType' /\ ServerType'
  BY <1>2, <1>3, <1>4, <1>5 DEF ViewType, PageType, FlagType, ServerType
<1>7. TransitType'
  BY <1>2, <1>5 DEF ViewType, TransitType
<1>8. QED
  BY <1>6, <1>7 DEF ViewType

\* A pane is closed.
LEMMA CloseIs ==
    ASSUME Assumptions, ViewType, NEW t \in Tab, NEW i \in DOMAIN list[t],
           CloseWorkspace(t, i)
    PROVE  \E w \in Entry, r \in SoundPage :
              /\ w = list[t][i] /\ Show(t, r, FALSE)
              /\ r.prev = page[t].prev /\ r.hydrated = page[t].hydrated
              /\ ToSet(r.open) = ToSet(page[t].open) \ {w.id}
              /\ \/ shut' = shut
                 \/ IsAttention(w) /\ shut' = [shut EXCEPT ![t] = @ \cup {w.id}]
<1>1. page[t] \in SoundPage /\ list[t] \in Seq(Entry)
  BY DEF ViewType, PageType
<1>2. PICK l \in Seq(Entry) : l = list[t]
  BY <1>1
<1>3. l[i] \in Entry /\ l[i].id \in Workspace
  BY <1>2, IdsAre
<1>4. PICK w \in Entry : w = list[t][i] /\ w.id \in Workspace
  BY <1>2, <1>3
<1>5. PICK keep \in BOOLEAN : keep = (w.needs \/ w.approval \/ w.unseen)
  OBVIOUS
<1>6. PICK r : r = DismissPane(page[t], w.id, keep)
  OBVIOUS
<1>7. /\ r \in SoundPage /\ r.prev = page[t].prev /\ r.hydrated = page[t].hydrated
      /\ ToSet(r.open) = ToSet(page[t].open) \ {w.id}
  <2>1. PICK s \in SoundPage : s = page[t]
    BY <1>1
  <2>2. PICK id \in Workspace : id = w.id
    BY <1>4
  <2>3. r = DismissPane(s, id, keep)
    BY <1>6, <2>1, <2>2
  <2>4. MaxOpenAssumption /\ NoneAssumption
    BY DEF Assumptions
  <2>5. /\ r \in SoundPage /\ r.prev = s.prev /\ r.hydrated = s.hydrated
        /\ ToSet(r.open) = ToSet(s.open) \ {id}
    BY <2>3, <2>4, DismissPaneIs
  <2>6. QED
    BY <2>1, <2>2, <2>5
<1>8. Show(t, r, FALSE)
  BY <1>4, <1>5, <1>6 DEF CloseWorkspace
<1>9. \/ shut' = shut
      \/ IsAttention(w) /\ shut' = [shut EXCEPT ![t] = @ \cup {w.id}]
  BY <1>4 DEF CloseWorkspace
<1>10. QED
  BY <1>4, <1>7, <1>8, <1>9

\* A pane is closed: the type.
LEMMA TypeClose ==
    ASSUME Assumptions, ViewType, NEW t \in Tab, NEW i \in DOMAIN list[t],
           CloseWorkspace(t, i)
    PROVE  ViewType'
<1>1. PICK w \in Entry, r \in SoundPage :
         /\ Show(t, r, FALSE)
         /\ shut' = shut \/ shut' = [shut EXCEPT ![t] = @ \cup {w.id}]
  BY CloseIs
<1>2. /\ page' \in [Tab -> SoundPage] /\ storage' \in SoundView
      /\ sig' \in [Tab -> View \cup {None}]
      /\ puts' \in [Tab -> Seq(Puts)] /\ calm' \in BOOLEAN
  BY <1>1, ShowIs
<1>3. shut' \in [Tab -> SUBSET Workspace]
  <2>1. w.id \in Workspace /\ shut \in [Tab -> SUBSET Workspace]
    BY DEF Entry, ViewType, FlagType
  <2>2. QED
    BY <1>1, <2>1
<1>4. /\ list' = list /\ hydrated' = hydrated /\ phase' = phase /\ answer' = answer
      /\ load' = load /\ online' = online /\ inbox' = inbox /\ behind' = behind
      /\ view' = view /\ board' = board /\ seen' = seen
  BY DEF CloseWorkspace, serverVars
<1>5. PageType' /\ FlagType' /\ ServerType'
  BY <1>2, <1>3, <1>4 DEF ViewType, PageType, FlagType, ServerType
<1>6. TransitType'
  BY <1>2, <1>4 DEF ViewType, TransitType
<1>7. QED
  BY <1>5, <1>6 DEF ViewType

\* The same workspaces, and nobody asks who did not ask.
Calmer(m, l) ==
    /\ DOMAIN m = DOMAIN l /\ Len(m) = Len(l)
    /\ \A i \in DOMAIN l : /\ m[i].id = l[i].id
                           /\ IsAttention(m[i]) => IsAttention(l[i])

\* A list whose flag of one workspace is cleared.
LEMMA SeenListIs ==
    ASSUME NEW l \in Seq(Entry), NEW id,
           NEW m, m = [i \in DOMAIN l |-> IF l[i].id = id
                                          THEN [l[i] EXCEPT !.unseen = FALSE] ELSE l[i]]
    PROVE  m \in Seq(Entry) /\ Calmer(m, l)
<1>1. \A i \in DOMAIN l : l[i] \in Entry
  OBVIOUS
<1>2. \A e \in Entry : /\ [e EXCEPT !.unseen = FALSE] \in Entry
                       /\ [e EXCEPT !.unseen = FALSE].id = e.id
                       /\ IsAttention([e EXCEPT !.unseen = FALSE]) => IsAttention(e)
  BY DEF Entry, IsAttention
<1>3. \A i \in DOMAIN l : /\ m[i] \in Entry /\ m[i].id = l[i].id
                          /\ IsAttention(m[i]) => IsAttention(l[i])
  BY <1>1, <1>2
<1>4. m \in Seq(Entry) /\ DOMAIN m = DOMAIN l /\ Len(m) = Len(l)
  <2>1. DOMAIN l = 1 .. Len(l) /\ Len(l) \in Nat
    OBVIOUS
  <2>2. m = [i \in 1 .. Len(l) |-> m[i]]
    BY <2>1
  <2>3. QED
    BY <1>3, <2>1, <2>2
<1>5. QED
  BY <1>3, <1>4 DEF Calmer

\* The answer of a request to mark as seen.
LEMMA TypeSeen ==
    ASSUME Assumptions, ViewType, NEW t \in Tab, NEW id, SeenAnswered(t, id)
    PROVE  ViewType'
<1>1. PICK l \in Seq(Entry) : l = list[t]
  BY DEF ViewType, PageType
<1>2. PICK m : m = [i \in DOMAIN l |-> IF l[i].id = id
                                       THEN [l[i] EXCEPT !.unseen = FALSE] ELSE l[i]]
  OBVIOUS
<1>3. m \in Seq(Entry)
  BY <1>2, SeenListIs
<1>4. list' = list \/ list' = [list EXCEPT ![t] = m]
  BY <1>1, <1>2 DEF SeenAnswered
<1>5. PageType'
  BY <1>3, <1>4 DEF SeenAnswered, ViewType, PageType
<1>6. seen' \in [Tab -> SUBSET Workspace]
  BY DEF SeenAnswered, ViewType, FlagType
<1>7. FlagType'
  BY <1>6 DEF SeenAnswered, ViewType, FlagType, history
<1>8. TransitType' /\ ServerType'
  BY DEF SeenAnswered, ViewType, TransitType, ServerType, serverVars
<1>9. QED
  BY <1>5, <1>7, <1>8 DEF ViewType

\* A PUT of a tab, at another stage or gone.
LEMMA PutIs ==
    ASSUME ViewType, NEW t \in Tab, NEW i \in DOMAIN puts[t]
    PROVE  /\ puts \in [Tab -> Seq(Puts)] /\ puts[t][i] \in Puts
           /\ puts[t][i].view \in SoundView /\ puts[t][i].view \in View
           /\ RemoveAt(puts[t], i) \in Seq(Puts)
           /\ \A stage : stage \in {"stored", "told"} =>
                 [puts[t] EXCEPT ![i].stage = stage] \in Seq(Puts)
<1>1. puts \in [Tab -> Seq(Puts)]
  BY DEF ViewType, TransitType
<1>2. PICK q \in Seq(Puts) : q = puts[t]
  BY <1>1
<1>3. i \in DOMAIN q /\ q[i] \in Puts
  BY <1>2
<1>4. RemoveAt(q, i) \in Seq(Puts)
  BY <1>3, RemoveAtIs
<1>5. ASSUME NEW stage, stage \in {"stored", "told"}
      PROVE  [q EXCEPT ![i].stage = stage] \in Seq(Puts)
  <2>1. [q[i] EXCEPT !.stage = stage] \in Puts
    BY <1>3, <1>5 DEF Puts
  <2>2. PICK e \in Puts : e = [q[i] EXCEPT !.stage = stage]
    BY <2>1
  <2>3. [q EXCEPT ![i] = e] \in Seq(Puts)
    BY <1>3
  <2>4. [q EXCEPT ![i].stage = stage] = [q EXCEPT ![i] = e]
    BY <2>2
  <2>5. QED
    BY <2>3, <2>4
<1>6. q[i].view \in SoundView /\ q[i].view \in View
  BY <1>3 DEF Puts, SoundView
<1>7. QED
  BY <1>1, <1>2, <1>3, <1>4, <1>5, <1>6

\* The server stores a PUT, tells the tabs, answers.
LEMMA TypePut ==
    ASSUME Assumptions, ViewType, NEW t \in Tab, NEW i \in DOMAIN puts[t],
           PutStored(t, i) \/ PutTold(t, i) \/ PutAnswered(t, i) \/ PutFails(t, i)
    PROVE  ViewType'
<1>0. /\ puts \in [Tab -> Seq(Puts)] /\ puts[t][i].view \in SoundView
      /\ puts[t][i].view \in View /\ RemoveAt(puts[t], i) \in Seq(Puts)
      /\ [puts[t] EXCEPT ![i].stage = "stored"] \in Seq(Puts)
      /\ [puts[t] EXCEPT ![i].stage = "told"] \in Seq(Puts)
  BY PutIs
<1>1. PageType' /\ load' = load /\ answer' = answer /\ phase' = phase /\ storage' = storage
  BY DEF ViewType, PageType, PutStored, PutTold, PutAnswered, PutFails, tabVars
<1>2. puts' \in [Tab -> Seq(Puts)]
  <2>1. CASE PutStored(t, i)
    <3>1. puts' = [puts EXCEPT ![t] = [@ EXCEPT ![i].stage = "stored"]]
      BY <2>1 DEF PutStored, Advance
    <3>2. puts' = [puts EXCEPT ![t] = [puts[t] EXCEPT ![i].stage = "stored"]]
      BY <3>1
    <3>3. QED
      BY <1>0, <3>2
  <2>2. CASE PutTold(t, i)
    <3>1. puts' = [puts EXCEPT ![t] = [@ EXCEPT ![i].stage = "told"]]
      BY <2>2 DEF PutTold, Advance
    <3>2. puts' = [puts EXCEPT ![t] = [puts[t] EXCEPT ![i].stage = "told"]]
      BY <3>1
    <3>3. QED
      BY <1>0, <3>2
  <2>3. CASE PutAnswered(t, i) \/ PutFails(t, i)
    <3>1. puts' = [puts EXCEPT ![t] = RemoveAt(puts[t], i)]
      BY <2>3 DEF PutAnswered, PutFails
    <3>2. QED
      BY <1>0, <3>1
  <2>4. QED
    BY <2>1, <2>2, <2>3
<1>3. ServerType'
  BY <1>0 DEF ViewType, ServerType, PutStored, PutTold, PutAnswered, PutFails, serverVars
<1>4. inbox' \in [Tab -> Seq(Frames)]
  <2>1. CASE PutTold(t, i)
    <3>1. [kind |-> "view", view |-> puts[t][i].view] \in Frames
      BY <1>0 DEF Frames
    <3>2. PICK f \in Frames : f = [kind |-> "view", view |-> puts[t][i].view]
      BY <3>1
    <3>3. Broadcast(f)
      BY <2>1, <3>2 DEF PutTold
    <3>4. QED
      BY <3>3, BroadcastIs
  <2>2. CASE ~PutTold(t, i)
    BY <2>2 DEF ViewType, TransitType, PutStored, PutAnswered, PutFails, tabVars
  <2>3. QED
    BY <2>1, <2>2
<1>5. sig' \in [Tab -> View \cup {None}]
  BY <1>0 DEF ViewType, FlagType, PutStored, PutTold, PutAnswered, PutFails, tabVars
<1>6. calm' \in BOOLEAN
  BY DEF ViewType, FlagType, PutStored, PutTold, PutAnswered, PutFails, history
<1>7. behind' \in [Tab -> BOOLEAN]
  <2>1. CASE PutTold(t, i)
    <3>1. \A s \in Tab :
             (behind[s] \/ (phase[s] \in {"asked", "up"} /\ ~online[s])) \in BOOLEAN
      BY DEF ViewType, FlagType
    <3>2. QED
      BY <2>1, <3>1 DEF PutTold
  <2>2. CASE ~PutTold(t, i)
    BY <2>2 DEF ViewType, FlagType, PutStored, PutAnswered, PutFails, history
  <2>3. QED
    BY <2>1, <2>2
<1>8. /\ hydrated' = hydrated /\ online' = online /\ seen' = seen /\ shut' = shut
  BY DEF PutStored, PutTold, PutAnswered, PutFails, tabVars, history
<1>9. FlagType'
  BY <1>1, <1>5, <1>6, <1>7, <1>8 DEF ViewType, FlagType
<1>10. TransitType'
  BY <1>1, <1>2, <1>4 DEF ViewType, TransitType
<1>11. QED
  BY <1>1, <1>3, <1>9, <1>10 DEF ViewType

\* The list of the server changes.
LEMMA TypeBoard ==
    ASSUME Assumptions, ViewType, BoardChanges
    PROVE  ViewType'
<1>1. PICK b \in Boards \ {board} : board' = b /\ Broadcast([kind |-> "list", list |-> b])
  BY DEF BoardChanges
<1>2. [kind |-> "list", list |-> b] \in Frames
  BY DEF Frames
<1>3. PICK f \in Frames : f = [kind |-> "list", list |-> b]
  BY <1>2
<1>4. inbox' \in [Tab -> Seq(Frames)]
  BY <1>1, <1>3, BroadcastIs
<1>5. PageType' /\ FlagType'
  BY DEF BoardChanges, ViewType, PageType, FlagType, history
<1>6. TransitType'
  BY <1>4 DEF BoardChanges, ViewType, TransitType
<1>7. ServerType'
  BY <1>1 DEF BoardChanges, ViewType, ServerType
<1>8. QED
  BY <1>5, <1>6, <1>7 DEF ViewType

\* A step leaves everything as it is, or is one of these.
LEMMA Steps ==
    ASSUME Assumptions, ViewType, [ViewNext]_vars
    PROVE  \/ UNCHANGED vars
           \/ BoardChanges
           \/ \E t \in Tab : OpenTab(t) \/ ViewArrives(t) \/ ViewFails(t)
           \/ \E t \in Tab : ListArrives(t) \/ ListFails(t)
           \/ \E t \in Tab : Connect(t) \/ SocketBreaks(t)
           \/ \E t \in Tab : ViewFrame(t) \/ ListFrame(t)
           \/ \E t \in Tab, w \in Entry : list[t] # <<>> /\ OpenWorkspace(t, w)
           \/ \E t \in Tab : \E i \in DOMAIN list[t] : CloseWorkspace(t, i)
           \/ \E t \in Tab : \E id : SeenAnswered(t, id)
           \/ \E t \in Tab : \E i \in DOMAIN puts[t] :
                 PutStored(t, i) \/ PutTold(t, i) \/ PutAnswered(t, i) \/ PutFails(t, i)
<1>1. ASSUME NEW t \in Tab, NEW key, key \in {"attention", "running", "idle"},
             NEW i \in DOMAIN Sections(list[t])[key],
             OpenWorkspace(t, Sections(list[t])[key][i])
      PROVE  \E w \in Entry : list[t] # <<>> /\ OpenWorkspace(t, w)
  <2>1. PICK l \in Seq(Entry) : l = list[t]
    BY DEF ViewType, PageType
  <2>2. Sections(l)[key][i] \in Entry /\ l # <<>>
    BY <1>1, <2>1, SectionsIs
  <2>3. QED
    BY <1>1, <2>1, <2>2
<1>2. QED
  BY <1>1 DEF ViewNext, TabNext, Rest

\* Nothing changes.
LEMMA TypeStays ==
    ASSUME ViewType, UNCHANGED vars
    PROVE  ViewType'
  BY DEF ViewType, PageType, FlagType, TransitType, ServerType, vars, tabVars, serverVars,
         history

\* Every step keeps the type.
LEMMA TypeStep ==
    ASSUME Assumptions, ViewType, [ViewNext]_vars
    PROVE  ViewType'
  BY Steps, TypeStays, TypeBoard, TypeStart, TypeList, TypeSocket, TypeFrame, TypeOpen,
     TypeClose, TypeSeen, TypePut

\* The type holds throughout.
LEMMA TypeAlways ==
    ASSUME Assumptions
    PROVE  ViewSpec => []ViewType
<1>1. ViewInit => ViewType
  BY TypeInit
<1>2. ViewType /\ [ViewNext]_vars => ViewType'
  BY TypeStep
<1>3. QED
  BY <1>1, <1>2, PTL DEF ViewSpec

\* No tab ever shows more panes than fit, or one twice, and the active pane is one of
\* them: whatever clicks, lists and views of other tabs arrive in whatever order
\* (reconcileWorkspacePageState and the other operations of workspace-page-state.ts).
THEOREM PagesStaySound ==
    ASSUME MaxOpenAssumption, NoneAssumption, BoardsAssumption, FirstViewAssumption,
           RunningAssumption
    PROVE  ViewSpec => []PagesAreSound
<1>1. Assumptions
  BY DEF Assumptions
<1>2. ViewType => PagesAreSound
  BY DEF ViewType, PageType, PagesAreSound, SoundPage
<1>3. ViewSpec => []ViewType
  BY <1>1, TypeAlways
<1>4. QED
  BY <1>2, <1>3, PTL

-----------------------------------------------------------------------------
(* What was put away *)

\* A page knows of everyone in its list who asks for attention; the panes that were put
\* away are not among its panes, and it knows that they ask.
Remembers(p, l) == \A i \in DOMAIN l : IsAttention(l[i]) => p.prev[l[i].id]
Away(p, ids) == \A w \in ids : w \notin ToSet(p.open) /\ p.prev[w]

\* A tab that is closed has nothing, and nothing on its way.
Empty(t) ==
    /\ Len(list[t]) = 0 /\ shut[t] = {} /\ load[t].stage = "none"
    /\ online[t] = FALSE /\ inbox[t] = <<>>

AwayOf(t) ==
    /\ Remembers(page[t], list[t])
    /\ Away(page[t], shut[t])
    /\ phase[t] = "closed" => Empty(t)
AwayInv == \A t \in Tab : AwayOf(t)

\* A page that follows a list knows who asks in it.
LEMMA RemembersAsked ==
    ASSUME NEW l \in Seq(Entry), NEW p, p.prev = AskedIn(l)
    PROVE  Remembers(p, l)
<1>1. \A i \in DOMAIN l : l[i].id \in Workspace
  BY IdsAre
<1>2. QED
  BY <1>1 DEF Remembers, AskedIn

\* Who was put away and goes on asking stays away.
LEMMA ReconcileAway ==
    ASSUME MaxOpenAssumption, NoneAssumption, NEW s \in SoundPage, NEW l \in Seq(Entry),
           NEW ids \in SUBSET Workspace, Away(s, ids), NEW left \in SUBSET ids,
           \A w \in left : AskedIn(l)[w], NEW r, r = Reconcile(s, l)
    PROVE  Away(r, left)
<1>1. /\ r.prev = AskedIn(l)
      /\ \A w \in Workspace :
            w \notin ToSet(s.open) /\ AskedIn(l)[w] /\ s.prev[w] => w \notin ToSet(r.open)
  BY ReconcileIs
<1>2. \A w \in left : w \in Workspace /\ w \notin ToSet(s.open) /\ s.prev[w]
  BY DEF Away
<1>3. QED
  BY <1>1, <1>2 DEF Away

\* A tab that a step does not touch.
LEMMA UntouchedAway ==
    ASSUME NEW t \in Tab, AwayOf(t), page'[t] = page[t], list'[t] = list[t], shut'[t] = shut[t],
           phase'[t] = phase[t], load'[t] = load[t], online'[t] = online[t],
           inbox'[t] = inbox[t] \/ online[t] = TRUE
    PROVE  AwayOf(t)'
  BY DEF AwayOf, Empty

\* At the start.
LEMMA AwayInit ==
    ASSUME Assumptions, ViewInit
    PROVE  AwayInv
<1>1. ViewType
  BY TypeInit
<1>2. SUFFICES ASSUME NEW t \in Tab PROVE AwayOf(t)
  BY DEF AwayInv
<1>3. PICK l \in Seq(Entry) : l = list[t]
  BY <1>1 DEF ViewType, PageType
<1>4. page[t] = Reconcile(ReadPersisted(FirstView), l)
  BY <1>3 DEF ViewInit
<1>5. page[t].prev = AskedIn(l)
  BY <1>4, FirstPageIs
<1>6. Remembers(page[t], list[t])
  BY <1>3, <1>5, RemembersAsked
<1>7. Away(page[t], shut[t])
  BY DEF ViewInit, Away
<1>8. ASSUME phase[t] = "closed" PROVE Empty(t)
  <2>1. t \notin Running
    BY <1>8 DEF ViewInit
  <2>2. list[t] = <<>> /\ online[t] = FALSE
    <3>1. list[t] = <<>>
      BY <2>1 DEF ViewInit
    <3>2. online[t] = (t \in Running)
      BY DEF ViewInit
    <3>3. online[t] = FALSE
      <4>1. (t \in Running) = FALSE
        BY <2>1
      <4>2. QED
        BY <3>2, <4>1, Zenon
    <3>4. QED
      BY <3>1, <3>3
  <2>3. load[t].stage = "none" /\ inbox[t] = <<>> /\ shut[t] = {}
    BY DEF ViewInit, NoLoad
  <2>4. QED
    BY <2>2, <2>3 DEF Empty
<1>9. QED
  BY <1>6, <1>7, <1>8 DEF AwayOf

\* The start of a tab.
LEMMA AwayStart ==
    ASSUME Assumptions, ViewType, AwayInv, NEW t \in Tab,
           OpenTab(t) \/ ViewArrives(t) \/ ViewFails(t)
    PROVE  AwayInv'
<1> SUFFICES ASSUME NEW u \in Tab PROVE AwayOf(u)'
  BY DEF AwayInv
<1>0. AwayOf(u)
  BY DEF AwayInv
<1>1. CASE u # t
  <2>1. page'[u] = page[u] /\ shut'[u] = shut[u]
    BY <1>1 DEF OpenTab, ViewArrives, ViewFails, ApplyView, Show, ViewType, PageType, FlagType,
                history
  <2>2. /\ list'[u] = list[u] /\ phase'[u] = phase[u]
        /\ load'[u] = load[u] /\ online'[u] = online[u] /\ inbox'[u] = inbox[u]
    BY <1>1 DEF OpenTab, ViewArrives, ViewFails, ViewType, FlagType, TransitType
  <2>3. QED
    BY <1>0, <2>1, <2>2, UntouchedAway
<1>2. CASE u = t /\ OpenTab(t)
  <2>1. Empty(t) /\ phase'[t] = "asked"
    BY <1>0, <1>2 DEF AwayOf, OpenTab, ViewType, FlagType
  <2>2. list'[t] = list[t] /\ shut'[t] = {} /\ list[t] \in Seq(Entry)
    BY <1>2, <2>1 DEF OpenTab, Empty, history, ViewType, PageType
  <2>3. DOMAIN list'[t] = {}
    BY <2>1, <2>2 DEF Empty
  <2>4. QED
    BY <1>2, <2>1, <2>2, <2>3 DEF AwayOf, Remembers, Away
<1>3. CASE u = t /\ ViewArrives(t)
  <2>1. PICK v \in SoundView : v = answer[t]
    BY <1>3 DEF ViewArrives, ViewType, TransitType
  <2>2. ApplyView(t, v)
    BY <1>3, <2>1 DEF ViewArrives
  <2>3. PICK s \in SoundPage : s = page[t]
    BY DEF ViewType, PageType
  <2>4. PICK r : r = WithRemote(s, v)
    OBVIOUS
  <2>5. r.open = v.open /\ r.prev = s.prev
    BY <2>4, WithRemoteIs DEF Assumptions
  <2>6. page' = [page EXCEPT ![t] = r]
    BY <2>2, <2>3, <2>4, ApplyViewIs
  <2>7. page'[t] = r
    BY <2>6 DEF ViewType, PageType
  <2>8. list'[t] = list[t] /\ shut'[t] = shut[t] \ ToSet(v.open) /\ phase'[t] = "up"
    BY <1>3, <2>2 DEF ViewArrives, ApplyView, ViewType, FlagType
  <2>9. QED
    BY <1>0, <1>3, <2>3, <2>5, <2>7, <2>8 DEF AwayOf, Remembers, Away
<1>4. CASE u = t /\ ViewFails(t)
  <2>1. page' = page /\ list' = list /\ shut' = shut /\ phase'[t] = "up"
    BY <1>4 DEF ViewFails, ViewType, FlagType
  <2>2. QED
    BY <1>0, <1>4, <2>1 DEF AwayOf
<1>5. QED
  BY <1>1, <1>2, <1>3, <1>4

\* A list arrives, in an answer or in a frame.
LEMMA AwayApply ==
    ASSUME Assumptions, ViewType, NEW t \in Tab, AwayOf(t), NEW l, l \in Boards,
           ApplyList(t, l)
    PROVE  Remembers(page'[t], list'[t]) /\ Away(page'[t], shut'[t])
<1>1. PICK m \in Seq(Entry), r \in SoundPage :
         /\ m = PreserveOrder(list[t], l) /\ r = Reconcile(page[t], m)
         /\ list' = [list EXCEPT ![t] = m] /\ page' = [page EXCEPT ![t] = r]
         /\ Show(t, r, FALSE)
  BY ApplyListIs
<1>2. /\ page[t] \in SoundPage /\ list[t] \in Seq(Entry) /\ shut[t] \in SUBSET Workspace
      /\ page'[t] = r /\ list'[t] = m
  BY <1>1 DEF ViewType, PageType, FlagType
<1>3. l \in Seq(Entry) /\ UniqueIdsIn(l)
  BY BoardIs
<1>4. shut'[t] = shut[t] \cap Asking(l)
  BY DEF ApplyList, ViewType, FlagType
<1>5. \A w \in Asking(l) : AskedIn(m)[w]
  <2>1. \A i \in DOMAIN l : IsAttention(l[i]) => AskedIn(m)[l[i].id]
    BY <1>1, <1>2, <1>3, PreserveOrderIs
  <2>2. QED
    BY <2>1 DEF Asking
<1>6. PICK s \in SoundPage : s = page[t]
  BY <1>2
<1>7. PICK ids \in SUBSET Workspace : ids = shut[t]
  BY <1>2
<1>8. Away(s, ids)
  BY <1>6, <1>7 DEF AwayOf
<1>9. PICK left \in SUBSET ids : left = shut'[t]
  BY <1>4, <1>7
<1>10. \A w \in left : AskedIn(m)[w]
  BY <1>4, <1>5, <1>9
<1>11. r = Reconcile(s, m) /\ MaxOpenAssumption /\ NoneAssumption
  BY <1>1, <1>6 DEF Assumptions
<1>12. Away(r, left)
  BY <1>8, <1>10, <1>11, ReconcileAway
<1>13. r.prev = AskedIn(m)
  BY <1>11, ReconcileIs
<1>14. QED
  BY <1>2, <1>9, <1>12, <1>13, RemembersAsked

\* A list that was loaded.
LEMMA AwayList ==
    ASSUME Assumptions, ViewType, AwayInv, NEW t \in Tab,
           ListArrives(t) \/ ListFails(t)
    PROVE  AwayInv'
<1> SUFFICES ASSUME NEW u \in Tab PROVE AwayOf(u)'
  BY DEF AwayInv
<1>0. AwayOf(u) /\ AwayOf(t)
  BY DEF AwayInv
<1>1. /\ phase' = phase /\ online' = online /\ inbox' = inbox
      /\ load' = [load EXCEPT ![t] = NoLoad] /\ load[t].stage = "answered"
  BY DEF ListArrives, ListFails
<1>2. CASE u # t
  <2>1. page'[u] = page[u] /\ shut'[u] = shut[u] /\ list'[u] = list[u]
    BY <1>2 DEF ListArrives, ListFails, ApplyList, Show, ViewType, PageType, FlagType, history
  <2>2. load'[u] = load[u]
    BY <1>1, <1>2 DEF ViewType, TransitType
  <2>3. QED
    BY <1>0, <1>1, <2>1, <2>2, UntouchedAway
<1>3. CASE u = t
  <2>1. phase'[t] # "closed"
    BY <1>0, <1>1 DEF AwayOf, Empty
  <2>2. Remembers(page'[t], list'[t]) /\ Away(page'[t], shut'[t])
    <3>1. CASE ListArrives(t)
      <4>1. PICK l : l = load[t].list
        OBVIOUS
      <4>2. load[t] \in Loads
        BY DEF ViewType, TransitType
      <4>3. l \in Boards
        BY <1>1, <4>1, <4>2, LoadIs
      <4>4. ApplyList(t, l)
        BY <3>1, <4>1 DEF ListArrives
      <4>5. QED
        BY <1>0, <4>3, <4>4, AwayApply
    <3>2. CASE ListFails(t)
      BY <1>0, <3>2 DEF ListFails, AwayOf, history
    <3>3. QED
      BY <3>1, <3>2
  <2>3. QED
    BY <1>3, <2>1, <2>2 DEF AwayOf
<1>4. QED
  BY <1>2, <1>3

\* The board socket.
LEMMA AwaySocket ==
    ASSUME Assumptions, ViewType, AwayInv, NEW t \in Tab,
           Connect(t) \/ SocketBreaks(t)
    PROVE  AwayInv'
<1> SUFFICES ASSUME NEW u \in Tab PROVE AwayOf(u)'
  BY DEF AwayInv
<1>0. AwayOf(u) /\ AwayOf(t)
  BY DEF AwayInv
<1>1. page' = page /\ list' = list /\ shut' = shut /\ phase' = phase
  BY DEF Connect, SocketBreaks, history
<1>2. CASE u # t
  <2>1. load'[u] = load[u] /\ online'[u] = online[u] /\ inbox'[u] = inbox[u]
    BY <1>2 DEF Connect, SocketBreaks, ViewType, FlagType, TransitType
  <2>2. QED
    BY <1>0, <1>1, <2>1, UntouchedAway
<1>3. CASE u = t
  <2>1. phase[t] # "closed"
    BY <1>0 DEF Connect, SocketBreaks, AwayOf, Empty
  <2>2. QED
    BY <1>0, <1>1, <1>3, <2>1 DEF AwayOf
<1>4. QED
  BY <1>2, <1>3

\* A frame of the board socket.
LEMMA AwayFrame ==
    ASSUME Assumptions, ViewType, AwayInv, NEW t \in Tab,
           ViewFrame(t) \/ ListFrame(t)
    PROVE  AwayInv'
<1> SUFFICES ASSUME NEW u \in Tab PROVE AwayOf(u)'
  BY DEF AwayInv
<1>0. AwayOf(u) /\ AwayOf(t)
  BY DEF AwayInv
<1>1. /\ phase' = phase /\ online' = online /\ load' = load
      /\ inbox' = [inbox EXCEPT ![t] = Tail(@)] /\ inbox[t] # <<>>
  BY DEF ViewFrame, ListFrame
<1>2. CASE u # t
  <2>1. page'[u] = page[u] /\ shut'[u] = shut[u] /\ list'[u] = list[u]
    BY <1>2 DEF ViewFrame, ListFrame, ApplyView, ApplyList, Show, ViewType, PageType, FlagType
  <2>2. inbox'[u] = inbox[u]
    BY <1>1, <1>2 DEF ViewType, TransitType
  <2>3. QED
    BY <1>0, <1>1, <2>1, <2>2, UntouchedAway
<1>3. CASE u = t
  <2>1. phase'[t] # "closed"
    BY <1>0, <1>1 DEF AwayOf, Empty
  <2>2. Head(inbox[t]) \in Frames
    BY <1>1, HandledIs
  <2>3. Remembers(page'[t], list'[t]) /\ Away(page'[t], shut'[t])
    <3>1. CASE ListFrame(t)
      <4>1. PICK l : l = Head(inbox[t]).list
        OBVIOUS
      <4>2. l \in Boards
        BY <2>2, <3>1, <4>1, FrameIs DEF ListFrame
      <4>3. ApplyList(t, l)
        BY <3>1, <4>1 DEF ListFrame
      <4>4. QED
        BY <1>0, <4>2, <4>3, AwayApply
    <3>2. CASE ViewFrame(t)
      <4>1. Head(inbox[t]).view \in SoundView
        BY <2>2, <3>2, FrameIs DEF ViewFrame
      <4>2. PICK v \in SoundView : v = Head(inbox[t]).view
        BY <4>1
      <4>3. ApplyView(t, v)
        BY <3>2, <4>2 DEF ViewFrame
      <4>4. PICK s \in SoundPage : s = page[t]
        BY DEF ViewType, PageType
      <4>5. PICK r : r = WithRemote(s, v)
        OBVIOUS
      <4>6. r.open = v.open /\ r.prev = s.prev
        BY <4>5, WithRemoteIs DEF Assumptions
      <4>7. page' = [page EXCEPT ![t] = r]
        BY <4>3, <4>4, <4>5, ApplyViewIs
      <4>8. page'[t] = r
        BY <4>7 DEF ViewType, PageType
      <4>9. list'[t] = list[t] /\ shut'[t] = shut[t] \ ToSet(v.open)
        BY <3>2, <4>3 DEF ViewFrame, ApplyView, ViewType, FlagType
      <4>10. QED
        BY <1>0, <4>4, <4>6, <4>8, <4>9 DEF AwayOf, Remembers, Away
    <3>3. QED
      BY <3>1, <3>2
  <2>4. QED
    BY <1>3, <2>1, <2>3 DEF AwayOf
<1>4. QED
  BY <1>2, <1>3

\* A click of the user on a card, or on the cross of a pane.
LEMMA AwayClick ==
    ASSUME Assumptions, ViewType, AwayInv, NEW t \in Tab,
           \/ \E w \in Entry : OpenWorkspace(t, w)
           \/ \E i \in DOMAIN list[t] : CloseWorkspace(t, i)
    PROVE  AwayInv'
<1> SUFFICES ASSUME NEW u \in Tab PROVE AwayOf(u)'
  BY DEF AwayInv
<1>0. AwayOf(u) /\ AwayOf(t)
  BY DEF AwayInv
<1>1. /\ phase' = phase /\ online' = online /\ load' = load /\ inbox' = inbox
      /\ list' = list
  BY DEF OpenWorkspace, CloseWorkspace
<1>2. CASE u # t
  <2>1. page'[u] = page[u] /\ shut'[u] = shut[u]
    BY <1>2 DEF OpenWorkspace, CloseWorkspace, Show, ViewType, PageType, FlagType
  <2>2. QED
    BY <1>0, <1>1, <2>1, UntouchedAway
<1>3. CASE u = t /\ \E w \in Entry : OpenWorkspace(t, w)
  <2>1. PICK w \in Entry : OpenWorkspace(t, w)
    BY <1>3
  <2>2. PICK r \in SoundPage : /\ r = OpenPane(page[t], w.id) /\ Show(t, r, FALSE)
                               /\ shut' = [shut EXCEPT ![t] = @ \ {w.id}]
    BY <2>1, ClickIs
  <2>3. PICK s \in SoundPage : s = page[t]
    BY DEF ViewType, PageType
  <2>4. PICK id \in Workspace : id = w.id
    BY DEF Entry
  <2>5. ToSet(r.open) \subseteq ToSet(s.open) \cup {id} /\ r.prev = s.prev
    <3>1. r = OpenPane(s, id) /\ MaxOpenAssumption /\ NoneAssumption
      BY <2>2, <2>3, <2>4 DEF Assumptions
    <3>2. QED
      BY <3>1, OpenPaneIs
  <2>6. page'[t] = r /\ shut'[t] = shut[t] \ {id}
    <3>1. Show(t, r, FALSE)
      BY <2>2
    <3>2. page' = [page EXCEPT ![t] = r]
      BY <3>1 DEF Show
    <3>3. QED
      BY <2>2, <2>4, <3>2 DEF ViewType, PageType, FlagType
  <2>7. Remembers(r, list[t]) /\ Away(r, shut[t] \ {id})
    BY <1>0, <2>3, <2>5 DEF AwayOf, Remembers, Away
  <2>8. phase[t] = "closed" => Empty(t) /\ shut[t] \ {id} = {}
    BY <1>0 DEF AwayOf, Empty
  <2>9. QED
    BY <1>1, <1>3, <2>6, <2>7, <2>8 DEF AwayOf, Empty
<1>4. CASE u = t /\ \E i \in DOMAIN list[t] : CloseWorkspace(t, i)
  <2>1. PICK i \in DOMAIN list[t] : CloseWorkspace(t, i)
    BY <1>4
  <2>2. PICK w \in Entry, r \in SoundPage :
           /\ w = list[t][i] /\ Show(t, r, FALSE)
           /\ r.prev = page[t].prev /\ r.hydrated = page[t].hydrated
           /\ ToSet(r.open) = ToSet(page[t].open) \ {w.id}
           /\ \/ shut' = shut
              \/ IsAttention(w) /\ shut' = [shut EXCEPT ![t] = @ \cup {w.id}]
    BY <2>1, CloseIs
  <2>3. page'[t] = r
    BY <2>2 DEF Show, ViewType, PageType
  <2>4. IsAttention(w) => r.prev[w.id]
    BY <1>0, <2>2 DEF AwayOf, Remembers
  <2>5. Remembers(r, list[t])
    BY <1>0, <2>2 DEF AwayOf, Remembers
  <2>6. Away(r, shut[t]) /\ (IsAttention(w) => Away(r, shut[t] \cup {w.id}))
    BY <1>0, <2>2, <2>4 DEF AwayOf, Away
  <2>7. shut'[t] = shut[t] \/ (IsAttention(w) /\ shut'[t] = shut[t] \cup {w.id})
    BY <2>2 DEF ViewType, FlagType
  <2>8. phase[t] # "closed"
    <3>1. PICK l \in Seq(Entry) : l = list[t]
      BY DEF ViewType, PageType
    <3>2. Len(l) # 0
      BY <3>1
    <3>3. QED
      BY <1>0, <3>1, <3>2 DEF AwayOf, Empty
  <2>9. QED
    BY <1>1, <1>4, <2>3, <2>5, <2>6, <2>7, <2>8 DEF AwayOf
<1>5. QED
  BY <1>2, <1>3, <1>4

\* The answer of a request to mark as seen.
LEMMA AwaySeen ==
    ASSUME Assumptions, ViewType, AwayInv, NEW t \in Tab, NEW id, SeenAnswered(t, id)
    PROVE  AwayInv'
<1> SUFFICES ASSUME NEW u \in Tab PROVE AwayOf(u)'
  BY DEF AwayInv
<1>0. AwayOf(u) /\ AwayOf(t)
  BY DEF AwayInv
<1>1. /\ phase' = phase /\ online' = online /\ load' = load /\ inbox' = inbox
      /\ page' = page /\ shut' = shut
  BY DEF SeenAnswered, history
<1>2. PICK l \in Seq(Entry) : l = list[t]
  BY DEF ViewType, PageType
<1>3. PICK m : m = [i \in DOMAIN l |-> IF l[i].id = id
                                       THEN [l[i] EXCEPT !.unseen = FALSE] ELSE l[i]]
  OBVIOUS
<1>4. Calmer(m, l)
  BY <1>3, SeenListIs
<1>5. list' = list \/ list' = [list EXCEPT ![t] = m]
  BY <1>2, <1>3 DEF SeenAnswered
<1>6. CASE u # t
  <2>1. list'[u] = list[u]
    BY <1>5, <1>6 DEF ViewType, PageType
  <2>2. QED
    BY <1>0, <1>1, <2>1, UntouchedAway
<1>7. CASE u = t
  <2>1. list'[t] = l \/ list'[t] = m
    BY <1>2, <1>5 DEF ViewType, PageType
  <2>2. Remembers(page[t], l)
    BY <1>0, <1>2 DEF AwayOf
  <2>3. Remembers(page[t], m)
    BY <1>4, <2>2 DEF Remembers, Calmer
  <2>4. Len(list'[t]) = Len(list[t])
    BY <1>2, <1>4, <2>1 DEF Calmer
  <2>5. Remembers(page[t], list'[t])
    BY <2>1, <2>2, <2>3
  <2>6. QED
    BY <1>0, <1>1, <1>7, <2>4, <2>5 DEF AwayOf, Empty
<1>8. QED
  BY <1>6, <1>7

\* What the server does reaches the tabs through their sockets only.
LEMMA AwayServer ==
    ASSUME Assumptions, ViewType, AwayInv,
           \/ BoardChanges
           \/ \E t \in Tab : \E i \in DOMAIN puts[t] :
                 PutStored(t, i) \/ PutTold(t, i) \/ PutAnswered(t, i) \/ PutFails(t, i)
    PROVE  AwayInv'
<1> SUFFICES ASSUME NEW u \in Tab PROVE AwayOf(u)'
  BY DEF AwayInv
<1>0. AwayOf(u)
  BY DEF AwayInv
<1>1. /\ phase' = phase /\ online' = online /\ load' = load
      /\ page' = page /\ shut' = shut /\ list' = list
  BY DEF BoardChanges, PutStored, PutTold, PutAnswered, PutFails, tabVars, history
<1>2. inbox' = inbox \/ \E f : Broadcast(f)
  BY DEF BoardChanges, PutStored, PutTold, PutAnswered, PutFails, tabVars
<1>3. inbox'[u] = inbox[u] \/ online[u] = TRUE
  BY <1>2 DEF Broadcast, ViewType, FlagType
<1>4. QED
  BY <1>0, <1>1, <1>3, UntouchedAway

\* Nothing changes.
LEMMA AwayStays ==
    ASSUME AwayInv, UNCHANGED vars
    PROVE  AwayInv'
  BY DEF AwayInv, AwayOf, Empty, vars, tabVars, history

\* Every step keeps it.
LEMMA AwayStep ==
    ASSUME Assumptions, ViewType, AwayInv, [ViewNext]_vars
    PROVE  AwayInv'
  BY Steps, AwayStays, AwayServer, AwayStart, AwayList, AwaySocket, AwayFrame, AwayClick,
     AwaySeen

\* A pane that was put away while its workspace asked for attention does not come back
\* by itself as long as the workspace goes on asking: reconcileWorkspacePageState opens
\* one only for a workspace that begins to ask, and the page remembers who asked over
\* every list, every view of another tab and every answer that comes late.
THEOREM PutAwayStays ==
    ASSUME MaxOpenAssumption, NoneAssumption, BoardsAssumption, FirstViewAssumption,
           RunningAssumption
    PROVE  ViewSpec => []PutAwayStaysAway
<1>1. Assumptions
  BY DEF Assumptions
<1>2. ViewInit => ViewType /\ AwayInv
  BY <1>1, TypeInit, AwayInit
<1>3. ViewType /\ AwayInv /\ [ViewNext]_vars => (ViewType /\ AwayInv)'
  BY <1>1, TypeStep, AwayStep
<1>4. ViewType /\ AwayInv => PutAwayStaysAway
  <2> SUFFICES ASSUME AwayInv, NEW t \in Tab PROVE shut[t] \cap ToSet(page[t].open) = {}
    BY DEF PutAwayStaysAway
  <2>1. Away(page[t], shut[t])
    BY DEF AwayInv, AwayOf
  <2>2. QED
    BY <2>1 DEF Away
<1>5. QED
  BY <1>2, <1>3, <1>4, PTL DEF ViewSpec

-----------------------------------------------------------------------------
(* When the tabs agree *)

NoView(q) == \A i \in DOMAIN q : q[i].kind # "view"
\* The last view among the frames of a socket.
LastView(q, v) ==
    \A i \in DOMAIN q :
        q[i].kind = "view" /\ (\A j \in DOMAIN q : i < j => q[j].kind # "view") => q[i].view = v

\* Only a tab that is up has a list, a socket and frames, and it may push its layout.
Linked(t) ==
    /\ online[t] = FALSE => inbox[t] = <<>>
    /\ phase[t] # "up" => /\ online[t] = FALSE /\ Len(list[t]) = 0 /\ load[t].stage = "none"
    /\ phase[t] = "up" => hydrated[t] = TRUE

\* One PUT is under way at most, and what the server stored of it is its row.
OnePut ==
    /\ \A s, t \in Tab : \A i \in DOMAIN puts[s], j \in DOMAIN puts[t] : s = t /\ i = j
    /\ \A t \in Tab : \A i \in DOMAIN puts[t] :
          puts[t][i].stage \in {"stored", "told"} => puts[t][i].view = view

\* The tabs will be told of a view that is not yet theirs.
Pending == \E t \in Tab : \E i \in DOMAIN puts[t] : puts[t][i].stage \in {"sent", "stored"}

\* The layout a tab ends up with, after the frames it did not handle yet, is that of the
\* server, unless it missed one.
Agrees(t) ==
    /\ phase[t] = "up" /\ behind[t] = FALSE /\ NoView(inbox[t])
          => ViewOf(page[t]) = view /\ sig[t] = view
    /\ phase[t] = "asked" /\ behind[t] = FALSE => answer[t] = view
    /\ LastView(inbox[t], view)

LinkInv == \A t \in Tab : Linked(t)
AllAgree == \A t \in Tab : Agrees(t)
AgreeInv == calm = TRUE => OnePut /\ (Pending \/ AllAgree)

\* Frames that come and go.
LEMMA FrameSteps ==
    ASSUME NEW q \in Seq(Frames), NEW v
    PROVE  /\ NoView(<<>>) /\ LastView(<<>>, v)
           /\ q # <<>> => /\ LastView(q, v) => LastView(Tail(q), v)
                          /\ LastView(q, v) /\ Head(q).kind = "view" /\ NoView(Tail(q))
                                => Head(q).view = v
                          /\ Head(q).kind # "view" /\ NoView(Tail(q)) => NoView(q)
<1>1. NoView(<<>>) /\ LastView(<<>>, v)
  BY DEF NoView, LastView
<1>2. ASSUME q # <<>> PROVE /\ Tail(q) \in Seq(Frames) /\ Len(Tail(q)) = Len(q) - 1
                            /\ \A i \in 1 .. Len(q) - 1 : Tail(q)[i] = q[i + 1]
                            /\ Head(q) = q[1] /\ Len(q) \in Nat /\ Len(q) >= 1
  BY <1>2
<1>3. ASSUME q # <<>>, NoView(Tail(q)) PROVE \A j \in DOMAIN q : 1 < j => q[j].kind # "view"
  <2> TAKE j \in DOMAIN q
  <2> HAVE 1 < j
  <2>1. j - 1 \in 1 .. Len(q) - 1 /\ (j - 1) + 1 = j
    BY <1>2, <1>3
  <2>2. j - 1 \in DOMAIN Tail(q) /\ Tail(q)[j - 1] = q[j]
    BY <1>2, <1>3, <2>1
  <2>3. QED
    BY <1>3, <2>2 DEF NoView
<1>4. ASSUME q # <<>>, LastView(q, v) PROVE LastView(Tail(q), v)
  <2> SUFFICES ASSUME NEW i \in DOMAIN Tail(q), Tail(q)[i].kind = "view",
                      \A j \in DOMAIN Tail(q) : i < j => Tail(q)[j].kind # "view"
               PROVE  Tail(q)[i].view = v
    BY DEF LastView
  <2>1. i \in 1 .. Len(q) - 1 /\ i + 1 \in DOMAIN q /\ Tail(q)[i] = q[i + 1]
    BY <1>2, <1>4
  <2>2. ASSUME NEW j \in DOMAIN q, i + 1 < j PROVE q[j].kind # "view"
    <3>1. j - 1 \in 1 .. Len(q) - 1 /\ (j - 1) + 1 = j /\ i < j - 1
      BY <1>2, <1>4, <2>1, <2>2
    <3>2. j - 1 \in DOMAIN Tail(q) /\ Tail(q)[j - 1] = q[j]
      BY <1>2, <1>4, <3>1
    <3>3. QED
      BY <3>1, <3>2
  <2>3. QED
    BY <1>4, <2>1, <2>2 DEF LastView
<1>5. ASSUME q # <<>>, LastView(q, v), Head(q).kind = "view", NoView(Tail(q))
      PROVE  Head(q).view = v
  <2>1. 1 \in DOMAIN q /\ q[1].kind = "view"
    BY <1>2, <1>5
  <2>2. \A j \in DOMAIN q : 1 < j => q[j].kind # "view"
    BY <1>3, <1>5
  <2>3. q[1].view = v
    BY <1>5, <2>1, <2>2 DEF LastView
  <2>4. QED
    BY <1>2, <1>5, <2>3
<1>6. ASSUME q # <<>>, Head(q).kind # "view", NoView(Tail(q)) PROVE NoView(q)
  <2>1. \A j \in DOMAIN q : 1 < j => q[j].kind # "view"
    BY <1>3, <1>6
  <2>2. \A j \in DOMAIN q : j = 1 \/ 1 < j
    OBVIOUS
  <2>3. q[1].kind # "view"
    BY <1>2, <1>6
  <2>4. QED
    BY <2>1, <2>2, <2>3 DEF NoView
<1>7. QED
  BY <1>1, <1>4, <1>5, <1>6

\* A frame more.
LEMMA FrameAdds ==
    ASSUME NEW q \in Seq(Frames), NEW f \in Frames, NEW v
    PROVE  /\ f.kind = "view" /\ f.view = v
                => LastView(Append(q, f), v) /\ ~NoView(Append(q, f))
           /\ f.kind # "view" => /\ NoView(Append(q, f)) => NoView(q)
                                 /\ LastView(q, v) => LastView(Append(q, f), v)
<1> DEFINE a == Append(q, f)
           n == Len(q) + 1
<1>1. /\ n \in DOMAIN a /\ a[n] = f /\ n \in Nat
      /\ \A i \in DOMAIN q : i \in DOMAIN a /\ a[i] = q[i] /\ i < n
      /\ \A i \in DOMAIN a : i \in DOMAIN q \/ i = n
      /\ \A i \in DOMAIN a : i \in Nat /\ ~(n < i)
  OBVIOUS
<1> HIDE DEF a, n
<1>2. ASSUME f.kind = "view", f.view = v PROVE LastView(a, v) /\ ~NoView(a)
  <2>1. \A i \in DOMAIN a : (\A j \in DOMAIN a : i < j => a[j].kind # "view") => i = n
    BY <1>1, <1>2
  <2>2. QED
    BY <1>1, <1>2, <2>1 DEF LastView, NoView
<1>3. ASSUME f.kind # "view" PROVE NoView(a) => NoView(q)
  BY <1>1 DEF NoView
<1>4. ASSUME f.kind # "view", LastView(q, v) PROVE LastView(a, v)
  <2> SUFFICES ASSUME NEW i \in DOMAIN a, a[i].kind = "view",
                      \A j \in DOMAIN a : i < j => a[j].kind # "view"
               PROVE  a[i].view = v
    BY DEF LastView
  <2>1. i \in DOMAIN q /\ a[i] = q[i]
    BY <1>1, <1>4
  <2>2. \A j \in DOMAIN q : i < j => q[j].kind # "view"
    BY <1>1
  <2>3. QED
    BY <1>4, <2>1, <2>2 DEF LastView
<1>5. QED
  BY <1>2, <1>3, <1>4 DEF a

\* A tab that a step does not touch.
LEMMA UntouchedAgrees ==
    ASSUME NEW u \in Tab, view' = view, page'[u] = page[u], sig'[u] = sig[u],
           phase'[u] = phase[u], answer'[u] = answer[u], behind'[u] = behind[u],
           inbox'[u] = inbox[u], Agrees(u)
    PROVE  Agrees(u)'
  BY DEF Agrees

\* The socket of a tab that a step does not touch.
LEMMA UntouchedLinked ==
    ASSUME NEW u \in Tab, Linked(u), list'[u] = list[u], phase'[u] = phase[u],
           load'[u] = load[u], online'[u] = online[u], inbox'[u] = inbox[u],
           hydrated'[u] = hydrated[u]
    PROVE  Linked(u)'
  BY DEF Linked

\* No PUT comes or goes.
LEMMA PutsStay ==
    ASSUME puts' = puts, view' = view
    PROVE  (OnePut => OnePut') /\ (Pending => Pending')
  BY DEF OnePut, Pending

\* A layout of the tab's own is either pushed or is the one it pushed before.
LEMMA ShowAgrees ==
    ASSUME ViewType, AgreeInv, NEW t \in Tab, NEW r \in SoundPage, Show(t, r, FALSE),
           hydrated[t] = TRUE, view' = view, calm' = TRUE
    PROVE  /\ OnePut'
           /\ Pending' \/ (AllAgree /\ sig' = sig /\ ViewOf(r) = sig[t])
<1>1. PICK v : v = ViewOf(r)
  OBVIOUS
<1>2. calm \in BOOLEAN /\ puts \in [Tab -> Seq(Puts)]
  BY DEF ViewType, FlagType, TransitType
<1>3. CASE v # sig[t]
  <2>1. /\ puts' = [puts EXCEPT ![t] = Append(@, [view |-> v, stage |-> "sent"])]
        /\ calm' = (calm /\ NoPut)
    BY <1>1, <1>3 DEF Show
  <2>2. \A s \in Tab : puts[s] = <<>>
    BY <2>1 DEF NoPut
  <2>3. PICK e : e = [view |-> v, stage |-> "sent"]
    OBVIOUS
  <2>4. puts'[t] = <<e>> /\ \A s \in Tab : s # t => puts'[s] = <<>>
    <3>1. puts' = [puts EXCEPT ![t] = Append(puts[t], e)]
      BY <2>1, <2>3
    <3>2. puts'[t] = Append(puts[t], e) /\ \A s \in Tab : s # t => puts'[s] = puts[s]
      BY <1>2, <3>1
    <3>3. Append(<<>>, e) = <<e>>
      OBVIOUS
    <3>4. QED
      BY <2>2, <3>2, <3>3
  <2>5. /\ \A s \in Tab : \A i \in DOMAIN puts'[s] : s = t /\ i = 1
        /\ 1 \in DOMAIN puts'[t] /\ puts'[t][1] = e
    <3>1. \A s \in Tab : s # t => DOMAIN puts'[s] = {}
      BY <2>4
    <3>2. DOMAIN puts'[t] = {1} /\ puts'[t][1] = e
      BY <2>4
    <3>3. QED
      BY <3>1, <3>2
  <2>6. e.stage = "sent"
    BY <2>3
  <2>7. OnePut'
    BY <2>5, <2>6 DEF OnePut
  <2>8. Pending'
    BY <2>5, <2>6 DEF Pending
  <2>9. QED
    BY <2>7, <2>8
<1>4. CASE v = sig[t]
  <2>1. puts' = puts /\ calm' = calm /\ sig' = sig
    BY <1>1, <1>4 DEF Show
  <2>2. OnePut /\ (Pending \/ AllAgree)
    BY <2>1 DEF AgreeInv
  <2>3. QED
    BY <1>1, <1>4, <2>1, <2>2, PutsStay
<1>5. QED
  BY <1>3, <1>4

\* A tab that shows what it pushed before.
LEMMA ShownAgrees ==
    ASSUME NEW t \in Tab, Agrees(t), view' = view, NEW r, page'[t] = r, sig'[t] = sig[t],
           ViewOf(r) = sig[t], phase'[t] = phase[t], answer'[t] = answer[t],
           behind'[t] = behind[t], NoView(inbox'[t]) => NoView(inbox[t]),
           LastView(inbox[t], view) => LastView(inbox'[t], view)
    PROVE  Agrees(t)'
  BY DEF Agrees

\* At the start.
LEMMA AgreeInit ==
    ASSUME Assumptions, ViewInit
    PROVE  LinkInv /\ AgreeInv
<1>1. ASSUME NEW t \in Tab PROVE Linked(t)
  <2>1. inbox[t] = <<>> /\ load[t].stage = "none" /\ online[t] = hydrated[t]
    BY DEF ViewInit, NoLoad
  <2>2. hydrated[t] = (t \in Running)
    BY DEF ViewInit
  <2>3. phase[t] = "up" <=> t \in Running
    BY DEF ViewInit
  <2>4. t \notin Running => Len(list[t]) = 0
    BY DEF ViewInit
  <2>5. CASE t \in Running
    <3>1. hydrated[t] = TRUE
      BY <2>2, <2>5
    <3>2. QED
      BY <2>1, <2>3, <2>5, <3>1 DEF Linked
  <2>6. CASE t \notin Running
    <3>1. (t \in Running) = FALSE
      BY <2>6
    <3>2. online[t] = FALSE
      BY <2>1, <2>2, <3>1, Zenon
    <3>3. QED
      BY <2>1, <2>3, <2>4, <2>6, <3>2 DEF Linked
  <2>7. QED
    BY <2>5, <2>6
<1>2. OnePut
  BY DEF ViewInit, OnePut
<1>3. ASSUME NEW t \in Tab PROVE Agrees(t)
  <2>1. inbox[t] = <<>> /\ phase[t] # "asked" /\ (phase[t] = "up" => t \in Running)
    BY DEF ViewInit
  <2>2. LastView(inbox[t], view)
    BY <2>1 DEF LastView
  <2>3. ASSUME t \in Running PROVE ViewOf(page[t]) = view /\ sig[t] = view
    <3>1. ViewOf(Reconcile(ReadPersisted(FirstView), board)) = FirstView
      BY DEF ViewInit
    <3>2. page[t] = Reconcile(ReadPersisted(FirstView), list[t]) /\ list[t] = board
      BY <2>3 DEF ViewInit
    <3>3. view = FirstView /\ sig[t] = FirstView
      BY <2>3 DEF ViewInit
    <3>4. QED
      BY <3>1, <3>2, <3>3
  <2>4. QED
    BY <2>1, <2>2, <2>3 DEF Agrees
<1>4. QED
  BY <1>1, <1>2, <1>3 DEF LinkInv, AgreeInv, AllAgree

\* The start of a tab.
LEMMA LinkedStart ==
    ASSUME ViewType, LinkInv, NEW t \in Tab,
           OpenTab(t) \/ ViewArrives(t) \/ ViewFails(t)
    PROVE  LinkInv'
<1> SUFFICES ASSUME NEW u \in Tab PROVE Linked(u)'
  BY DEF LinkInv
<1>0. Linked(u) /\ Linked(t)
  BY DEF LinkInv
<1>1. list' = list /\ online' = online /\ inbox' = inbox
  BY DEF OpenTab, ViewArrives, ViewFails
<1>2. CASE u # t
  <2>1. phase'[u] = phase[u] /\ load'[u] = load[u] /\ hydrated'[u] = hydrated[u]
    BY <1>2 DEF OpenTab, ViewArrives, ViewFails, ApplyView, ViewType, FlagType, TransitType
  <2>2. QED
    BY <1>0, <1>1, <2>1, UntouchedLinked
<1>3. CASE u = t /\ OpenTab(t)
  <2>1. phase[t] = "closed" /\ phase'[t] = "asked" /\ load' = load
    BY <1>3 DEF OpenTab, ViewType, FlagType
  <2>2. QED
    BY <1>0, <1>1, <1>3, <2>1 DEF Linked
<1>4. CASE u = t /\ (ViewArrives(t) \/ ViewFails(t))
  <2>1. phase[t] = "asked" /\ phase'[t] = "up" /\ hydrated'[t] = TRUE
    BY <1>4 DEF ViewArrives, ViewFails, ApplyView, ViewType, FlagType
  <2>2. QED
    BY <1>0, <1>1, <1>4, <2>1 DEF Linked
<1>5. QED
  BY <1>2, <1>3, <1>4

\* The start of a tab: it shows what the server has, or knows that it is behind.
LEMMA AgreeStart ==
    ASSUME Assumptions, ViewType, LinkInv, AgreeInv, NEW t \in Tab,
           OpenTab(t) \/ ViewArrives(t) \/ ViewFails(t)
    PROVE  AgreeInv'
<1>1. view' = view
  BY DEF OpenTab, ViewArrives, ViewFails, serverVars
<1>2. puts' = puts /\ calm' = calm
  <2>1. CASE ViewArrives(t)
    BY <2>1 DEF ViewArrives, ApplyView, Show
  <2>2. CASE ~ViewArrives(t)
    BY <2>2 DEF OpenTab, ViewFails, history
  <2>3. QED
    BY <2>1, <2>2
<1>3. SUFFICES ASSUME calm = TRUE, AllAgree, NEW u \in Tab PROVE Agrees(u)'
  BY <1>1, <1>2, PutsStay DEF AgreeInv, AllAgree
<1>4. Agrees(u) /\ Linked(u)
  BY <1>3 DEF AllAgree, LinkInv
<1>5. inbox' = inbox
  BY DEF OpenTab, ViewArrives, ViewFails
<1>6. CASE u # t
  <2>1. page'[u] = page[u] /\ sig'[u] = sig[u]
    BY <1>6 DEF OpenTab, ViewArrives, ViewFails, ApplyView, Show, ViewType, PageType, FlagType
  <2>2. phase'[u] = phase[u] /\ answer'[u] = answer[u] /\ behind'[u] = behind[u]
    BY <1>6 DEF OpenTab, ViewArrives, ViewFails, ViewType, FlagType, TransitType, history
  <2>3. QED
    BY <1>1, <1>4, <1>5, <2>1, <2>2, UntouchedAgrees
<1>7. CASE u = t /\ OpenTab(t)
  <2>1. phase'[t] = "asked" /\ answer'[t] = view
    BY <1>7 DEF OpenTab, ViewType, FlagType, TransitType
  <2>2. QED
    BY <1>1, <1>4, <1>5, <1>7, <2>1 DEF Agrees
<1>8. CASE u = t /\ ViewArrives(t)
  <2>1. phase[t] = "asked" /\ phase'[t] = "up" /\ behind' = behind
    BY <1>8 DEF ViewArrives, ViewType, FlagType
  <2>2. PICK v \in SoundView : v = answer[t]
    BY <2>1 DEF ViewType, TransitType
  <2>3. ApplyView(t, v)
    BY <1>8, <2>2 DEF ViewArrives
  <2>4. PICK s \in SoundPage : s = page[t]
    BY DEF ViewType, PageType
  <2>5. PICK r : r = WithRemote(s, v)
    OBVIOUS
  <2>6. ViewOf(r) = v
    BY <2>5, WithRemoteIs DEF Assumptions
  <2>7. page'[t] = r /\ sig'[t] = v
    BY <2>3, <2>4, <2>5, ApplyViewIs DEF ViewType, PageType, FlagType
  <2>8. QED
    BY <1>1, <1>4, <1>5, <1>8, <2>1, <2>2, <2>6, <2>7 DEF Agrees
<1>9. CASE u = t /\ ViewFails(t)
  <2>1. behind'[t] = TRUE /\ phase'[t] = "up"
    BY <1>9 DEF ViewFails, ViewType, FlagType
  <2>2. QED
    BY <1>1, <1>4, <1>5, <1>9, <2>1 DEF Agrees
<1>10. QED
  BY <1>6, <1>7, <1>8, <1>9

\* A list, or a frame, or a click: only a tab that is up has any.
LEMMA LinkedTab ==
    ASSUME Assumptions, ViewType, LinkInv, NEW t \in Tab,
           \/ ListArrives(t) \/ ListFails(t) \/ Connect(t) \/ SocketBreaks(t)
           \/ ViewFrame(t) \/ ListFrame(t)
    PROVE  LinkInv' /\ phase[t] = "up" /\ hydrated[t] = TRUE
<1>0. Linked(t)
  BY DEF LinkInv
<1>1. phase[t] = "up"
  BY <1>0 DEF Linked, ListArrives, ListFails, Connect, SocketBreaks, ViewFrame, ListFrame
<1>2. hydrated[t] = TRUE /\ phase' = phase
  BY <1>0, <1>1
     DEF Linked, ListArrives, ListFails, Connect, SocketBreaks, ViewFrame, ListFrame
<1>3. ASSUME NEW u \in Tab PROVE Linked(u)'
  <2>0. Linked(u)
    BY DEF LinkInv
  <2>1. CASE u # t
    <3>1. list'[u] = list[u] /\ load'[u] = load[u]
      BY <2>1 DEF ListArrives, ListFails, Connect, SocketBreaks, ViewFrame, ListFrame, ApplyList,
                  ViewType, PageType, TransitType
    <3>2. online'[u] = online[u] /\ inbox'[u] = inbox[u]
      BY <2>1 DEF ListArrives, ListFails, Connect, SocketBreaks, ViewFrame, ListFrame,
                  ViewType, FlagType, TransitType
    <3>3. hydrated'[u] = hydrated[u]
      BY <2>1 DEF ListArrives, ListFails, Connect, SocketBreaks, ViewFrame, ListFrame, ApplyView,
                  ViewType, FlagType
    <3>4. QED
      BY <1>2, <2>0, <3>1, <3>2, <3>3, UntouchedLinked
  <2>2. CASE u = t
    <3>1. hydrated'[t] = TRUE
      BY <1>2 DEF ListArrives, ListFails, Connect, SocketBreaks, ViewFrame, ListFrame, ApplyView,
                  ViewType, FlagType
    <3>2. online'[t] = FALSE => inbox'[t] = <<>>
      <4>1. CASE Connect(t)
        BY <4>1 DEF Connect, ViewType, FlagType
      <4>2. CASE SocketBreaks(t)
        BY <4>2 DEF SocketBreaks, ViewType, TransitType
      <4>3. CASE ViewFrame(t) \/ ListFrame(t)
        BY <1>0, <4>3 DEF ViewFrame, ListFrame, Linked
      <4>4. CASE ListArrives(t) \/ ListFails(t)
        BY <1>0, <4>4 DEF ListArrives, ListFails, Linked
      <4>5. QED
        BY <4>1, <4>2, <4>3, <4>4
    <3>3. QED
      BY <1>1, <1>2, <2>2, <3>1, <3>2 DEF Linked
  <2>3. QED
    BY <2>1, <2>2
<1>4. QED
  BY <1>1, <1>2, <1>3 DEF LinkInv

\* A list arrives: what the tab makes of it is pushed.
LEMMA AgreeApply ==
    ASSUME Assumptions, ViewType, AgreeInv, NEW t \in Tab, NEW l, l \in Boards, ApplyList(t, l),
           hydrated[t] = TRUE, view' = view, phase' = phase, answer' = answer, behind' = behind,
           \A u \in Tab : u # t => inbox'[u] = inbox[u],
           NoView(inbox'[t]) => NoView(inbox[t]),
           LastView(inbox[t], view) => LastView(inbox'[t], view)
    PROVE  AgreeInv'
<1>1. PICK m \in Seq(Entry), r \in SoundPage :
         /\ m = PreserveOrder(list[t], l) /\ r = Reconcile(page[t], m)
         /\ list' = [list EXCEPT ![t] = m] /\ page' = [page EXCEPT ![t] = r]
         /\ Show(t, r, FALSE)
  BY ApplyListIs
<1>2. SUFFICES ASSUME calm' = TRUE PROVE OnePut' /\ (Pending' \/ AllAgree')
  BY DEF AgreeInv
<1>3. /\ OnePut'
      /\ Pending' \/ (AllAgree /\ sig' = sig /\ ViewOf(r) = sig[t])
  <2>1. Show(t, r, FALSE)
    BY <1>1
  <2>2. QED
    BY <1>2, <2>1, ShowAgrees
<1>4. ASSUME AllAgree, sig' = sig, ViewOf(r) = sig[t], NEW u \in Tab PROVE Agrees(u)'
  <2>0. Agrees(u)
    BY <1>4 DEF AllAgree
  <2>1. CASE u # t
    <3>1. page'[u] = page[u] /\ inbox'[u] = inbox[u]
      BY <1>1, <2>1 DEF ViewType, PageType
    <3>2. QED
      BY <1>4, <2>0, <3>1, UntouchedAgrees
  <2>2. CASE u = t
    <3>1. page'[t] = r
      BY <1>1 DEF ViewType, PageType
    <3>2. QED
      BY <1>4, <2>0, <2>2, <3>1, ShownAgrees
  <2>3. QED
    BY <2>1, <2>2
<1>5. QED
  BY <1>3, <1>4 DEF AllAgree

\* A list that was loaded, or the board socket.
LEMMA AgreeList ==
    ASSUME Assumptions, ViewType, LinkInv, AgreeInv, NEW t \in Tab,
           ListArrives(t) \/ ListFails(t) \/ Connect(t) \/ SocketBreaks(t)
    PROVE  AgreeInv'
<1>1. /\ view' = view /\ phase' = phase /\ answer' = answer
      /\ hydrated[t] = TRUE
  BY LinkedTab DEF ListArrives, ListFails, Connect, SocketBreaks, serverVars
<1>2. CASE ListArrives(t)
  <2>1. PICK l : l = load[t].list
    OBVIOUS
  <2>2. load[t] \in Loads
    BY DEF ViewType, TransitType
  <2>3. l \in Boards
    BY <1>2, <2>1, <2>2, LoadIs DEF ListArrives
  <2>4. ApplyList(t, l) /\ inbox' = inbox /\ behind' = behind
    BY <1>2, <2>1 DEF ListArrives
  <2>5. QED
    BY <1>1, <2>3, <2>4, AgreeApply
<1>3. CASE ListFails(t) \/ Connect(t)
  <2>1. /\ page' = page /\ sig' = sig /\ behind' = behind /\ inbox' = inbox
        /\ puts' = puts /\ calm' = calm
    BY <1>3 DEF ListFails, Connect, history
  <2>2. AllAgree => AllAgree'
    BY <1>1, <2>1, UntouchedAgrees DEF AllAgree
  <2>3. QED
    BY <1>1, <2>1, <2>2, PutsStay DEF AgreeInv
<1>4. CASE SocketBreaks(t)
  <2>1. /\ page' = page /\ sig' = sig /\ puts' = puts /\ calm' = calm
        /\ inbox' = [inbox EXCEPT ![t] = <<>>]
        /\ behind' = [behind EXCEPT ![t] =
                        @ \/ \E i \in DOMAIN inbox[t] : inbox[t][i].kind = "view"]
    BY <1>4 DEF SocketBreaks
  <2>2. ASSUME AllAgree, NEW u \in Tab PROVE Agrees(u)'
    <3>0. Agrees(u)
      BY <2>2 DEF AllAgree
    <3>1. CASE u # t
      <4>1. inbox'[u] = inbox[u] /\ behind'[u] = behind[u]
        BY <2>1, <3>1 DEF ViewType, TransitType, FlagType
      <4>2. QED
        BY <1>1, <2>1, <3>0, <4>1, UntouchedAgrees
    <3>2. CASE u = t
      <4>1. inbox'[t] = <<>>
        BY <2>1 DEF ViewType, TransitType
      <4>2. behind'[t] = FALSE => behind[t] = FALSE /\ NoView(inbox[t])
        <5>1. behind'[t] = (behind[t] \/ \E i \in DOMAIN inbox[t] : inbox[t][i].kind = "view")
          BY <2>1 DEF ViewType, FlagType
        <5>2. behind[t] \in BOOLEAN
          BY DEF ViewType, FlagType
        <5>3. QED
          BY <5>1, <5>2 DEF NoView
      <4>3. LastView(<<>>, view)
        BY DEF LastView
      <4>4. phase[t] = "up"
        BY <1>4, LinkedTab
      <4>5. QED
        BY <1>1, <2>1, <3>0, <3>2, <4>1, <4>2, <4>3, <4>4 DEF Agrees
    <3>3. QED
      BY <3>1, <3>2
  <2>3. QED
    BY <1>1, <2>1, <2>2, PutsStay DEF AgreeInv, AllAgree
<1>5. QED
  BY <1>2, <1>3, <1>4

\* A frame of the board socket.
LEMMA AgreeFrame ==
    ASSUME Assumptions, ViewType, LinkInv, AgreeInv, NEW t \in Tab,
           ViewFrame(t) \/ ListFrame(t)
    PROVE  AgreeInv'
<1>1. /\ view' = view /\ phase' = phase /\ answer' = answer
      /\ hydrated[t] = TRUE /\ inbox' = [inbox EXCEPT ![t] = Tail(@)] /\ inbox[t] # <<>>
  BY LinkedTab DEF ViewFrame, ListFrame, serverVars
<1>2. PICK q \in Seq(Frames) : q = inbox[t]
  BY DEF ViewType, TransitType
<1>3. q # <<>> /\ inbox'[t] = Tail(q) /\ \A u \in Tab : u # t => inbox'[u] = inbox[u]
  BY <1>1, <1>2 DEF ViewType, TransitType
<1>4. Head(q) \in Frames
  BY <1>3
<1>5. CASE ListFrame(t)
  <2>1. PICK l : l = Head(q).list
    OBVIOUS
  <2>2. Head(q).kind = "list"
    BY <1>2, <1>5 DEF ListFrame
  <2>3. l \in Boards
    BY <1>4, <2>1, <2>2, FrameIs
  <2>4. ApplyList(t, l) /\ behind' = behind
    BY <1>2, <1>5, <2>1 DEF ListFrame
  <2>5. Head(q).kind # "view"
    BY <2>2
  <2>6. /\ NoView(inbox'[t]) => NoView(inbox[t])
        /\ LastView(inbox[t], view) => LastView(inbox'[t], view)
    BY <1>2, <1>3, <2>5, FrameSteps
  <2>7. QED
    BY <1>1, <1>3, <2>3, <2>4, <2>6, AgreeApply
<1>6. CASE ViewFrame(t)
  <2>1. Head(q).kind = "view"
    BY <1>2, <1>6 DEF ViewFrame
  <2>2. Head(q).view \in SoundView
    BY <1>4, <2>1, FrameIs
  <2>3. PICK v \in SoundView : v = Head(q).view
    BY <2>2
  <2>4. ApplyView(t, v)
    BY <1>2, <1>6, <2>3 DEF ViewFrame
  <2>5. PICK s \in SoundPage : s = page[t]
    BY DEF ViewType, PageType
  <2>6. PICK r : r = WithRemote(s, v)
    OBVIOUS
  <2>7. ViewOf(r) = v
    BY <2>6, WithRemoteIs DEF Assumptions
  <2>8. /\ page' = [page EXCEPT ![t] = r] /\ sig' = [sig EXCEPT ![t] = v]
        /\ puts' = puts /\ calm' = calm
    BY <2>4, <2>5, <2>6, ApplyViewIs
  <2>9. ASSUME AllAgree, NEW u \in Tab PROVE Agrees(u)'
    <3>0. Agrees(u) /\ Agrees(t)
      BY <2>9 DEF AllAgree
    <3>1. CASE u # t
      <4>1. page'[u] = page[u] /\ sig'[u] = sig[u] /\ behind'[u] = behind[u]
        BY <1>6, <2>8, <3>1 DEF ViewFrame, ViewType, PageType, FlagType
      <4>2. QED
        BY <1>1, <1>3, <3>0, <3>1, <4>1, UntouchedAgrees
    <3>2. CASE u = t
      <4>1. page'[t] = r /\ sig'[t] = v
        BY <2>8 DEF ViewType, PageType, FlagType
      <4>2. LastView(q, view)
        BY <1>2, <3>0 DEF Agrees
      <4>3. LastView(Tail(q), view) /\ (NoView(Tail(q)) => v = view)
        BY <1>3, <2>1, <2>3, <4>2, FrameSteps
      <4>4. phase[t] = "up"
        BY <1>6, LinkedTab
      <4>5. QED
        BY <1>1, <1>3, <2>7, <3>2, <4>1, <4>3, <4>4 DEF Agrees
    <3>3. QED
      BY <3>1, <3>2
  <2>10. QED
    BY <1>1, <2>8, <2>9, PutsStay DEF AgreeInv, AllAgree
<1>7. QED
  BY <1>5, <1>6

\* A click of the user: the new layout is pushed.
LEMMA AgreeClick ==
    ASSUME Assumptions, ViewType, LinkInv, AgreeInv, NEW t \in Tab, list[t] # <<>>,
           NEW r \in SoundPage, Show(t, r, FALSE), view' = view, phase' = phase,
           answer' = answer, behind' = behind, inbox' = inbox
    PROVE  AgreeInv'
<1>1. hydrated[t] = TRUE
  <2>1. PICK l \in Seq(Entry) : l = list[t]
    BY DEF ViewType, PageType
  <2>2. Len(l) # 0
    BY <2>1
  <2>3. QED
    BY <2>1, <2>2 DEF LinkInv, Linked
<1>2. page' = [page EXCEPT ![t] = r]
  BY DEF Show
<1>3. SUFFICES ASSUME calm' = TRUE PROVE OnePut' /\ (Pending' \/ AllAgree')
  BY DEF AgreeInv
<1>4. /\ OnePut'
      /\ Pending' \/ (AllAgree /\ sig' = sig /\ ViewOf(r) = sig[t])
  BY <1>1, <1>3, ShowAgrees
<1>5. ASSUME AllAgree, sig' = sig, ViewOf(r) = sig[t], NEW u \in Tab PROVE Agrees(u)'
  <2>0. Agrees(u)
    BY <1>5 DEF AllAgree
  <2>1. CASE u # t
    <3>1. page'[u] = page[u]
      BY <1>2, <2>1 DEF ViewType, PageType
    <3>2. QED
      BY <1>5, <2>0, <3>1, UntouchedAgrees
  <2>2. CASE u = t
    <3>1. page'[t] = r
      BY <1>2 DEF ViewType, PageType
    <3>2. QED
      BY <1>5, <2>0, <2>2, <3>1, ShownAgrees
  <2>3. QED
    BY <2>1, <2>2
<1>6. QED
  BY <1>4, <1>5 DEF AllAgree

\* A click leaves the socket and the list as they are, and so does the answer of a
\* request to mark as seen, but for the flag.
LEMMA LinkedClick ==
    ASSUME ViewType, LinkInv, NEW t \in Tab,
           \/ \E w \in Entry : OpenWorkspace(t, w)
           \/ \E i \in DOMAIN list[t] : CloseWorkspace(t, i)
           \/ \E id : SeenAnswered(t, id)
    PROVE  LinkInv'
<1> SUFFICES ASSUME NEW u \in Tab PROVE Linked(u)'
  BY DEF LinkInv
<1>0. Linked(u)
  BY DEF LinkInv
<1>1. /\ phase' = phase /\ online' = online /\ load' = load /\ inbox' = inbox
      /\ hydrated' = hydrated
  BY DEF OpenWorkspace, CloseWorkspace, SeenAnswered
<1>2. Len(list'[u]) = Len(list[u])
  <2>1. CASE list' = list
    BY <2>1
  <2>2. CASE \E id : SeenAnswered(t, id)
    <3>1. PICK id : SeenAnswered(t, id)
      BY <2>2
    <3>2. PICK l \in Seq(Entry) : l = list[t]
      BY DEF ViewType, PageType
    <3>3. PICK m : m = [i \in DOMAIN l |-> IF l[i].id = id
                                           THEN [l[i] EXCEPT !.unseen = FALSE] ELSE l[i]]
      OBVIOUS
    <3>4. Calmer(m, l)
      BY <3>3, SeenListIs
    <3>5. list' = list \/ list' = [list EXCEPT ![t] = m]
      BY <3>1, <3>2, <3>3 DEF SeenAnswered
    <3>6. list'[u] = list[u] \/ (u = t /\ list'[u] = m)
      BY <3>5 DEF ViewType, PageType
    <3>7. QED
      BY <3>2, <3>4, <3>6 DEF Calmer
  <2>3. QED
    BY <2>1, <2>2 DEF OpenWorkspace, CloseWorkspace
<1>3. QED
  BY <1>0, <1>1, <1>2 DEF Linked

\* What the server does reaches the tabs through their sockets only.
LEMMA LinkedServer ==
    ASSUME ViewType, LinkInv,
           \/ BoardChanges
           \/ \E t \in Tab : \E i \in DOMAIN puts[t] :
                 PutStored(t, i) \/ PutTold(t, i) \/ PutAnswered(t, i) \/ PutFails(t, i)
    PROVE  LinkInv'
<1> SUFFICES ASSUME NEW u \in Tab PROVE Linked(u)'
  BY DEF LinkInv
<1>0. Linked(u)
  BY DEF LinkInv
<1>1. /\ phase' = phase /\ online' = online /\ load' = load /\ list' = list
      /\ hydrated' = hydrated
  BY DEF BoardChanges, PutStored, PutTold, PutAnswered, PutFails, tabVars
<1>2. inbox' = inbox \/ \E f : Broadcast(f)
  BY DEF BoardChanges, PutStored, PutTold, PutAnswered, PutFails, tabVars
<1>3. online[u] = FALSE => inbox'[u] = inbox[u]
  BY <1>2 DEF Broadcast, ViewType, FlagType
<1>4. QED
  BY <1>0, <1>1, <1>3 DEF Linked

\* The server stores the one PUT that is under way, tells the tabs of it, answers.
LEMMA AgreePut ==
    ASSUME Assumptions, ViewType, LinkInv, AgreeInv, NEW t \in Tab, NEW i \in DOMAIN puts[t],
           PutStored(t, i) \/ PutTold(t, i) \/ PutAnswered(t, i) \/ PutFails(t, i)
    PROVE  AgreeInv'
<1>1. CASE PutFails(t, i)
  BY <1>1 DEF PutFails, AgreeInv
<1>2. CASE ~PutFails(t, i) /\ calm # TRUE
  BY <1>2 DEF PutStored, PutTold, PutAnswered, AgreeInv, history
<1>3. CASE ~PutFails(t, i) /\ calm = TRUE
  <2>1. /\ puts \in [Tab -> Seq(Puts)] /\ puts[t][i] \in Puts
    BY PutIs
  <2>2. OnePut /\ (Pending \/ AllAgree)
    BY <1>3 DEF AgreeInv
  <2>3. \A s \in Tab : \A j \in DOMAIN puts[s] : s = t /\ j = i
    BY <2>2 DEF OnePut
  <2>4. PICK q \in Seq(Puts) : q = puts[t]
    BY <2>1
  <2>5. DOMAIN q = {i} /\ i \in DOMAIN q
    BY <2>3, <2>4
  <2>6. CASE PutStored(t, i)
    <3>1. puts' = [puts EXCEPT ![t] = [@ EXCEPT ![i].stage = "stored"]] /\ view' = q[i].view
      BY <2>4, <2>6 DEF PutStored, Advance
    <3>2. PICK p : p = [q EXCEPT ![i].stage = "stored"]
      OBVIOUS
    <3>3. puts' = [puts EXCEPT ![t] = p]
      BY <2>4, <3>1, <3>2
    <3>4. puts'[t] = p /\ \A s \in Tab : s # t => puts'[s] = puts[s]
      BY <2>1, <3>3
    <3>5. DOMAIN p = {i} /\ p[i].stage = "stored" /\ p[i].view = q[i].view
      <4>1. q[i] \in Puts
        BY <2>1, <2>4
      <4>2. p[i] = [q[i] EXCEPT !.stage = "stored"] /\ DOMAIN p = DOMAIN q
        BY <2>5, <3>2
      <4>3. QED
        BY <2>5, <4>1, <4>2 DEF Puts
    <3>6. OnePut'
      <4>1. \A s \in Tab : \A j \in DOMAIN puts'[s] : s = t /\ j = i
        <5>1. ASSUME NEW s \in Tab, s # t PROVE DOMAIN puts'[s] = {}
          BY <2>3, <3>4, <5>1
        <5>2. DOMAIN puts'[t] = {i}
          BY <3>4, <3>5
        <5>3. QED
          BY <5>1, <5>2
      <4>2. puts'[t][i].view = view'
        BY <3>1, <3>4, <3>5
      <4>3. QED
        BY <4>1, <4>2 DEF OnePut
    <3>7. Pending'
      BY <3>4, <3>5 DEF Pending
    <3>8. QED
      BY <3>6, <3>7 DEF AgreeInv
  <2>7. CASE PutTold(t, i)
    <3>1. /\ puts' = [puts EXCEPT ![t] = [@ EXCEPT ![i].stage = "told"]] /\ view' = view
          /\ q[i].stage = "stored"
          /\ Broadcast([kind |-> "view", view |-> q[i].view])
          /\ behind' = [s \in Tab |->
                          behind[s] \/ (phase[s] \in {"asked", "up"} /\ ~online[s])]
          /\ phase' = phase
      BY <2>4, <2>7 DEF PutTold, Advance, serverVars
    <3>2. q[i].view = view
      BY <2>2, <2>4, <3>1 DEF OnePut
    <3>3. PICK p : p = [q EXCEPT ![i].stage = "told"]
      OBVIOUS
    <3>4. puts' = [puts EXCEPT ![t] = p]
      BY <2>4, <3>1, <3>3
    <3>5. puts'[t] = p /\ \A s \in Tab : s # t => puts'[s] = puts[s]
      BY <2>1, <3>4
    <3>6. DOMAIN p = {i} /\ p[i].view = q[i].view
      <4>1. q[i] \in Puts
        BY <2>1, <2>4
      <4>2. p[i] = [q[i] EXCEPT !.stage = "told"] /\ DOMAIN p = DOMAIN q
        BY <2>5, <3>3
      <4>3. QED
        BY <2>5, <4>1, <4>2 DEF Puts
    <3>7. OnePut'
      <4>1. \A s \in Tab : \A j \in DOMAIN puts'[s] : s = t /\ j = i
        <5>1. ASSUME NEW s \in Tab, s # t PROVE DOMAIN puts'[s] = {}
          BY <2>3, <3>5, <5>1
        <5>2. DOMAIN puts'[t] = {i}
          BY <3>5, <3>6
        <5>3. QED
          BY <5>1, <5>2
      <4>2. puts'[t][i].view = view'
        BY <3>1, <3>2, <3>5, <3>6
      <4>3. QED
        BY <4>1, <4>2 DEF OnePut
    <3>8. PICK f \in Frames : f = [kind |-> "view", view |-> view]
      BY DEF ViewType, ServerType, Frames
    <3>9. ASSUME NEW u \in Tab PROVE Agrees(u)'
      <4>0. Linked(u)
        BY DEF LinkInv
      <4>1. CASE online[u] = TRUE
        <5>1. PICK b \in Seq(Frames) : b = inbox[u]
          BY DEF ViewType, TransitType
        <5>2. inbox'[u] = Append(b, f)
          BY <3>1, <3>2, <3>8, <4>1, <5>1 DEF Broadcast
        <5>3. LastView(inbox'[u], view) /\ ~NoView(inbox'[u])
          BY <3>8, <5>2, FrameAdds
        <5>4. phase[u] = "up"
          BY <4>0, <4>1 DEF Linked
        <5>5. QED
          BY <3>1, <5>3, <5>4 DEF Agrees
      <4>2. CASE online[u] = FALSE
        <5>1. inbox'[u] = <<>>
          BY <3>1, <4>0, <4>2 DEF Broadcast, Linked
        <5>2. phase[u] = "asked" \/ phase[u] = "up" => behind'[u] = TRUE
          BY <3>1, <4>2
        <5>3. LastView(<<>>, view)
          BY DEF LastView
        <5>4. QED
          BY <3>1, <5>1, <5>2, <5>3 DEF Agrees
      <4>3. online[u] \in BOOLEAN
        BY DEF ViewType, FlagType
      <4>4. QED
        BY <4>1, <4>2, <4>3
    <3>10. QED
      BY <3>7, <3>9 DEF AgreeInv, AllAgree
  <2>8. CASE PutAnswered(t, i)
    <3>1. /\ q[i].stage = "told" /\ view' = view
          /\ sig' = [sig EXCEPT ![t] = q[i].view]
          /\ puts' = [puts EXCEPT ![t] = RemoveAt(q, i)]
          /\ page' = page /\ phase' = phase /\ answer' = answer /\ behind' = behind
          /\ inbox' = inbox
      BY <2>4, <2>8 DEF PutAnswered, serverVars, history
    <3>2. q[i].view = view
      BY <2>2, <2>4, <3>1 DEF OnePut
    <3>3. ~Pending
      BY <2>3, <2>4, <3>1 DEF Pending
    <3>4. AllAgree
      BY <2>2, <3>3
    <3>5. \A s \in Tab : DOMAIN puts'[s] = {}
      <4>1. Len(q) = 1
        <5>1. Len(q) \in Nat /\ DOMAIN q = 1..Len(q)
          BY <2>4
        <5>2. \A j \in 1..Len(q) : j = i
          BY <2>5, <5>1
        <5>3. i \in 1..Len(q)
          BY <2>5, <5>1
        <5>4. Len(q) # 0
          BY <5>1, <5>3
        <5>5. ~(Len(q) >= 2)
          <6>1. SUFFICES ASSUME Len(q) >= 2 PROVE FALSE
            OBVIOUS
          <6>2. 1 \in 1..Len(q) /\ 2 \in 1..Len(q)
            BY <5>1, <6>1
          <6>3. 1 = i /\ 2 = i
            BY <5>2, <6>2
          <6>4. QED
            BY <6>3
        <5>6. QED
          BY <5>1, <5>4, <5>5
      <4>2. PICK p : p = RemoveAt(q, i)
        OBVIOUS
      <4>3. p \in Seq(Puts) /\ Len(p) = 0
        BY <2>5, <4>1, <4>2, RemoveAtIs
      <4>4. DOMAIN p = {}
        BY <4>3
      <4>5. puts'[t] = p /\ \A s \in Tab : s # t => puts'[s] = puts[s]
        BY <2>1, <3>1, <4>2
      <4>6. \A s \in Tab : s # t => DOMAIN puts[s] = {}
        BY <2>3
      <4>7. QED
        BY <4>4, <4>5, <4>6
    <3>6. OnePut'
      BY <3>5 DEF OnePut
    <3>7. ASSUME NEW u \in Tab PROVE Agrees(u)'
      <4>0. Agrees(u)
        BY <3>4 DEF AllAgree
      <4>1. sig'[u] = sig[u] \/ sig'[u] = view
        BY <3>1, <3>2 DEF ViewType, FlagType
      <4>2. QED
        BY <3>1, <4>0, <4>1 DEF Agrees
    <3>8. QED
      BY <3>6, <3>7 DEF AgreeInv, AllAgree
  <2>9. QED
    BY <1>3, <2>6, <2>7, <2>8
<1>4. QED
  BY <1>1, <1>2, <1>3

\* A new list of the server, or a flag that is cleared, does not touch the layouts.
LEMMA AgreeBoard ==
    ASSUME Assumptions, ViewType, AgreeInv,
           BoardChanges \/ \E t \in Tab : \E id : SeenAnswered(t, id)
    PROVE  AgreeInv'
<1>1. /\ page' = page /\ sig' = sig /\ phase' = phase /\ answer' = answer
      /\ view' = view /\ puts' = puts /\ behind' = behind /\ calm' = calm
  BY DEF BoardChanges, SeenAnswered, serverVars, history
<1>2. ASSUME AllAgree, NEW u \in Tab PROVE Agrees(u)'
  <2>0. Agrees(u)
    BY <1>2 DEF AllAgree
  <2>1. CASE BoardChanges
    <3>1. PICK c \in Boards : Broadcast([kind |-> "list", list |-> c])
      BY <2>1 DEF BoardChanges
    <3>2. PICK f \in Frames : f = [kind |-> "list", list |-> c]
      BY DEF Frames
    <3>3. PICK q \in Seq(Frames) : q = inbox[u]
      BY DEF ViewType, TransitType
    <3>4. inbox'[u] = q \/ inbox'[u] = Append(q, f)
      BY <3>1, <3>2, <3>3 DEF Broadcast
    <3>5. f.kind # "view"
      BY <3>2
    <3>6. /\ NoView(Append(q, f)) => NoView(q)
          /\ LastView(q, view) => LastView(Append(q, f), view)
      BY <3>5, FrameAdds
    <3>7. /\ NoView(inbox'[u]) => NoView(inbox[u])
          /\ LastView(inbox[u], view) => LastView(inbox'[u], view)
      BY <3>3, <3>4, <3>6
    <3>8. QED
      BY <1>1, <2>0, <3>7 DEF Agrees
  <2>2. CASE \E t \in Tab : \E id : SeenAnswered(t, id)
    <3>1. inbox' = inbox
      BY <2>2 DEF SeenAnswered
    <3>2. QED
      BY <1>1, <2>0, <3>1, UntouchedAgrees
  <2>3. QED
    BY <2>1, <2>2
<1>3. QED
  BY <1>1, <1>2, PutsStay DEF AgreeInv, AllAgree

\* Nothing changes.
LEMMA AgreeStays ==
    ASSUME LinkInv, AgreeInv, UNCHANGED vars
    PROVE  LinkInv' /\ AgreeInv'
<1>1. LinkInv'
  BY DEF LinkInv, Linked, vars, tabVars
<1>2. AllAgree => AllAgree'
  BY UntouchedAgrees DEF AllAgree, vars, tabVars, serverVars, history
<1>3. puts' = puts /\ view' = view /\ calm' = calm
  BY DEF vars, serverVars, history
<1>4. QED
  BY <1>1, <1>2, <1>3, PutsStay DEF AgreeInv

\* Every step keeps it.
LEMMA AgreeStep ==
    ASSUME Assumptions, ViewType, LinkInv, AgreeInv, [ViewNext]_vars
    PROVE  LinkInv' /\ AgreeInv'
<1>1. ASSUME NEW t \in Tab, NEW w \in Entry, list[t] # <<>>, OpenWorkspace(t, w)
      PROVE  AgreeInv'
  <2>1. PICK r \in SoundPage : Show(t, r, FALSE)
    BY <1>1, ClickIs
  <2>2. /\ view' = view /\ phase' = phase /\ answer' = answer /\ behind' = behind
        /\ inbox' = inbox
    BY <1>1 DEF OpenWorkspace, serverVars
  <2>3. QED
    BY <1>1, <2>1, <2>2, AgreeClick
<1>2. ASSUME NEW t \in Tab, NEW i \in DOMAIN list[t], CloseWorkspace(t, i)
      PROVE  AgreeInv'
  <2>1. PICK r \in SoundPage : Show(t, r, FALSE)
    BY <1>2, CloseIs
  <2>2. /\ view' = view /\ phase' = phase /\ answer' = answer /\ behind' = behind
        /\ inbox' = inbox
    BY <1>2 DEF CloseWorkspace, serverVars
  <2>3. list[t] # <<>>
    OBVIOUS
  <2>4. QED
    BY <2>1, <2>2, <2>3, AgreeClick
<1>3. QED
  BY <1>1, <1>2, Steps, AgreeStays, AgreeBoard, AgreePut, AgreeStart, AgreeList, AgreeFrame,
     LinkedServer, LinkedStart, LinkedTab, LinkedClick

\* As long as no PUT fails and no two are under way together, a tab that missed no
\* broadcast shows the view of the server once nothing is under way, and what it believes
\* to have pushed last is that view: what it puts aside while it waits (updated() of
\* workspace-home.ts) is never lost.
THEOREM QuietTabsAlwaysAgree ==
    ASSUME MaxOpenAssumption, NoneAssumption, BoardsAssumption, FirstViewAssumption,
           RunningAssumption
    PROVE  ViewSpec => []QuietTabsAgree
<1>1. Assumptions
  BY DEF Assumptions
<1>2. ViewInit => ViewType /\ LinkInv /\ AgreeInv
  BY <1>1, TypeInit, AgreeInit
<1>3. ViewType /\ LinkInv /\ AgreeInv /\ [ViewNext]_vars => (ViewType /\ LinkInv /\ AgreeInv)'
  BY <1>1, TypeStep, AgreeStep
<1>4. ViewType /\ AgreeInv => QuietTabsAgree
  <2> SUFFICES ASSUME ViewType, AgreeInv, Quiet, calm, NEW t \in Tab, phase[t] = "up",
                      ~behind[t]
               PROVE  ViewOf(page[t]) = view
    BY DEF QuietTabsAgree
  <2>1. \A s \in Tab : DOMAIN puts[s] = {}
    BY DEF Quiet, NoPut
  <2>2. ~Pending
    BY <2>1 DEF Pending
  <2>3. calm = TRUE /\ behind[t] = FALSE
    BY DEF ViewType, FlagType
  <2>4. Agrees(t)
    BY <2>2, <2>3 DEF AgreeInv, AllAgree
  <2>5. NoView(inbox[t])
    BY DEF Quiet, NoView
  <2>6. QED
    BY <2>3, <2>4, <2>5 DEF Agrees
<1>5. QED
  BY <1>2, <1>3, <1>4, PTL DEF ViewSpec
=============================================================================
