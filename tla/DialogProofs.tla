----------------------------- MODULE DialogProofs -----------------------------
(***************************************************************************)
(* Theorems about the dialog of the card, for any workspaces, texts and    *)
(* bounds: what it shows, until it is overtaken, is what the server has,   *)
(* in order, and at rest it shows all of it.  The first parts, on requests *)
(* under way and on lists of messages, are lemmas about sequences.         *)
(***************************************************************************)
EXTENDS MCBoards, SequenceTheorems, FiniteSetTheorems, TLAPS

-----------------------------------------------------------------------------
(* Requests under way *)

\* Array.splice
Left(s, n) == SubSeq(s, 1, n - 1) \o SubSeq(s, n + 1, Len(s))

\* An answer takes one request out.
LEMMA LeftIs ==
    ASSUME NEW S, NEW s \in Seq(S), NEW n \in DOMAIN s
    PROVE  /\ Left(s, n) \in Seq(S) /\ Len(Left(s, n)) = Len(s) - 1
           /\ \A m \in 1 .. Len(s) - 1 :
                 Left(s, n)[m] = IF m < n THEN s[m] ELSE s[m + 1]
<1> DEFINE x == SubSeq(s, 1, n - 1)
           y == SubSeq(s, n + 1, Len(s))
<1>1. /\ x \in Seq(S) /\ Len(x) = n - 1 /\ \A m \in 1 .. n - 1 : x[m] = s[m]
  OBVIOUS
<1>2. /\ y \in Seq(S) /\ Len(y) = Len(s) - n /\ \A m \in 1 .. Len(s) - n : y[m] = s[n + m]
  OBVIOUS
<1>3. Left(s, n) = x \o y
  BY DEF Left
<1> HIDE DEF x, y
<1>4. /\ x \o y \in Seq(S) /\ Len(x \o y) = Len(s) - 1
      /\ \A m \in 1 .. Len(s) - 1 : (x \o y)[m] = IF m < n THEN x[m] ELSE y[m - (n - 1)]
  BY <1>1, <1>2
<1>5. ASSUME NEW m \in 1 .. Len(s) - 1
      PROVE  (x \o y)[m] = IF m < n THEN s[m] ELSE s[m + 1]
  <2>1. CASE m < n
    BY <1>1, <1>4, <2>1
  <2>2. CASE ~(m < n)
    <3>1. m - (n - 1) \in 1 .. Len(s) - n /\ n + (m - (n - 1)) = m + 1
      BY <2>2
    <3>2. QED
      BY <1>2, <1>4, <2>2, <3>1
  <2>3. QED
    BY <2>1, <2>2
<1>6. QED
  BY <1>3, <1>4, <1>5

\* The others stay, and nothing else is there.
LEMMA LeftOthers ==
    ASSUME NEW S, NEW s \in Seq(S), NEW n \in DOMAIN s
    PROVE  /\ \A m \in DOMAIN Left(s, n) : \E l \in DOMAIN s \ {n} : Left(s, n)[m] = s[l]
           /\ \A l \in DOMAIN s \ {n} : \E m \in DOMAIN Left(s, n) : Left(s, n)[m] = s[l]
<1>1. /\ DOMAIN s = 1 .. Len(s) /\ Len(s) \in Nat /\ n \in 1 .. Len(s)
      /\ DOMAIN Left(s, n) = 1 .. Len(s) - 1
  BY LeftIs
<1>2. ASSUME NEW m \in DOMAIN Left(s, n)
      PROVE  \E l \in DOMAIN s \ {n} : Left(s, n)[m] = s[l]
  <2>1. CASE m < n
    <3>1. m \in DOMAIN s \ {n} /\ m \in 1 .. Len(s) - 1
      BY <1>1, <2>1
    <3>2. Left(s, n)[m] = s[m]
      BY <2>1, <3>1, LeftIs
    <3>3. QED
      BY <3>1, <3>2
  <2>2. CASE ~(m < n)
    <3>1. m + 1 \in DOMAIN s \ {n} /\ Left(s, n)[m] = s[m + 1]
      BY <1>1, <2>2, LeftIs
    <3>2. QED
      BY <3>1
  <2>3. QED
    BY <2>1, <2>2
<1>3. ASSUME NEW l \in DOMAIN s \ {n}
      PROVE  \E m \in DOMAIN Left(s, n) : Left(s, n)[m] = s[l]
  <2>1. CASE l < n
    <3>0. l \in 1 .. Len(s) /\ n \in 1 .. Len(s) /\ Len(s) \in Nat
      BY <1>1
    <3>1. l \in 1 .. Len(s) - 1
      BY <2>1, <3>0
    <3>2. l \in DOMAIN Left(s, n) /\ Left(s, n)[l] = s[l]
      BY <1>1, <2>1, <3>1, LeftIs
    <3>3. QED
      BY <3>2
  <2>2. CASE ~(l < n)
    <3>1. l - 1 \in DOMAIN Left(s, n) /\ Left(s, n)[l - 1] = s[l]
      <4>1. l - 1 \in 1 .. Len(s) - 1 /\ ~(l - 1 < n) /\ (l - 1) + 1 = l
        BY <1>1, <2>2
      <4>2. QED
        BY <1>1, <4>1, LeftIs
    <3>2. QED
      BY <3>1
  <2>3. QED
    BY <2>1, <2>2
<1>4. QED
  BY <1>2, <1>3

\* What a sequence holds
Held(s) == {s[n] : n \in DOMAIN s}

\* Requests are sent together.
LEMMA HeldBoth ==
    ASSUME NEW S, NEW s \in Seq(S), NEW r \in Seq(S)
    PROVE  s \o r \in Seq(S) /\ Held(s \o r) = Held(s) \cup Held(r)
<1>1. /\ s \o r \in Seq(S) /\ DOMAIN (s \o r) = 1 .. Len(s) + Len(r)
      /\ \A n \in 1 .. Len(s) : (s \o r)[n] = s[n]
      /\ \A n \in 1 .. Len(r) : (s \o r)[Len(s) + n] = r[n]
      /\ DOMAIN s = 1 .. Len(s) /\ Len(s) \in Nat /\ DOMAIN r = 1 .. Len(r) /\ Len(r) \in Nat
  OBVIOUS
<1>2. Held(s \o r) \subseteq Held(s) \cup Held(r)
  <2> SUFFICES ASSUME NEW n \in 1 .. Len(s) + Len(r) PROVE (s \o r)[n] \in Held(s) \cup Held(r)
    BY <1>1 DEF Held
  <2>1. CASE n <= Len(s)
    <3>1. n \in 1 .. Len(s)
      BY <1>1, <2>1
    <3>2. QED
      BY <1>1, <3>1 DEF Held
  <2>2. CASE ~(n <= Len(s))
    <3>1. n - Len(s) \in 1 .. Len(r) /\ Len(s) + (n - Len(s)) = n
      BY <1>1, <2>2
    <3>2. (s \o r)[n] = r[n - Len(s)]
      BY <1>1, <3>1
    <3>3. QED
      BY <1>1, <3>1, <3>2 DEF Held
  <2>3. QED
    BY <2>1, <2>2
<1>3. Held(s) \cup Held(r) \subseteq Held(s \o r)
  <2>1. \A n \in 1 .. Len(s) : n \in 1 .. Len(s) + Len(r)
    BY <1>1
  <2>2. \A n \in 1 .. Len(r) : Len(s) + n \in 1 .. Len(s) + Len(r)
    BY <1>1
  <2>3. \A n \in 1 .. Len(s) : s[n] \in Held(s \o r)
    BY <1>1, <2>1 DEF Held
  <2>4. \A n \in 1 .. Len(r) : r[n] \in Held(s \o r)
    BY <1>1, <2>2 DEF Held
  <2>5. QED
    BY <1>1, <2>3, <2>4 DEF Held
<1>4. QED
  BY <1>1, <1>2, <1>3

\* One request is sent.
LEMMA HeldMore ==
    ASSUME NEW S, NEW s \in Seq(S), NEW x \in S
    PROVE  /\ Append(s, x) \in Seq(S) /\ Held(Append(s, x)) = Held(s) \cup {x}
           /\ s \o <<x>> \in Seq(S) /\ Held(s \o <<x>>) = Held(s) \cup {x}
<1>1. /\ Append(s, x) \in Seq(S) /\ DOMAIN Append(s, x) = 1 .. Len(s) + 1
      /\ \A n \in 1 .. Len(s) : Append(s, x)[n] = s[n]
      /\ Append(s, x)[Len(s) + 1] = x
      /\ DOMAIN s = 1 .. Len(s) /\ Len(s) \in Nat
  OBVIOUS
<1>2. \A n : n \in 1 .. Len(s) + 1 <=> n \in 1 .. Len(s) \/ n = Len(s) + 1
  BY <1>1
<1>3. Held(Append(s, x)) = Held(s) \cup {x}
  BY <1>1, <1>2 DEF Held
<1>4. <<x>> \in Seq(S) /\ Held(<<x>>) = {x}
  <2>1. DOMAIN <<x>> = {1} /\ <<x>>[1] = x
    OBVIOUS
  <2>2. QED
    BY <2>1 DEF Held
<1> DEFINE r == <<x>>
<1>5. s \o r \in Seq(S) /\ Held(s \o r) = Held(s) \cup {x}
  <2>1. r \in Seq(S) /\ Held(r) = {x}
    BY <1>4
  <2> HIDE DEF r
  <2>2. QED
    BY <2>1, HeldBoth
<1>6. QED
  BY <1>1, <1>3, <1>5

\* A request is answered: at most it is gone.
LEMMA HeldLess ==
    ASSUME NEW S, NEW s \in Seq(S), NEW n \in DOMAIN s
    PROVE  /\ s[n] \in S /\ s[n] \in Held(s)
           /\ Left(s, n) \in Seq(S)
           /\ Held(Left(s, n)) \subseteq Held(s)
           /\ Held(s) \ {s[n]} \subseteq Held(Left(s, n))
<1>1. s[n] \in S /\ s[n] \in Held(s)
  BY DEF Held
<1>2. Left(s, n) \in Seq(S)
  BY LeftIs
<1>3. Held(Left(s, n)) \subseteq Held(s)
  BY LeftOthers DEF Held
<1>4. Held(s) \ {s[n]} \subseteq Held(Left(s, n))
  BY LeftOthers DEF Held
<1>5. QED
  BY <1>1, <1>2, <1>3, <1>4

\* No request, and two.
LEMMA HeldFew ==
    /\ Held(<<>>) = {}
    /\ \A x, y : Held(<<x, y>>) = {x, y}
<1>1. Held(<<>>) = {}
  BY DEF Held
<1>2. ASSUME NEW x, NEW y PROVE Held(<<x, y>>) = {x, y}
  <2>1. DOMAIN <<x, y>> = {1, 2} /\ <<x, y>>[1] = x /\ <<x, y>>[2] = y
    OBVIOUS
  <2>2. QED
    BY <2>1 DEF Held
<1>3. QED
  BY <1>1, <1>2

\* The others keep their order.
LEMMA LeftOrder ==
    ASSUME NEW S, NEW s \in Seq(S), NEW n \in DOMAIN s
    PROVE  /\ \A m \in DOMAIN Left(s, n) :
                 /\ (IF m < n THEN m ELSE m + 1) \in DOMAIN s \ {n}
                 /\ Left(s, n)[m] = s[IF m < n THEN m ELSE m + 1]
           /\ \A l \in DOMAIN s \ {n} :
                 /\ (IF l < n THEN l ELSE l - 1) \in DOMAIN Left(s, n)
                 /\ Left(s, n)[IF l < n THEN l ELSE l - 1] = s[l]
<1> DEFINE r == Left(s, n)
<1>1. /\ DOMAIN r = 1 .. Len(s) - 1 /\ DOMAIN s = 1 .. Len(s) /\ Len(s) \in Nat
      /\ n \in 1 .. Len(s)
      /\ \A m \in 1 .. Len(s) - 1 : r[m] = IF m < n THEN s[m] ELSE s[m + 1]
  BY LeftIs
<1> HIDE DEF r
<1>2. ASSUME NEW m \in DOMAIN r
      PROVE  /\ (IF m < n THEN m ELSE m + 1) \in DOMAIN s \ {n}
             /\ r[m] = s[IF m < n THEN m ELSE m + 1]
  BY <1>1
<1>3. ASSUME NEW l \in DOMAIN s \ {n}
      PROVE  /\ (IF l < n THEN l ELSE l - 1) \in DOMAIN r
             /\ r[IF l < n THEN l ELSE l - 1] = s[l]
  <2>1. l \in 1 .. Len(s) /\ l # n
    BY <1>1
  <2>2. CASE l < n
    <3>1. l \in 1 .. Len(s) - 1
      BY <1>1, <2>1, <2>2
    <3>2. QED
      BY <1>1, <2>2, <3>1
  <2>3. CASE ~(l < n)
    <3>1. l - 1 \in 1 .. Len(s) - 1 /\ ~(l - 1 < n) /\ (l - 1) + 1 = l
      BY <1>1, <2>1, <2>3
    <3>2. r[l - 1] = s[l]
      BY <1>1, <3>1
    <3>3. QED
      BY <1>1, <2>3, <3>1, <3>2
  <2>4. QED
    BY <2>2, <2>3
<1>4. QED
  BY <1>2, <1>3 DEF r

\* None of a kind in a sequence, and the last of it.
NoneOf(s, x) == \A n \in DOMAIN s : s[n] \notin x
LastIn(s, x, v) ==
    \E n \in DOMAIN s : s[n] = v /\ v \in x /\ \A m \in DOMAIN s : m > n => s[m] \notin x

\* A request is sent: it is the last of its kind, and of the others the last stays.
LEMMA LastSent ==
    ASSUME NEW S, NEW s \in Seq(S), NEW w \in S, NEW x
    PROVE  LET r == Append(s, w)
           IN  /\ r \in Seq(S) /\ Held(r) = Held(s) \cup {w}
               /\ w \in x => ~NoneOf(r, x) /\ \A v : LastIn(r, x, v) => v = w
               /\ w \notin x => /\ NoneOf(r, x) => NoneOf(s, x)
                                /\ \A v : LastIn(r, x, v) => LastIn(s, x, v)
<1> DEFINE r == Append(s, w)
           last1 == Len(s) + 1
<1>1. /\ r \in Seq(S) /\ DOMAIN r = 1 .. last1 /\ DOMAIN s = 1 .. Len(s) /\ Len(s) \in Nat
      /\ r[last1] = w /\ \A n \in 1 .. Len(s) : r[n] = s[n]
  OBVIOUS
<1>2. /\ last1 \in DOMAIN r /\ \A n \in DOMAIN s : n \in DOMAIN r /\ r[n] = s[n] /\ last1 > n
      /\ \A n \in DOMAIN r : n \in DOMAIN s \/ n = last1
  BY <1>1
<1> HIDE DEF r, last1
<1>3. Held(r) = Held(s) \cup {w}
  BY <1>1, <1>2 DEF Held
<1>4. w \in x => ~NoneOf(r, x) /\ \A v : LastIn(r, x, v) => v = w
  BY <1>1, <1>2 DEF NoneOf, LastIn
<1>5. ASSUME w \notin x, NEW v, LastIn(r, x, v) PROVE LastIn(s, x, v)
  <2>1. PICK n \in DOMAIN r : r[n] = v /\ v \in x /\ \A m \in DOMAIN r : m > n => r[m] \notin x
    BY <1>5 DEF LastIn
  <2>2. n \in DOMAIN s /\ s[n] = v
    BY <1>1, <1>2, <1>5, <2>1
  <2>3. \A m \in DOMAIN s : m > n => s[m] \notin x
    BY <1>2, <2>1
  <2>4. QED
    BY <2>1, <2>2, <2>3 DEF LastIn
<1>6. NoneOf(r, x) => NoneOf(s, x)
  BY <1>2 DEF NoneOf
<1>7. QED
  BY <1>1, <1>3, <1>4, <1>5, <1>6 DEF r

\* A request is answered: of the other kinds the last stays, and of its own kind too
\* when it was the first.
LEMMA LastAnswered ==
    ASSUME NEW S, NEW s \in Seq(S), NEW n \in DOMAIN s, NEW x,
           s[n] \in x => \A m \in DOMAIN s : m < n => s[m] \notin x
    PROVE  LET r == Left(s, n)
           IN  /\ r \in Seq(S)
               /\ s[n] \notin x /\ NoneOf(r, x) => NoneOf(s, x)
               /\ s[n] \in x /\ NoneOf(r, x) => LastIn(s, x, s[n])
               /\ \A v : LastIn(r, x, v) => LastIn(s, x, v)
<1> DEFINE r == Left(s, n)
           Back(m) == IF m < n THEN m ELSE m + 1
           Forth(m) == IF m < n THEN m ELSE m - 1
<1>1. r \in Seq(S) /\ DOMAIN r \subseteq Nat /\ DOMAIN s \subseteq Nat /\ n \in Nat
  BY LeftIs
<1>2. /\ \A m \in DOMAIN r : Back(m) \in DOMAIN s \ {n} /\ r[m] = s[Back(m)]
      /\ \A m \in DOMAIN s \ {n} : Forth(m) \in DOMAIN r /\ r[Forth(m)] = s[m]
  BY LeftOrder
<1>3. \A m, l \in Nat : m # n /\ m > Back(l) => Forth(m) > l
  BY <1>1
<1> HIDE DEF r, Back, Forth
<1>4. NoneOf(r, x) => \A m \in DOMAIN s \ {n} : s[m] \notin x
  BY <1>2 DEF NoneOf
<1>5. s[n] \notin x /\ NoneOf(r, x) => NoneOf(s, x)
  BY <1>4 DEF NoneOf
<1>6. s[n] \in x /\ NoneOf(r, x) => LastIn(s, x, s[n])
  <2>1. \A m \in DOMAIN s : m > n => m # n
    BY <1>1
  <2>2. QED
    BY <1>4, <2>1 DEF LastIn
<1>7. ASSUME NEW v, LastIn(r, x, v) PROVE LastIn(s, x, v)
  <2>1. PICK l \in DOMAIN r : r[l] = v /\ v \in x /\ \A m \in DOMAIN r : m > l => r[m] \notin x
    BY <1>7 DEF LastIn
  <2>2. Back(l) \in DOMAIN s \ {n} /\ s[Back(l)] = v
    BY <1>2, <2>1
  <2>3. ASSUME NEW m \in DOMAIN s, m > Back(l) PROVE s[m] \notin x
    <3>1. CASE m # n
      <4>1. Forth(m) \in DOMAIN r /\ r[Forth(m)] = s[m] /\ Forth(m) > l
        BY <1>1, <1>2, <1>3, <2>1, <2>3, <3>1
      <4>2. QED
        BY <2>1, <4>1
    <3>2. CASE m = n
      <4>1. Back(l) < n
        BY <1>1, <2>2, <2>3, <3>2
      <4>2. QED
        BY <2>1, <2>2, <3>2, <4>1
    <3>3. QED
      BY <3>1, <3>2
  <2>4. QED
    BY <2>1, <2>2, <2>3 DEF LastIn
<1>8. QED
  BY <1>1, <1>5, <1>6, <1>7 DEF r

\* The places before one.
LEMMA EarlierIs == \A y, w \in Nat \ {0} : y < w => y \in 1 .. w - 1
  OBVIOUS

-----------------------------------------------------------------------------
(* Lists of messages *)

\* Cardinality of a set
LEMMA SameNumber == \A S : D!Cardinality(S) = Cardinality(S)
  BY Zenon DEF Cardinality, D!Cardinality

\* Cardinality of the places of a sequence
LEMMA IntervalIs == \A n \in Nat : IsFiniteSet(1 .. n) /\ Cardinality(1 .. n) = n
  BY FS_Interval

\* The rank of a place among some places: by a key, then as they stand.
Lower(A, keys, n) == {m \in A : keys[m] < keys[n] \/ (keys[m] = keys[n] /\ m <= n)}

\* Every one of the places has a rank of its own, and every rank a place.
Ranked(A, keys) ==
    /\ IsFiniteSet(A) /\ Cardinality(A) \in Nat
    /\ \A n \in A : Cardinality(Lower(A, keys, n)) \in 1 .. Cardinality(A)
    /\ \A n, m \in A : Cardinality(Lower(A, keys, n)) = Cardinality(Lower(A, keys, m)) => n = m
    /\ \A l \in 1 .. Cardinality(A) : \E n \in A : Cardinality(Lower(A, keys, n)) = l
    /\ \A n, m \in A : (keys[n] < keys[m] \/ (keys[n] = keys[m] /\ n < m)) =>
          Cardinality(Lower(A, keys, n)) < Cardinality(Lower(A, keys, m))

\* Some places of a sequence are ranked.
LEMMA RankIs ==
    ASSUME NEW N \in Nat, NEW A \in SUBSET (1 .. N), NEW keys \in [1 .. N -> Nat]
    PROVE  Ranked(A, keys)
<1> DEFINE R(n) == Lower(A, keys, n)
           Total == Cardinality(A)
<1>1. IsFiniteSet(1 .. N) /\ IsFiniteSet(A) /\ Total \in Nat
  <2>1. IsFiniteSet(1 .. N)
    BY FS_Interval
  <2>2. IsFiniteSet(A)
    BY <2>1, FS_Subset
  <2>3. QED
    BY <2>1, <2>2, FS_CardinalityType
<1>2. \A n \in A : R(n) \in SUBSET A /\ n \in R(n)
  <2> TAKE n \in A
  <2>1. keys[n] \in Nat
    OBVIOUS
  <2>2. QED
    BY <2>1 DEF Lower
<1>3. \A n \in A : IsFiniteSet(R(n)) /\ Cardinality(R(n)) \in 1 .. Total
  <2> HIDE DEF R
  <2> TAKE n \in A
  <2>1. IsFiniteSet(R(n)) /\ Cardinality(R(n)) <= Total /\ Cardinality(R(n)) \in Nat
    BY <1>1, <1>2, FS_Subset, FS_CardinalityType
  <2>2. Cardinality(R(n)) # 0
    BY <1>2, <2>1, FS_EmptySet
  <2>3. QED
    BY <1>1, <2>1, <2>2
<1>4. ASSUME NEW n \in A, NEW m \in A, keys[n] < keys[m] \/ (keys[n] = keys[m] /\ n < m)
      PROVE  Cardinality(R(n)) < Cardinality(R(m))
  <2>1. /\ \A l \in 1 .. N : keys[l] \in Nat
        /\ n \in 1 .. N /\ m \in 1 .. N
    OBVIOUS
  <2>2. R(n) \in SUBSET R(m)
    <3>1. \A l \in A : l \in 1 .. N /\ keys[l] \in Nat
      BY <2>1
    <3>2. \A l \in A : l \in R(n) => l \in R(m)
      BY <1>4, <2>1, <3>1 DEF Lower
    <3>3. QED
      BY <1>2, <3>2
  <2>3. R(n) # R(m)
    <3>1. m \notin R(n)
      BY <1>4, <2>1 DEF Lower
    <3>2. QED
      BY <1>2, <3>1
  <2> HIDE DEF R
  <2>4. Cardinality(R(n)) <= Cardinality(R(m)) /\ Cardinality(R(n)) # Cardinality(R(m))
    BY <1>3, <2>2, <2>3, FS_Subset
  <2>5. QED
    BY <1>1, <1>3, <2>4
<1>5. \A n, m \in A : Cardinality(R(n)) = Cardinality(R(m)) => n = m
  <2> HIDE DEF R, Total
  <2> TAKE n, m \in A
  <2>1. keys[n] \in Nat /\ keys[m] \in Nat /\ n \in Nat /\ m \in Nat
    OBVIOUS
  <2>2. n = m \/ (keys[n] < keys[m] \/ (keys[n] = keys[m] /\ n < m))
              \/ (keys[m] < keys[n] \/ (keys[m] = keys[n] /\ m < n))
    BY <2>1
  <2>3. Cardinality(R(n)) \in Nat /\ Cardinality(R(m)) \in Nat
    BY <1>1, <1>3
  <2>4. QED
    BY <1>4, <2>2, <2>3
<1> HIDE DEF R, Total
<1> DEFINE f == [n \in A |-> Cardinality(R(n))]
<1>6. f \in Injection(A, 1 .. Total)
  BY <1>3, <1>5 DEF Injection, IsInjective
<1>7. IsFiniteSet(1 .. Total) /\ Cardinality(1 .. Total) = Total
  BY <1>1, FS_Interval
<1>8. f \in Surjection(A, 1 .. Total)
  <2> HIDE DEF f
  <2>1. QED
    BY <1>6, <1>7, FS_Injection DEF Total
<1>9. \A l \in 1 .. Total : \E n \in A : f[n] = l
  <2> HIDE DEF f
  <2>1. QED
    BY <1>8, Zenon DEF Surjection
<1>10. \A l \in 1 .. Total : \E n \in A : Cardinality(R(n)) = l
  BY <1>9
<1>11. QED
  BY <1>1, <1>3, <1>4, <1>5, <1>10 DEF R, Total, Ranked

\* A list has the elements of another, in the order of their keys.
Moved(s, r, keys, N) ==
    \E f \in [1 .. N -> 1 .. N] :
        /\ \A n, m \in 1 .. N : f[n] = f[m] => n = m
        /\ \A n \in 1 .. N : \E l \in 1 .. N : f[l] = n
        /\ \A l \in 1 .. N : r[l] = s[f[l]]
        /\ \A l, m \in 1 .. N : l < m => keys[f[l]] <= keys[f[m]]

\* Sorting moves the elements of a list, keeps all of them and puts them in order.
LEMMA SortedIs ==
    ASSUME NEW S, NEW s \in Seq(S), NEW N \in Nat, N = Len(s),
           NEW keys \in [1 .. N -> Nat]
    PROVE  /\ D!Sorted(s, keys) \in Seq(S) /\ Len(D!Sorted(s, keys)) = N
           /\ Moved(s, D!Sorted(s, keys), keys, N)
<1>1. DOMAIN s = 1 .. N /\ DOMAIN keys = 1 .. N
  OBVIOUS
<1> DEFINE R(n) == Cardinality(Lower(1 .. N, keys, n))
           from(l) == CHOOSE n \in 1 .. N : D!Place(keys, n) = l
<1>2. Cardinality(1 .. N) = N
  BY IntervalIs
<1>3. /\ \A n \in 1 .. N : R(n) \in 1 .. N
      /\ \A n, m \in 1 .. N : R(n) = R(m) => n = m
      /\ \A l \in 1 .. N : \E n \in 1 .. N : R(n) = l
      /\ \A n, m \in 1 .. N : keys[n] < keys[m] => R(n) < R(m)
  <2>1. 1 .. N \in SUBSET (1 .. N) /\ N \in Nat
    BY <1>1
  <2>2. keys \in [1 .. N -> Nat]
    BY <1>1
  <2>3. Ranked(1 .. N, keys)
    BY <2>1, <2>2, RankIs
  <2>4. QED
    BY <1>2, <2>3 DEF Ranked
<1>4. \A n \in 1 .. N : D!Place(keys, n) = R(n)
  <2>1. \A n : D!Place(keys, n) = D!Cardinality(Lower(1 .. N, keys, n))
    BY <1>1, Zenon DEF D!Place, Lower
  <2>2. QED
    BY <2>1, SameNumber
<1>5. D!Sorted(s, keys) = [l \in 1 .. N |-> s[from(l)]]
  BY <1>1 DEF D!Sorted
<1> HIDE DEF R
<1>6. \A l \in 1 .. N : from(l) \in 1 .. N /\ R(from(l)) = l
  <2> TAKE l \in 1 .. N
  <2>1. \E n \in 1 .. N : D!Place(keys, n) = l
    BY <1>3, <1>4
  <2>2. from(l) \in 1 .. N /\ D!Place(keys, from(l)) = l
    BY <2>1
  <2> HIDE DEF from
  <2>3. QED
    BY <1>4, <2>2
<1> HIDE DEF from
<1>7. \A n \in 1 .. N : from(R(n)) = n
  BY <1>3, <1>6
<1> DEFINE f == [l \in 1 .. N |-> from(l)]
<1>8. f \in [1 .. N -> 1 .. N] /\ \A l \in 1 .. N : f[l] = from(l)
  BY <1>6
<1>9. D!Sorted(s, keys) \in Seq(S) /\ Len(D!Sorted(s, keys)) = N
  <2>1. \A l \in 1 .. N : s[from(l)] \in S
    BY <1>1, <1>6
  <2>2. D!Sorted(s, keys) \in [1 .. N -> S]
    BY <1>5, <2>1
  <2>3. QED
    BY <1>1, <2>2
<1>10. \A l, m \in 1 .. N : l < m => keys[f[l]] <= keys[f[m]]
  <2> TAKE l, m \in 1 .. N
  <2>1. keys[from(l)] \in Nat /\ keys[from(m)] \in Nat
    <3>1. from(l) \in 1 .. N /\ from(m) \in 1 .. N
      BY <1>6
    <3>2. QED
      BY <3>1
  <2>2. keys[from(m)] < keys[from(l)] => R(from(m)) < R(from(l))
    BY <1>3, <1>6
  <2>3. keys[from(m)] < keys[from(l)] => m < l
    BY <1>6, <2>2
  <2>4. QED
    BY <1>1, <1>8, <2>1, <2>3
<1>11. \A n, m \in 1 .. N : f[n] = f[m] => n = m
  BY <1>6, <1>8
<1>12. \A n \in 1 .. N : \E l \in 1 .. N : f[l] = n
  BY <1>3, <1>7, <1>8
<1>13. \A l \in 1 .. N : D!Sorted(s, keys)[l] = s[f[l]]
  BY <1>5, <1>8
<1> HIDE DEF f
<1>14. QED
  BY <1>8, <1>9, <1>10, <1>11, <1>12, <1>13 DEF Moved

\* Filtering keeps the elements at some places, each once.
LEMMA FilteredIs ==
    ASSUME NEW S, NEW s \in Seq(S), NEW A \in SUBSET (DOMAIN s)
    PROVE  /\ D!Filtered(s, A) \in Seq(S)
           /\ \E f \in [DOMAIN D!Filtered(s, A) -> A] :
                 /\ \A n, m \in DOMAIN D!Filtered(s, A) : f[n] = f[m] => n = m
                 /\ \A n \in DOMAIN D!Filtered(s, A) : D!Filtered(s, A)[n] = s[f[n]]
<1>1. Len(s) \in Nat /\ DOMAIN s = 1 .. Len(s)
  OBVIOUS
<1> DEFINE N == Len(s)
           keys == [n \in 1 .. N |-> 0]
           R(n) == Cardinality(Lower(A, keys, n))
           Total == Cardinality(A)
           from(l) == CHOOSE n \in A : D!Cardinality({m \in A : m <= n}) = l
<1>2. /\ Total \in Nat
      /\ \A n \in A : R(n) \in 1 .. Total
      /\ \A l \in 1 .. Total : \E n \in A : R(n) = l
  <2>1. keys \in [1 .. N -> Nat] /\ N \in Nat /\ A \in SUBSET (1 .. N)
    BY <1>1
  <2> HIDE DEF keys, N
  <2>2. Ranked(A, keys)
    BY <2>1, RankIs
  <2>3. QED
    BY <2>2 DEF Ranked
<1>3. \A n \in A : R(n) = Cardinality({m \in A : m <= n})
  <2> TAKE n \in A
  <2>1. \A m \in A : keys[m] = 0
    BY <1>1
  <2> HIDE DEF keys
  <2>2. Lower(A, keys, n) = {m \in A : m <= n}
    BY <2>1 DEF Lower
  <2>3. QED
    BY <2>2
<1>4. D!Filtered(s, A) = [l \in 1 .. Total |-> s[from(l)]]
  <2>1. D!Cardinality(A) = Total
    BY SameNumber
  <2> HIDE DEF Total
  <2>2. QED
    BY <2>1 DEF D!Filtered
<1> HIDE DEF R, Total
<1>5. \A l \in 1 .. Total : from(l) \in A /\ R(from(l)) = l
  <2>1. \A n \in A : D!Cardinality({m \in A : m <= n}) = R(n)
    BY <1>3, SameNumber
  <2>2. QED
    BY <1>2, <2>1
<1> HIDE DEF from
<1>6. D!Filtered(s, A) \in [1 .. Total -> S]
  <2>1. \A l \in 1 .. Total : s[from(l)] \in S
    BY <1>1, <1>5
  <2>2. QED
    BY <1>4, <2>1
<1>7. D!Filtered(s, A) \in Seq(S) /\ DOMAIN D!Filtered(s, A) = 1 .. Total
  BY <1>2, <1>6
<1> DEFINE f == [l \in 1 .. Total |-> from(l)]
<1>8. /\ f \in [1 .. Total -> A]
      /\ \A n, m \in 1 .. Total : f[n] = f[m] => n = m
      /\ \A n \in 1 .. Total : D!Filtered(s, A)[n] = s[f[n]]
  BY <1>4, <1>5
<1> HIDE DEF f
<1>9. QED
  BY <1>7, <1>8

\* Some places have a first and a last.
LEMMA EndsIs ==
    ASSUME NEW N \in Nat, NEW A \in SUBSET (1 .. N), A # {}
    PROVE  (\E n \in A : \A l \in A : n <= l) /\ \E n \in A : \A l \in A : l <= n
<1> DEFINE keys == [n \in 1 .. N |-> 0]
           R(n) == Cardinality(Lower(A, keys, n))
           Total == Cardinality(A)
<1>1. keys \in [1 .. N -> Nat] /\ \A n, m \in A : keys[n] = keys[m]
  OBVIOUS
<1> HIDE DEF keys
<1>2. Ranked(A, keys)
  BY <1>1, RankIs
<1>3. /\ Total \in Nat /\ IsFiniteSet(A)
      /\ \A n \in A : R(n) \in 1 .. Total
      /\ \A l \in 1 .. Total : \E n \in A : R(n) = l
      /\ \A n, m \in A : n < m => R(n) < R(m)
  BY <1>1, <1>2 DEF Ranked
<1>4. Total # 0
  BY <1>3, FS_EmptySet
<1> HIDE DEF R, Total
<1>5. \A n \in A : n \in Nat
  OBVIOUS
<1>6. 1 \in 1 .. Total /\ Total \in 1 .. Total
  BY <1>3, <1>4
<1>7. PICK n \in A : R(n) = 1
  BY <1>3, <1>6
<1>8. PICK m \in A : R(m) = Total
  BY <1>3, <1>6
<1>9. \A l \in A : n <= l
  BY <1>3, <1>5, <1>7
<1>10. \A l \in A : l <= m
  BY <1>3, <1>5, <1>8
<1>11. QED
  BY <1>9, <1>10

\* Keys that only grow and leave none out
Growing(keys, N, L) ==
    /\ keys \in [1 .. N -> 1 .. L]
    /\ \A n, m \in 1 .. N : n < m => keys[n] < keys[m]
    /\ \A l \in 1 .. L : \E n \in 1 .. N : keys[n] = l

\* Such keys number the places they stand at.
LEMMA GrowingIs ==
    ASSUME NEW N \in Nat, NEW L \in Nat, NEW keys, Growing(keys, N, L)
    PROVE  N = L /\ \A n \in 1 .. N : keys[n] = n
<1> USE DEF Growing
<1>1. ASSUME NEW n \in 1 .. N PROVE keys[n] = n
  <2> DEFINE h == [m \in 1 .. n |-> keys[m]]
  <2>1. /\ n \in Nat /\ keys[n] \in 1 .. L /\ keys[n] \in Nat
        /\ \A m \in 1 .. n : m \in 1 .. N
        /\ \A m \in 1 .. N : keys[m] \in 1 .. L
    OBVIOUS
  <2>2. \A m \in 1 .. n : keys[m] \in 1 .. keys[n]
    <3> TAKE m \in 1 .. n
    <3>1. m < n => keys[m] < keys[n]
      BY <2>1
    <3>2. m = n \/ m < n
      BY <2>1
    <3>3. QED
      BY <2>1, <3>1, <3>2
  <2>3. \A m, l \in 1 .. n : keys[m] = keys[l] => m = l
    <3> TAKE m, l \in 1 .. n
    <3>1. (m < l => keys[m] < keys[l]) /\ (l < m => keys[l] < keys[m])
      BY <2>1
    <3>2. keys[m] \in Nat /\ keys[l] \in Nat
      BY <2>1
    <3>3. QED
      BY <2>1, <3>1, <3>2
  <2>4. \A l \in 1 .. keys[n] : \E m \in 1 .. n : keys[m] = l
    <3> TAKE l \in 1 .. keys[n]
    <3>1. PICK m \in 1 .. N : keys[m] = l
      BY <2>1
    <3>2. n < m => keys[n] < keys[m]
      BY <2>1
    <3>3. m \in 1 .. n
      BY <2>1, <3>1, <3>2
    <3>4. QED
      BY <3>1, <3>3
  <2>5. h \in Injection(1 .. n, 1 .. keys[n])
    BY <2>2, <2>3 DEF Injection, IsInjective
  <2>6. h \in Surjection(1 .. n, 1 .. keys[n])
    BY <2>2, <2>4 DEF Surjection
  <2>7. /\ IsFiniteSet(1 .. n) /\ Cardinality(1 .. n) = n
        /\ IsFiniteSet(1 .. keys[n]) /\ Cardinality(1 .. keys[n]) = keys[n]
    BY <2>1, FS_Interval
  <2> HIDE DEF h
  <2>8. QED
    BY <2>5, <2>6, <2>7, FS_Injection
<1>2. N = L
  <2>1. CASE L = 0
    <3>1. \A n \in 1 .. N : keys[n] \in 1 .. 0
      BY <2>1
    <3>2. QED
      BY <2>1, <3>1
  <2>2. CASE L # 0
    <3>1. PICK n \in 1 .. N : keys[n] = L
      BY <2>2
    <3>2. N \in 1 .. N /\ keys[N] \in 1 .. L
      BY <3>1
    <3>3. QED
      BY <1>1, <3>1, <3>2
  <2>3. QED
    BY <2>1, <2>2
<1>3. QED
  BY <1>1, <1>2

-----------------------------------------------------------------------------
(* The dialog of the card *)

\* What a line of the log, a message of the dialog and a request under way are.
Words == Text \cup {None}
Line == [who : {"ai", "user"}, text : Words]
Bubble == [key : Nat, at : Nat, who : {"ai", "user"}, text : Words]
DialogCall == [op : {"load", "send", "queue", "cancel", "queue status"}, of : Workspace,
               text : Words, served : BOOLEAN, said : Words, to : Nat]

DialogType ==
    /\ log \in [Workspace -> Seq(Line)] /\ coming \in [Workspace -> Seq(Words)]
    /\ waiting \in [Workspace -> Words] /\ opened \in Workspace \cup {None} /\ draft \in Words
    /\ messages \in Seq(Bubble) /\ frames \in Seq(Nat) /\ calls \in Seq(DialogCall)

\* How many elements of a sequence, behind one place, are of a kind.
NumberAfter(s, m, x) == Cardinality({n \in DOMAIN s : n > m /\ s[n] \in x})
Number(s, x) == NumberAfter(s, 0, x)

\* The copies that show a text, the requests taken to send it, the lines that have it.
Copies(x) == {c \in Bubble : c.key = 0 /\ c.text = x}
Taken(x) == {c \in DialogCall : c.op = "send" /\ c.served /\ c.text = x}
Written(x) == {l \in Line : l.who = "user" /\ l.text = x}

\* The entries of the open dialog whose frames were handled
Handled == Len(log[opened]) - Len(frames)

LoadsOf(w) == {c \in Held(calls) : c.op = "load" /\ c.of = w}

CallsFit ==
    /\ ~switched => \A c \in Held(calls) : c.op # "load" => c.of = opened
    /\ \A c \in Held(calls) : (c.op = "load" /\ c.served) => c.to <= Len(log[c.of])
    /\ (opened # None /\ ~crossed) =>
          \A c \in LoadsOf(opened) : c.served => c.to >= Handled

FramesFit ==
    IF opened = None THEN frames = <<>>
    ELSE Handled >= 0 /\ \A n \in DOMAIN frames : frames[n] = Handled + n

\* What is shown, but for the copies, are entries of the log.
EntriesFit ==
    opened # None =>
        \A n \in DOMAIN messages :
            messages[n].key # 0 => /\ messages[n].key <= Len(log[opened])
                                   /\ messages[n] = D!Entry(opened, messages[n].key)

\* Every copy, and every request that will make one, has a message of its own that the
\* server took.
CopiesFit ==
    (opened # None /\ ~switched) =>
        \A x \in Words : Number(messages, Copies(x)) + Number(calls, Taken(x))
                            <= Number(log[opened], Written(x)) + Number(coming[opened], {x})

\* A list shows the entries up to m, and every copy in it has a message of its own behind
\* them; none stands for an entry whose frame waits.
Complete(r, m, handled) ==
    /\ m \in handled .. Len(log[opened])
    /\ \A e \in 1 .. m : \E n \in DOMAIN r : r[n].key = e
    /\ \A n \in DOMAIN r : r[n].key <= m
    /\ \A n \in DOMAIN r : r[n].key = 0 =>
          \A e \in handled + 1 .. m : log[opened][e] \notin Written(r[n].text)
    /\ \A x \in Words : Number(r, Copies(x))
                           <= NumberAfter(log[opened], m, Written(x)) + Number(coming[opened], {x})

\* Its entries are in order, each once.
InOrder(r) ==
    \A n, l \in DOMAIN r : (n < l /\ r[n].key # 0 /\ r[l].key # 0) => r[n].key < r[l].key

ShownFits ==
    (/\ opened # None /\ ~switched /\ ~crossed /\ ~unseen
     /\ LoadsOf(opened) = {})
        => InOrder(messages) /\ \E m \in Nat : Complete(messages, m, Handled)

\* Of which workspaces the card knows something
MarksFit == running \subseteq Workspace /\ queue \subseteq Workspace

DialogInv ==
    DialogType /\ CallsFit /\ FramesFit /\ EntriesFit /\ CopiesFit /\ ShownFits
\* The places counted
Places(s, m, x) == {n \in DOMAIN s : n > m /\ s[n] \in x}

\* They are finitely many.
LEMMA NumberIs ==
    ASSUME NEW S, NEW s \in Seq(S), NEW m, NEW x
    PROVE  /\ IsFiniteSet(Places(s, m, x)) /\ NumberAfter(s, m, x) = Cardinality(Places(s, m, x))
           /\ NumberAfter(s, m, x) \in Nat
           /\ NumberAfter(s, m, x) = 0 <=> Places(s, m, x) = {}
<1>1. Len(s) \in Nat /\ DOMAIN s = 1 .. Len(s)
  OBVIOUS
<1>2. IsFiniteSet(DOMAIN s)
  BY <1>1, IntervalIs
<1>3. Places(s, m, x) \in SUBSET DOMAIN s
  BY DEF Places
<1>4. IsFiniteSet(Places(s, m, x))
  BY <1>2, <1>3, FS_Subset
<1>5. NumberAfter(s, m, x) = Cardinality(Places(s, m, x))
  BY DEF NumberAfter, Places
<1>6. QED
  BY <1>4, <1>5, FS_CardinalityType, FS_EmptySet

\* One set of places has a place of its own in another for every place.
LEMMA FewerPlaces ==
    ASSUME NEW A, NEW B, IsFiniteSet(B), NEW f \in [A -> B],
           \A n, m \in A : f[n] = f[m] => n = m
    PROVE  Cardinality(A) <= Cardinality(B)
<1>1. f \in Injection(A, B)
  BY DEF Injection, IsInjective
<1>2. QED
  BY <1>1, FS_Injection

\* What is counted in one sequence has a place of its own in the other.
LEMMA NumberMost ==
    ASSUME NEW S, NEW s \in Seq(S), NEW R, NEW r \in Seq(R), NEW m, NEW l, NEW x, NEW y,
           NEW f \in [Places(s, m, x) -> Places(r, l, y)],
           \A n, e \in Places(s, m, x) : f[n] = f[e] => n = e
    PROVE  NumberAfter(s, m, x) <= NumberAfter(r, l, y)
<1>1. /\ NumberAfter(s, m, x) = Cardinality(Places(s, m, x))
      /\ NumberAfter(r, l, y) = Cardinality(Places(r, l, y)) /\ IsFiniteSet(Places(r, l, y))
  BY NumberIs
<1>2. Cardinality(Places(s, m, x)) <= Cardinality(Places(r, l, y))
  BY <1>1, FewerPlaces
<1>3. QED
  BY <1>1, <1>2

\* So it has, and one place is left.
LEMMA NumberLess ==
    ASSUME NEW S, NEW s \in Seq(S), NEW R, NEW r \in Seq(R), NEW m, NEW l, NEW x, NEW y,
           NEW k0 \in Places(r, l, y),
           NEW f \in [Places(s, m, x) -> Places(r, l, y) \ {k0}],
           \A n, e \in Places(s, m, x) : f[n] = f[e] => n = e
    PROVE  NumberAfter(s, m, x) + 1 <= NumberAfter(r, l, y)
<1>1. /\ NumberAfter(s, m, x) = Cardinality(Places(s, m, x))
      /\ NumberAfter(r, l, y) = Cardinality(Places(r, l, y)) /\ IsFiniteSet(Places(r, l, y))
      /\ NumberAfter(s, m, x) \in Nat /\ NumberAfter(r, l, y) \in Nat
  BY NumberIs
<1>2. /\ IsFiniteSet(Places(r, l, y) \ {k0})
      /\ Cardinality(Places(r, l, y) \ {k0}) = Cardinality(Places(r, l, y)) - 1
  BY <1>1, FS_RemoveElement
<1>3. Cardinality(Places(s, m, x)) <= Cardinality(Places(r, l, y) \ {k0})
  BY <1>2, FewerPlaces
<1>4. QED
  BY <1>1, <1>2, <1>3

\* Fewer places, the same ones but for one at most.
LEMMA NumberNear ==
    ASSUME NEW S, NEW s \in Seq(S), NEW R, NEW r \in Seq(R), NEW m, NEW l, NEW x, NEW y, NEW k0,
           Places(s, m, x) \subseteq Places(r, l, y) \cup {k0}
    PROVE  NumberAfter(s, m, x) <= NumberAfter(r, l, y) + 1
<1>1. /\ NumberAfter(s, m, x) = Cardinality(Places(s, m, x))
      /\ NumberAfter(r, l, y) = Cardinality(Places(r, l, y)) /\ IsFiniteSet(Places(r, l, y))
      /\ NumberAfter(s, m, x) \in Nat /\ NumberAfter(r, l, y) \in Nat
  BY NumberIs
<1>2. /\ IsFiniteSet(Places(r, l, y) \cup {k0})
      /\ Cardinality(Places(r, l, y) \cup {k0}) <= Cardinality(Places(r, l, y)) + 1
      /\ Cardinality(Places(r, l, y) \cup {k0}) \in Nat
  <2>1. /\ IsFiniteSet(Places(r, l, y) \cup {k0})
        /\ Cardinality(Places(r, l, y) \cup {k0}) =
              IF k0 \in Places(r, l, y) THEN Cardinality(Places(r, l, y))
              ELSE Cardinality(Places(r, l, y)) + 1
    BY <1>1, FS_AddElement
  <2>2. QED
    BY <1>1, <2>1
<1>3. Places(s, m, x) \in SUBSET (Places(r, l, y) \cup {k0})
  OBVIOUS
<1>4. Cardinality(Places(s, m, x)) <= Cardinality(Places(r, l, y) \cup {k0})
  BY <1>2, <1>3, FS_Subset
<1>5. QED
  BY <1>1, <1>2, <1>4

\* The same places, or fewer.
LEMMA NumberSame ==
    ASSUME NEW S, NEW s \in Seq(S), NEW R, NEW r \in Seq(R), NEW m, NEW l, NEW x, NEW y,
           Places(s, m, x) \subseteq Places(r, l, y)
    PROVE  NumberAfter(s, m, x) <= NumberAfter(r, l, y)
<1>1. /\ NumberAfter(s, m, x) = Cardinality(Places(s, m, x))
      /\ NumberAfter(r, l, y) = Cardinality(Places(r, l, y)) /\ IsFiniteSet(Places(r, l, y))
  BY NumberIs
<1>2. Places(s, m, x) \in SUBSET Places(r, l, y)
  OBVIOUS
<1>3. Cardinality(Places(s, m, x)) <= Cardinality(Places(r, l, y))
  BY <1>1, <1>2, FS_Subset
<1>4. QED
  BY <1>1, <1>3

\* One more element: counted, or not.
LEMMA NumberAppend ==
    ASSUME NEW S, NEW s \in Seq(S), NEW e \in S, NEW x, NEW m \in Nat
    PROVE  /\ Append(s, e) \in Seq(S)
           /\ NumberAfter(s, m, x) <= NumberAfter(Append(s, e), m, x)
           /\ NumberAfter(Append(s, e), m, x) <= NumberAfter(s, m, x) + 1
           /\ e \notin x => NumberAfter(Append(s, e), m, x) = NumberAfter(s, m, x)
           /\ (e \in x /\ m <= Len(s)) =>
                 NumberAfter(Append(s, e), m, x) = NumberAfter(s, m, x) + 1
<1> DEFINE r == Append(s, e)
<1>1. PICK N \in Nat : N = Len(s)
  OBVIOUS
<1>2. /\ r \in Seq(S) /\ DOMAIN s = 1 .. N /\ DOMAIN r = 1 .. N + 1
      /\ r[N + 1] = e /\ \A n \in 1 .. N : r[n] = s[n]
  BY <1>1
<1>3. \A n : n \in 1 .. N + 1 <=> n \in 1 .. N \/ n = N + 1
  OBVIOUS
<1> HIDE DEF r
<1>4. /\ Places(s, m, x) \subseteq Places(r, m, x)
      /\ Places(r, m, x) \subseteq Places(s, m, x) \cup {N + 1}
      /\ e \notin x => Places(r, m, x) \subseteq Places(s, m, x)
  BY <1>2, <1>3 DEF Places
<1>5. NumberAfter(s, m, x) \in Nat /\ NumberAfter(r, m, x) \in Nat
  BY <1>2, NumberIs
<1>6. NumberAfter(s, m, x) <= NumberAfter(r, m, x)
  BY <1>2, <1>4, NumberSame
<1>7. NumberAfter(r, m, x) <= NumberAfter(s, m, x) + 1
  BY <1>2, <1>4, NumberNear
<1>8. e \notin x => NumberAfter(r, m, x) <= NumberAfter(s, m, x)
  BY <1>2, <1>4, NumberSame
<1>9. ASSUME e \in x, m <= N PROVE NumberAfter(s, m, x) + 1 <= NumberAfter(r, m, x)
  <2> DEFINE f == [n \in Places(s, m, x) |-> n]
  <2>1. N + 1 \in Places(r, m, x)
    BY <1>2, <1>9 DEF Places
  <2>2. N + 1 \notin Places(s, m, x)
    BY <1>2 DEF Places
  <2>3. f \in [Places(s, m, x) -> Places(r, m, x) \ {N + 1}]
    BY <1>4, <2>2
  <2>4. \A n, l \in Places(s, m, x) : f[n] = f[l] => n = l
    OBVIOUS
  <2> HIDE DEF f
  <2>5. QED
    BY <1>2, <2>1, <2>3, <2>4, NumberLess
<1>10. QED
  BY <1>1, <1>2, <1>5, <1>6, <1>7, <1>8, <1>9 DEF r

\* The first element goes.
LEMMA NumberTail ==
    ASSUME NEW S, NEW s \in Seq(S), s # <<>>, NEW x
    PROVE  /\ Tail(s) \in Seq(S) /\ Head(s) \in S
           /\ Head(s) \notin x => Number(s, x) <= Number(Tail(s), x)
           /\ Number(s, x) <= Number(Tail(s), x) + 1
<1> DEFINE r == Tail(s)
<1>1. PICK N \in Nat : N = Len(s) /\ N > 0
  OBVIOUS
<1>2. /\ r \in Seq(S) /\ DOMAIN s = 1 .. N /\ DOMAIN r = 1 .. N - 1
      /\ \A n \in 1 .. N - 1 : r[n] = s[n + 1]
      /\ Head(s) \in S /\ Head(s) = s[1]
  BY <1>1
<1> HIDE DEF r
<1>3. NumberAfter(s, 1, x) <= Number(r, x)
  <2> DEFINE f == [n \in Places(s, 1, x) |-> n - 1]
  <2>1. \A n \in Places(s, 1, x) : n \in Nat /\ n - 1 \in Places(r, 0, x)
    <3> TAKE n \in Places(s, 1, x)
    <3>1. n \in 1 .. N /\ n > 1 /\ s[n] \in x
      BY <1>2 DEF Places
    <3>2. n - 1 \in 1 .. N - 1 /\ n - 1 > 0 /\ (n - 1) + 1 = n
      BY <3>1
    <3>3. r[n - 1] = s[n]
      BY <1>2, <3>2
    <3>4. QED
      BY <1>2, <3>1, <3>2, <3>3 DEF Places
  <2>2. f \in [Places(s, 1, x) -> Places(r, 0, x)]
    BY <2>1
  <2>3. \A n, l \in Places(s, 1, x) : f[n] = f[l] => n = l
    BY <2>1
  <2> HIDE DEF f
  <2>4. QED
    BY <1>2, <2>2, <2>3, NumberMost DEF Number
<1>4. Places(s, 0, x) \subseteq Places(s, 1, x) \cup {1}
  BY <1>2 DEF Places
<1>5. s[1] \notin x => Places(s, 0, x) \subseteq Places(s, 1, x)
  <2> HAVE s[1] \notin x
  <2>1. 1 \notin Places(s, 0, x)
    BY DEF Places
  <2>2. QED
    BY <1>4, <2>1
<1>6. Number(s, x) <= NumberAfter(s, 1, x) + 1
  BY <1>4, NumberNear DEF Number
<1>7. s[1] \notin x => Number(s, x) <= NumberAfter(s, 1, x)
  BY <1>5, NumberSame DEF Number
<1>8. Number(s, x) \in Nat /\ Number(r, x) \in Nat /\ NumberAfter(s, 1, x) \in Nat
  BY <1>2, NumberIs DEF Number
<1>9. QED
  BY <1>2, <1>3, <1>6, <1>7, <1>8 DEF r

\* One element goes.
LEMMA NumberLeft ==
    ASSUME NEW S, NEW s \in Seq(S), NEW n \in DOMAIN s, NEW x
    PROVE  /\ Left(s, n) \in Seq(S)
           /\ Number(Left(s, n), x) <= Number(s, x)
           /\ s[n] \in x => Number(Left(s, n), x) + 1 <= Number(s, x)
<1> DEFINE r == Left(s, n)
           Back(m) == IF m < n THEN m ELSE m + 1
           f == [m \in Places(r, 0, x) |-> Back(m)]
<1>1. r \in Seq(S) /\ DOMAIN r \subseteq Nat /\ DOMAIN s \subseteq Nat \ {0} /\ n \in Nat
  BY LeftIs
<1>2. \A m \in DOMAIN r : Back(m) \in DOMAIN s \ {n} /\ r[m] = s[Back(m)]
  BY LeftOrder
<1> HIDE DEF r
<1>3. \A m \in Places(r, 0, x) : m \in DOMAIN r /\ r[m] \in x
  BY DEF Places
<1>4. \A m, l \in Nat : Back(m) = Back(l) => m = l
  BY <1>1
<1> HIDE DEF Back
<1>5. \A m \in Places(r, 0, x) : Back(m) \in Places(s, 0, x) \ {n}
  BY <1>1, <1>2, <1>3 DEF Places
<1>6. f \in [Places(r, 0, x) -> Places(s, 0, x) \ {n}]
  BY <1>5
<1>7. \A m, l \in Places(r, 0, x) : f[m] = f[l] => m = l
  BY <1>1, <1>3, <1>4
<1> HIDE DEF f
<1>8. s[n] \in x => Number(r, x) + 1 <= Number(s, x)
  <2> HAVE s[n] \in x
  <2>1. n \in Places(s, 0, x)
    BY <1>1 DEF Places
  <2>2. QED
    BY <1>1, <1>6, <1>7, <2>1, NumberLess DEF Number
<1>9. Number(r, x) <= Number(s, x)
  <2>1. f \in [Places(r, 0, x) -> Places(s, 0, x)]
    BY <1>6
  <2>2. QED
    BY <1>1, <1>7, <2>1, NumberMost DEF Number
<1>10. QED
  BY <1>1, <1>8, <1>9 DEF r

\* A list that is sorted counts the same.
LEMMA NumberSorted ==
    ASSUME NEW S, NEW s \in Seq(S), NEW N \in Nat, N = Len(s),
           NEW keys \in [1 .. N -> Nat], NEW x
    PROVE  Number(D!Sorted(s, keys), x) <= Number(s, x)
<1> DEFINE r == D!Sorted(s, keys)
<1>1. DOMAIN s = 1 .. N
  OBVIOUS
<1>2. r \in Seq(S) /\ Len(r) = N /\ Moved(s, r, keys, N)
  BY SortedIs
<1> HIDE DEF r
<1>3. PICK f \in [1 .. N -> 1 .. N] : /\ \A n, m \in 1 .. N : f[n] = f[m] => n = m
                                      /\ \A l \in 1 .. N : r[l] = s[f[l]]
  BY <1>2 DEF Moved
<1>4. DOMAIN r = 1 .. N
  BY <1>2
<1> DEFINE g == [n \in Places(r, 0, x) |-> f[n]]
<1>5. \A n \in Places(r, 0, x) : n \in 1 .. N /\ r[n] \in x
  BY <1>4 DEF Places
<1>6. \A n \in Places(r, 0, x) : f[n] \in Places(s, 0, x)
  <2> TAKE n \in Places(r, 0, x)
  <2>1. n \in 1 .. N /\ r[n] \in x /\ f[n] \in 1 .. N /\ r[n] = s[f[n]]
    BY <1>3, <1>5
  <2>2. QED
    BY <1>1, <2>1 DEF Places
<1>7. g \in [Places(r, 0, x) -> Places(s, 0, x)]
  BY <1>6
<1>8. \A n, m \in Places(r, 0, x) : g[n] = g[m] => n = m
  BY <1>3, <1>5
<1> HIDE DEF g
<1>9. QED
  BY <1>2, <1>7, <1>8, NumberMost DEF Number, r

\* A list that is filtered counts no more.
LEMMA NumberFiltered ==
    ASSUME NEW S, NEW s \in Seq(S), NEW A \in SUBSET (DOMAIN s), NEW x
    PROVE  /\ D!Filtered(s, A) \in Seq(S)
           /\ \A n \in DOMAIN D!Filtered(s, A) : \E l \in A : D!Filtered(s, A)[n] = s[l]
           /\ Number(D!Filtered(s, A), x) <= Number(s, x)
<1> DEFINE r == D!Filtered(s, A)
<1>1. /\ r \in Seq(S)
      /\ \E f \in [DOMAIN r -> A] : /\ \A n, m \in DOMAIN r : f[n] = f[m] => n = m
                                    /\ \A n \in DOMAIN r : r[n] = s[f[n]]
  BY FilteredIs
<1> HIDE DEF r
<1>2. PICK f \in [DOMAIN r -> A] : /\ \A n, m \in DOMAIN r : f[n] = f[m] => n = m
                                   /\ \A n \in DOMAIN r : r[n] = s[f[n]]
  BY <1>1
<1>3. \A n \in DOMAIN r : f[n] \in A /\ f[n] > 0
  <2>1. DOMAIN s = 1 .. Len(s)
    OBVIOUS
  <2>2. QED
    BY <1>2, <2>1
<1> DEFINE g == [n \in Places(r, 0, x) |-> f[n]]
<1>4. \A n \in Places(r, 0, x) : n \in DOMAIN r /\ r[n] \in x
  BY DEF Places
<1>5. \A n \in Places(r, 0, x) : f[n] \in Places(s, 0, x)
  BY <1>2, <1>3, <1>4 DEF Places
<1>6. g \in [Places(r, 0, x) -> Places(s, 0, x)]
  BY <1>5
<1>7. \A n, m \in Places(r, 0, x) : g[n] = g[m] => n = m
  BY <1>2, <1>4
<1> HIDE DEF g
<1>8. Number(r, x) <= Number(s, x)
  BY <1>1, <1>6, <1>7, NumberMost DEF Number
<1>9. QED
  BY <1>1, <1>2, <1>3, <1>8 DEF r

\* Two lists are put together: the second alone counts when nothing of the first does.
LEMMA NumberBehind ==
    ASSUME NEW S, NEW s \in Seq(S), NEW r \in Seq(S), NEW x, \A n \in DOMAIN s : s[n] \notin x
    PROVE  Number(s \o r, x) <= Number(r, x)
<1> DEFINE h == s \o r
<1>1. PICK N \in Nat : N = Len(s)
  OBVIOUS
<1>2. PICK M \in Nat : M = Len(r)
  OBVIOUS
<1>3. /\ h \in Seq(S) /\ DOMAIN h = 1 .. N + M /\ DOMAIN s = 1 .. N /\ DOMAIN r = 1 .. M
      /\ \A n \in 1 .. N : h[n] = s[n]
      /\ \A n \in 1 .. N + M : n > N => h[n] = r[n - N]
  BY <1>1, <1>2
<1> HIDE DEF h
<1>4. \A n \in Places(h, 0, x) : n \in 1 .. N + M /\ h[n] \in x
  BY <1>3 DEF Places
<1>5. \A n \in Places(h, 0, x) : n > N
  <2> TAKE n \in Places(h, 0, x)
  <2>1. n \in 1 .. N => FALSE
    BY <1>3, <1>4
  <2>2. QED
    BY <1>4, <2>1
<1>6. \A n \in Places(h, 0, x) : n - N \in Places(r, 0, x)
  <2> TAKE n \in Places(h, 0, x)
  <2>1. n - N \in 1 .. M /\ n - N > 0 /\ h[n] = r[n - N] /\ h[n] \in x
    BY <1>3, <1>4, <1>5
  <2>2. QED
    BY <1>3, <2>1 DEF Places
<1> DEFINE f == [n \in Places(h, 0, x) |-> n - N]
<1>7. f \in [Places(h, 0, x) -> Places(r, 0, x)]
  BY <1>6
<1>8. \A n, m \in Places(h, 0, x) : f[n] = f[m] => n = m
  BY <1>4
<1> HIDE DEF f
<1>9. QED
  BY <1>3, <1>7, <1>8, NumberMost DEF Number, h

\* One element takes the place of another and does not count.
LEMMA NumberReplaced ==
    ASSUME NEW S, NEW s \in Seq(S), NEW k0 \in DOMAIN s, NEW e \in S, NEW x, e \notin x
    PROVE  /\ [s EXCEPT ![k0] = e] \in Seq(S)
           /\ Number([s EXCEPT ![k0] = e], x) <= Number(s, x)
           /\ s[k0] \in x => Number([s EXCEPT ![k0] = e], x) + 1 <= Number(s, x)
<1> DEFINE r == [s EXCEPT ![k0] = e]
<1>1. PICK N \in Nat : N = Len(s)
  OBVIOUS
<1>2. DOMAIN s = 1 .. N /\ s \in [1 .. N -> S] /\ k0 \in 1 .. N
  BY <1>1
<1>3. r \in [1 .. N -> S] /\ r[k0] = e /\ \A n \in 1 .. N : n # k0 => r[n] = s[n]
  BY <1>2
<1> HIDE DEF r
<1>4. r \in Seq(S) /\ DOMAIN r = 1 .. N
  BY <1>3
<1>5. Places(r, 0, x) \subseteq Places(s, 0, x) \ {k0}
  <2> SUFFICES ASSUME NEW n \in Places(r, 0, x) PROVE n \in Places(s, 0, x) \ {k0}
    OBVIOUS
  <2>1. n \in 1 .. N /\ n > 0 /\ r[n] \in x
    BY <1>4 DEF Places
  <2>2. n # k0
    BY <1>3, <2>1
  <2>3. QED
    BY <1>2, <1>3, <2>1, <2>2 DEF Places
<1>6. Number(r, x) <= Number(s, x)
  BY <1>4, <1>5, NumberSame DEF Number
<1>7. s[k0] \in x => Number(r, x) + 1 <= Number(s, x)
  <2> HAVE s[k0] \in x
  <2> DEFINE f == [n \in Places(r, 0, x) |-> n]
  <2>1. k0 \in Places(s, 0, x)
    BY <1>2 DEF Places
  <2>2. f \in [Places(r, 0, x) -> Places(s, 0, x) \ {k0}]
    BY <1>5
  <2>3. \A n, m \in Places(r, 0, x) : f[n] = f[m] => n = m
    OBVIOUS
  <2> HIDE DEF f
  <2>4. QED
    BY <1>4, <2>1, <2>2, <2>3, NumberLess DEF Number
<1>8. QED
  BY <1>4, <1>6, <1>7 DEF r

\* What is there counts.
LEMMA NumberSome ==
    ASSUME NEW S, NEW s \in Seq(S), NEW x
    PROVE  /\ Number(s, x) \in Nat
           /\ Number(s, x) = 0 <=> \A n \in DOMAIN s : s[n] \notin x
<1>1. /\ Number(s, x) \in Nat
      /\ Number(s, x) = 0 <=> Places(s, 0, x) = {}
  BY NumberIs DEF Number
<1>2. \A n \in DOMAIN s : n > 0
  OBVIOUS
<1>3. Places(s, 0, x) = {} <=> \A n \in DOMAIN s : s[n] \notin x
  BY <1>2 DEF Places
<1>4. QED
  BY <1>1, <1>3

\* An entry as it is shown
LEMMA EntryIs ==
    ASSUME DialogType, NEW w \in Workspace, NEW n \in 1 .. Len(log[w])
    PROVE  /\ D!Entry(w, n) \in Bubble
           /\ D!Entry(w, n).key = n /\ D!Entry(w, n).at = 2 * n
           /\ D!Entry(w, n).who = log[w][n].who /\ D!Entry(w, n).text = log[w][n].text
           /\ log[w][n] \in Line
<1>1. log[w] \in Seq(Line)
  BY DEF DialogType
<1>2. log[w][n] \in Line
  BY <1>1
<1>3. n \in Nat /\ 2 * n \in Nat
  BY <1>1
<1>4. QED
  BY <1>2, <1>3 DEF D!Entry, Bubble, Line

\* What a load leaves: its entries, then the copies whose text it did not bring.
LEMMA LoadedIs ==
    ASSUME DialogType, NEW w \in Workspace, NEW to \in Nat, to <= Len(log[w]),
           NEW s \in Seq(Bubble)
    PROVE  LET r == D!WithLocals(s, D!Entries(w, to))
           IN  /\ r \in Seq(Bubble) /\ to <= Len(r)
               /\ \A n \in DOMAIN r : n <= to => r[n] = D!Entry(w, n)
               /\ \A n \in DOMAIN r : n > to =>
                     r[n].key = 0 /\ \A e \in 1 .. to : log[w][e] \notin Written(r[n].text)
               /\ \A x : Number(r, Copies(x)) <= Number(s, Copies(x))
<1> DEFINE E0 == D!Entries(w, to)
           said == {E0[n].text : n \in {l \in DOMAIN E0 : E0[l].who = "user"}}
           A == {n \in DOMAIN s : D!IsLocal(s[n]) /\ s[n].text \notin said}
           F == D!Filtered(s, A)
           r == E0 \o F
<1>1. D!WithLocals(s, D!Entries(w, to)) = r
  BY DEF D!WithLocals
<1>2. \A n \in 1 .. to : /\ n \in 1 .. Len(log[w]) /\ D!Entry(w, n) \in Bubble
                         /\ D!Entry(w, n).key = n /\ D!Entry(w, n).who = log[w][n].who
                         /\ D!Entry(w, n).text = log[w][n].text /\ log[w][n] \in Line
  <2>1. Len(log[w]) \in Nat
    BY DEF DialogType
  <2> TAKE n \in 1 .. to
  <2>2. n \in 1 .. Len(log[w])
    BY <2>1
  <2>3. QED
    BY <2>2, EntryIs
<1>3. E0 \in [1 .. to -> Bubble] /\ \A n \in 1 .. to : E0[n] = D!Entry(w, n)
  BY <1>2 DEF D!Entries
<1>4. E0 \in Seq(Bubble) /\ Len(E0) = to /\ DOMAIN E0 = 1 .. to
  BY <1>3
<1> HIDE DEF E0
<1>5. /\ A \in SUBSET DOMAIN s
      /\ \A n \in A : s[n].key = 0 /\ s[n].text \notin said
  BY DEF D!IsLocal
<1>6. \A x : \A e \in 1 .. to : log[w][e] \in Written(x) => x \in said
  <2> TAKE x
  <2> TAKE e \in 1 .. to
  <2> HAVE log[w][e] \in Written(x)
  <2>1. log[w][e].who = "user" /\ log[w][e].text = x
    BY DEF Written
  <2>2. E0[e].who = "user" /\ E0[e].text = x
    BY <1>2, <1>3, <2>1
  <2>3. QED
    BY <1>4, <2>2
<1> HIDE DEF A, said
<1>7. /\ F \in Seq(Bubble)
      /\ \A n \in DOMAIN F : \E l \in A : F[n] = s[l]
      /\ \A x : Number(F, x) <= Number(s, x)
  BY <1>5, NumberFiltered
<1> HIDE DEF F
<1>8. \A n \in DOMAIN F : F[n].key = 0 /\ \A e \in 1 .. to : log[w][e] \notin Written(F[n].text)
  BY <1>5, <1>6, <1>7
<1>9. PICK M \in Nat : M = Len(F) /\ DOMAIN F = 1 .. M
  BY <1>7
<1>10. /\ r \in Seq(Bubble) /\ DOMAIN r = 1 .. to + M /\ Len(r) = to + M
       /\ \A n \in 1 .. to : r[n] = E0[n]
       /\ \A n \in 1 .. to + M : n > to => r[n] = F[n - to]
  <2>1. F \in Seq(Bubble)
    BY <1>7
  <2>2. QED
    BY <1>4, <1>9, <2>1
<1>11. \A x : Number(r, Copies(x)) <= Number(s, Copies(x))
  <2> TAKE x
  <2>1. \A n \in DOMAIN E0 : E0[n] \notin Copies(x)
    BY <1>2, <1>3, <1>4 DEF Copies
  <2>2. Number(r, Copies(x)) <= Number(F, Copies(x))
    BY <1>4, <1>7, <2>1, NumberBehind
  <2>3. Number(F, Copies(x)) <= Number(s, Copies(x))
    BY <1>7
  <2>4. /\ Number(r, Copies(x)) \in Nat /\ Number(F, Copies(x)) \in Nat
        /\ Number(s, Copies(x)) \in Nat
    BY <1>7, <1>10, NumberSome
  <2>5. QED
    BY <2>2, <2>3, <2>4
<1> HIDE DEF r
<1>12. \A n \in DOMAIN r : n <= to => r[n] = D!Entry(w, n)
  <2> TAKE n \in DOMAIN r
  <2> HAVE n <= to
  <2>1. n \in 1 .. to
    BY <1>10
  <2>2. QED
    BY <1>3, <1>10, <2>1
<1>13. \A n \in DOMAIN r : n > to =>
          r[n].key = 0 /\ \A e \in 1 .. to : log[w][e] \notin Written(r[n].text)
  <2> TAKE n \in DOMAIN r
  <2> HAVE n > to
  <2>1. n \in 1 .. to + M /\ n - to \in 1 .. M
    BY <1>10
  <2>2. r[n] = F[n - to] /\ n - to \in DOMAIN F
    BY <1>9, <1>10, <2>1
  <2>3. QED
    BY <1>8, <2>2
<1>14. to <= Len(r)
  BY <1>10
<1>15. QED
  BY <1>1, <1>10, <1>11, <1>12, <1>13, <1>14

\* Where a frame's message goes, and when it goes nowhere.
LEMMA PlacedIs ==
    ASSUME NEW s \in Seq(Bubble), NEW m \in Bubble
    PROVE  \/ \E n \in DOMAIN s : /\ m.who = "user" /\ s[n] \in Copies(m.text)
                                  /\ D!Placed(s, m) = [s EXCEPT ![n] = m]
           \/ \E n \in DOMAIN s : /\ m.who = "ai" /\ s[n].key = m.key
                                  /\ D!Placed(s, m) = [s EXCEPT ![n] = m]
           \/ /\ m.who = "ai" /\ \A n \in DOMAIN s : s[n].key # m.key
              /\ D!Placed(s, m) = Append(s, m)
           \/ D!Placed(s, m) = s
<1> DEFINE copies == {n \in DOMAIN s : D!IsLocal(s[n]) /\ s[n].text = m.text}
           same == {n \in DOMAIN s : s[n].key = m.key}
           first == CHOOSE n \in copies : \A l \in copies : n <= l
           final == CHOOSE n \in same : \A l \in same : l <= n
<1>1. PICK N \in Nat : N = Len(s) /\ DOMAIN s = 1 .. N
  OBVIOUS
<1>2. \A n \in DOMAIN s : s[n] \in Bubble
  OBVIOUS
<1>3. /\ copies \in SUBSET (1 .. N) /\ same \in SUBSET (1 .. N)
      /\ \A n \in copies : n \in DOMAIN s /\ s[n].key = 0 /\ s[n].text = m.text
      /\ \A n \in same : n \in DOMAIN s /\ s[n].key = m.key
  BY <1>1 DEF D!IsLocal
<1>4. CASE m.who = "user" /\ copies # {}
  <2>1. D!Placed(s, m) = [s EXCEPT ![first] = m]
    BY <1>4 DEF D!Placed
  <2> HIDE DEF copies
  <2>2. first \in copies
    BY <1>3, <1>4, EndsIs
  <2> HIDE DEF first
  <2>3. first \in DOMAIN s /\ s[first] \in Copies(m.text)
    BY <1>2, <1>3, <2>2 DEF Copies
  <2>4. QED
    BY <1>4, <2>1, <2>3
<1>5. CASE m.who = "user" /\ copies = {}
  BY <1>5 DEF D!Placed
<1>6. CASE m.who = "ai" /\ same # {}
  <2>1. D!Placed(s, m) = [s EXCEPT ![final] = m]
    BY <1>6 DEF D!Placed
  <2> HIDE DEF same
  <2>2. final \in same
    BY <1>3, <1>6, EndsIs
  <2> HIDE DEF final
  <2>3. QED
    BY <1>3, <1>6, <2>1, <2>2
<1>7. CASE m.who = "ai" /\ same = {}
  BY <1>7 DEF D!Placed
<1>8. m.who \in {"ai", "user"}
  BY DEF Bubble
<1>9. QED
  BY <1>4, <1>5, <1>6, <1>7, <1>8

\* The list with a frame's message is a list of messages that is sorted.
LEMMA TimesIs ==
    ASSUME NEW s \in Seq(Bubble)
    PROVE  /\ D!Times(s) \in [1 .. Len(s) -> Nat]
           /\ \A n \in DOMAIN s : D!Times(s)[n] = s[n].at
<1>1. DOMAIN s = 1 .. Len(s)
  OBVIOUS
<1>2. \A n \in 1 .. Len(s) : s[n] \in Bubble
  BY <1>1
<1>3. \A n \in 1 .. Len(s) : s[n].at \in Nat
  BY <1>2 DEF Bubble
<1>4. QED
  BY <1>1, <1>3 DEF D!Times

\* Sorting a list of messages puts the entries of the log in order.
LEMMA SortKeeps ==
    ASSUME NEW s \in Seq(Bubble)
    PROVE  LET r == D!Sorted(s, D!Times(s))
           IN  /\ r \in Seq(Bubble)
               /\ \A n \in DOMAIN r : \E l \in DOMAIN s : r[n] = s[l]
               /\ \A l \in DOMAIN s : \E n \in DOMAIN r : r[n] = s[l]
               /\ \A x : Number(r, x) <= Number(s, x)
               /\ (/\ \A n \in DOMAIN s : s[n].key # 0 => s[n].at = 2 * s[n].key
                   /\ \A n, l \in DOMAIN s : (n # l /\ s[n].key # 0) => s[n].key # s[l].key)
                  => \A n, l \in DOMAIN r :
                        (n < l /\ r[n].key # 0 /\ r[l].key # 0) => r[n].key < r[l].key
<1> DEFINE r == D!Sorted(s, D!Times(s))
<1>1. PICK N \in Nat : N = Len(s) /\ DOMAIN s = 1 .. N
  OBVIOUS
<1>2. D!Times(s) \in [1 .. N -> Nat] /\ \A n \in 1 .. N : D!Times(s)[n] = s[n].at
  BY <1>1, TimesIs
<1>3. r \in Seq(Bubble) /\ Len(r) = N /\ Moved(s, r, D!Times(s), N)
  BY <1>1, <1>2, SortedIs
<1>4. \A x : Number(r, x) <= Number(s, x)
  BY <1>1, <1>2, NumberSorted
<1> HIDE DEF r
<1>5. PICK f \in [1 .. N -> 1 .. N] :
         /\ \A n, m \in 1 .. N : f[n] = f[m] => n = m
         /\ \A n \in 1 .. N : \E l \in 1 .. N : f[l] = n
         /\ \A l \in 1 .. N : r[l] = s[f[l]]
         /\ \A l, m \in 1 .. N : l < m => D!Times(s)[f[l]] <= D!Times(s)[f[m]]
  BY <1>3 DEF Moved
<1>6. DOMAIN r = 1 .. N
  BY <1>3
<1>7. \A n \in DOMAIN r : \E l \in DOMAIN s : r[n] = s[l]
  BY <1>1, <1>5, <1>6
<1>8. \A l \in DOMAIN s : \E n \in DOMAIN r : r[n] = s[l]
  BY <1>1, <1>5, <1>6
<1>9. ASSUME \A n \in DOMAIN s : s[n].key # 0 => s[n].at = 2 * s[n].key,
             \A n, l \in DOMAIN s : (n # l /\ s[n].key # 0) => s[n].key # s[l].key,
             NEW n \in DOMAIN r, NEW l \in DOMAIN r, n < l, r[n].key # 0, r[l].key # 0
      PROVE  r[n].key < r[l].key
  <2>1. /\ f[n] \in 1 .. N /\ f[l] \in 1 .. N /\ f[n] # f[l]
        /\ r[n] = s[f[n]] /\ r[l] = s[f[l]]
        /\ D!Times(s)[f[n]] <= D!Times(s)[f[l]]
    <3>1. n \in 1 .. N /\ l \in 1 .. N /\ n < l /\ n # l
      BY <1>6, <1>9
    <3>2. f[n] \in 1 .. N /\ f[l] \in 1 .. N
      BY <3>1
    <3>3. QED
      BY <1>5, <3>1, <3>2
  <2>2. s[f[n]].at <= s[f[l]].at
    BY <1>2, <2>1
  <2>3. /\ s[f[n]].at = 2 * s[f[n]].key /\ s[f[l]].at = 2 * s[f[l]].key
        /\ s[f[n]].key # s[f[l]].key
    BY <1>1, <1>9, <2>1
  <2>4. s[f[n]].key \in Nat /\ s[f[l]].key \in Nat
    <3>1. s[f[n]] \in Bubble /\ s[f[l]] \in Bubble
      BY <1>1, <2>1
    <3>2. QED
      BY <3>1 DEF Bubble
  <2>5. s[f[n]].key < s[f[l]].key
    <3>1. \A y, z \in Nat : (2 * y <= 2 * z /\ y # z) => y < z
      OBVIOUS
    <3>2. 2 * s[f[n]].key <= 2 * s[f[l]].key
      BY <2>2, <2>3
    <3>3. QED
      BY <2>3, <2>4, <3>1, <3>2
  <2>6. QED
    BY <2>1, <2>5
<1>10. QED
  BY <1>3, <1>4, <1>7, <1>8, <1>9 DEF r

\* A list has what another has, the message of a frame, and no more copies.
OnlyBrings(s, m, r) ==
    /\ r \in Seq(Bubble)
    /\ \A n \in DOMAIN r : r[n] = m \/ \E l \in DOMAIN s : r[n] = s[l]
    /\ \A x : Number(r, Copies(x)) <= Number(s, Copies(x))

\* A frame brings its message at most, and no copy.
LEMMA AppendedIs ==
    ASSUME NEW s \in Seq(Bubble), NEW m \in Bubble, m.key # 0
    PROVE  OnlyBrings(s, m, D!Appended(s, m))
<1> DEFINE p0 == D!Placed(s, m)
           r == D!Appended(s, m)
<1>1. \A x : m \notin Copies(x)
  BY DEF Copies
<1>2. OnlyBrings(s, m, p0)
  <2>1. ASSUME NEW n \in DOMAIN s, p0 = [s EXCEPT ![n] = m]
        PROVE  OnlyBrings(s, m, p0)
    <3>1. PICK N \in Nat : N = Len(s) /\ DOMAIN s = 1 .. N
      OBVIOUS
    <3>2. s \in [1 .. N -> Bubble]
      BY <3>1
    <3>3. \A l \in DOMAIN p0 : p0[l] = m \/ (l \in DOMAIN s /\ p0[l] = s[l])
      BY <2>1, <3>1, <3>2
    <3>4. /\ p0 \in Seq(Bubble)
          /\ \A x : Number(p0, Copies(x)) <= Number(s, Copies(x))
      <4>1. \A x : /\ [s EXCEPT ![n] = m] \in Seq(Bubble)
                   /\ Number([s EXCEPT ![n] = m], Copies(x)) <= Number(s, Copies(x))
        <5> TAKE x
        <5>1. m \notin Copies(x)
          BY <1>1
        <5>2. QED
          BY <5>1, NumberReplaced
      <4>2. QED
        BY <2>1, <4>1
    <3>5. QED
      BY <3>3, <3>4 DEF OnlyBrings
  <2>2. ASSUME p0 = Append(s, m)
        PROVE  OnlyBrings(s, m, p0)
    <3>1. PICK N \in Nat : N = Len(s) /\ DOMAIN s = 1 .. N
      OBVIOUS
    <3>2. /\ DOMAIN p0 = 1 .. N + 1 /\ p0[N + 1] = m /\ \A l \in 1 .. N : p0[l] = s[l]
      BY <2>2, <3>1
    <3>3. \A l \in DOMAIN p0 : p0[l] = m \/ (l \in DOMAIN s /\ p0[l] = s[l])
      BY <3>1, <3>2
    <3>4. /\ p0 \in Seq(Bubble)
          /\ \A x : NumberAfter(p0, 0, Copies(x)) = NumberAfter(s, 0, Copies(x))
      BY <1>1, <2>2, NumberAppend
    <3>5. \A x : Number(s, Copies(x)) \in Nat
      BY NumberSome
    <3>6. QED
      BY <3>3, <3>4, <3>5 DEF Number, OnlyBrings
  <2>3. ASSUME p0 = s
        PROVE  OnlyBrings(s, m, p0)
    <3>1. \A x : Number(s, Copies(x)) \in Nat
      BY NumberSome
    <3>2. QED
      BY <2>3, <3>1 DEF OnlyBrings
  <2>4. QED
    BY <2>1, <2>2, <2>3, PlacedIs
<1>3. r = D!Sorted(p0, D!Times(p0))
  BY DEF D!Appended
<1> HIDE DEF p0, r
<1>4. /\ r \in Seq(Bubble)
      /\ \A n \in DOMAIN r : \E l \in DOMAIN p0 : r[n] = p0[l]
      /\ \A x : Number(r, x) <= Number(p0, x)
  BY <1>2, <1>3, SortKeeps DEF OnlyBrings
<1>5. \A x : Number(r, Copies(x)) <= Number(s, Copies(x))
  <2> TAKE x
  <2>1. /\ Number(r, Copies(x)) \in Nat /\ Number(p0, Copies(x)) \in Nat
        /\ Number(s, Copies(x)) \in Nat
    BY <1>2, <1>4, NumberSome DEF OnlyBrings
  <2>2. QED
    BY <1>2, <1>4, <2>1 DEF OnlyBrings
<1>6. QED
  BY <1>2, <1>4, <1>5 DEF r, OnlyBrings

\* What is shown, but for the copies: each entry once, at its time.
Distinct(r) ==
    /\ \A n \in DOMAIN r : r[n].key # 0 => r[n].at = 2 * r[n].key
    /\ \A n, l \in DOMAIN r : (n # l /\ r[n].key # 0) => r[n].key # r[l].key

\* Sorting a list shows the same and puts it in order.
LEMMA CompleteSorted ==
    ASSUME DialogType, opened \in Workspace, NEW s \in Seq(Bubble), Distinct(s), NEW m \in Nat,
           NEW h \in Nat, Complete(s, m, h)
    PROVE  LET r == D!Sorted(s, D!Times(s)) IN InOrder(r) /\ Complete(r, m, h)
<1> DEFINE r == D!Sorted(s, D!Times(s))
<1>1. /\ r \in Seq(Bubble)
      /\ \A n \in DOMAIN r : \E l \in DOMAIN s : r[n] = s[l]
      /\ \A l \in DOMAIN s : \E n \in DOMAIN r : r[n] = s[l]
      /\ \A x : Number(r, x) <= Number(s, x)
      /\ \A n, l \in DOMAIN r : (n < l /\ r[n].key # 0 /\ r[l].key # 0) => r[n].key < r[l].key
  BY SortKeeps DEF Distinct
<1> HIDE DEF r
<1>2. \A e \in 1 .. m : \E n \in DOMAIN r : r[n].key = e
  <2> TAKE e \in 1 .. m
  <2>1. PICK l \in DOMAIN s : s[l].key = e
    BY DEF Complete
  <2>2. QED
    BY <1>1, <2>1
<1>3. \A n \in DOMAIN r : r[n].key <= m
  BY <1>1 DEF Complete
<1>4. \A n \in DOMAIN r : r[n].key = 0 =>
         \A e \in h + 1 .. m : log[opened][e] \notin Written(r[n].text)
  BY <1>1 DEF Complete
<1>5. \A x \in Words : Number(r, Copies(x))
         <= NumberAfter(log[opened], m, Written(x)) + Number(coming[opened], {x})
  <2> TAKE x \in Words
  <2>1. /\ Number(r, Copies(x)) \in Nat /\ Number(s, Copies(x)) \in Nat
        /\ NumberAfter(log[opened], m, Written(x)) \in Nat /\ Number(coming[opened], {x}) \in Nat
    <3>1. log[opened] \in Seq(Line) /\ coming[opened] \in Seq(Words)
      BY DEF DialogType
    <3>2. QED
      BY <1>1, <3>1, NumberSome, NumberIs
  <2>2. Number(s, Copies(x))
           <= NumberAfter(log[opened], m, Written(x)) + Number(coming[opened], {x})
    BY DEF Complete
  <2>3. Number(r, Copies(x)) <= Number(s, Copies(x))
    BY <1>1
  <2>4. QED
    BY <2>1, <2>2, <2>3
<1>6. Complete(r, m, h)
  BY <1>2, <1>3, <1>4, <1>5 DEF Complete
<1>7. QED
  BY <1>1, <1>6 DEF r, InOrder

\* The entries that are shown are distinct.
LEMMA DistinctIs ==
    ASSUME DialogType, opened \in Workspace, opened # None, EntriesFit, InOrder(messages)
    PROVE  Distinct(messages)
<1>1. messages \in Seq(Bubble) /\ DOMAIN messages \subseteq Nat
  BY DEF DialogType
<1>2. ASSUME NEW n \in DOMAIN messages, messages[n].key # 0
      PROVE  messages[n].at = 2 * messages[n].key
  <2>1. messages[n] = D!Entry(opened, messages[n].key)
    BY <1>2 DEF EntriesFit
  <2>2. D!Entry(opened, messages[n].key).at = 2 * messages[n].key
    BY DEF D!Entry
  <2>3. QED
    BY <2>1, <2>2
<1>3. ASSUME NEW n \in DOMAIN messages, NEW l \in DOMAIN messages, n # l, messages[n].key # 0
      PROVE  messages[n].key # messages[l].key
  <2>1. n < l \/ l < n
    BY <1>1, <1>3
  <2>2. \A e \in DOMAIN messages : messages[e].key \in Nat
    <3> TAKE e \in DOMAIN messages
    <3>1. messages[e] \in Bubble
      BY <1>1
    <3>2. QED
      BY <3>1 DEF Bubble
  <2>3. messages[l].key # 0 => \/ messages[n].key < messages[l].key
                               \/ messages[l].key < messages[n].key
    BY <1>3, <2>1 DEF InOrder
  <2>4. QED
    BY <1>3, <2>2, <2>3
<1>4. QED
  BY <1>2, <1>3 DEF Distinct

\* The next frame, of an entry that is shown already: nothing changes.
LEMMA FrameKnown ==
    ASSUME DialogType, opened \in Workspace, opened # None, EntriesFit, NEW m \in Nat,
           Complete(messages, m, Handled), Handled \in Nat,
           NEW e \in 1 .. Len(log[opened]), e = Handled + 1, e <= m
    PROVE  D!Placed(messages, D!Entry(opened, e)) = messages /\ Complete(messages, m, e)
<1> DEFINE x == D!Entry(opened, e)
<1>1. messages \in Seq(Bubble)
  BY DEF DialogType
<1>2. /\ x \in Bubble /\ x.key = e /\ x.who = log[opened][e].who /\ x.text = log[opened][e].text
      /\ log[opened][e] \in Line
  BY EntryIs
<1>3. e \in Handled + 1 .. m /\ e \in 1 .. m /\ e # 0 /\ e \in Nat
  BY DEF Complete
<1>4. PICK n0 \in DOMAIN messages : messages[n0].key = e
  BY <1>3 DEF Complete
<1>5. \A n \in DOMAIN messages : messages[n].key = e => messages[n] = x
  BY <1>3 DEF EntriesFit
<1>6. \A n \in DOMAIN messages : messages[n] = x => [messages EXCEPT ![n] = x] = messages
  <2>1. PICK N \in Nat : messages \in [1 .. N -> Bubble]
    BY <1>1
  <2> HIDE DEF x
  <2>2. QED
    BY <2>1
<1> HIDE DEF x
<1>7. \A n \in DOMAIN messages : ~(x.who = "user" /\ messages[n] \in Copies(x.text))
  <2> SUFFICES ASSUME NEW n \in DOMAIN messages, x.who = "user", messages[n] \in Copies(x.text)
               PROVE  FALSE
    OBVIOUS
  <2>1. messages[n].key = 0 /\ messages[n].text = x.text
    BY DEF Copies
  <2>2. log[opened][e] \notin Written(x.text)
    BY <1>3, <2>1 DEF Complete
  <2>3. QED
    BY <1>2, <2>2 DEF Written
<1>8. D!Placed(messages, x) = messages
  <2>1. ~ \A n \in DOMAIN messages : messages[n].key # x.key
    BY <1>2, <1>4
  <2>2. ASSUME NEW n \in DOMAIN messages, messages[n].key = x.key,
               D!Placed(messages, x) = [messages EXCEPT ![n] = x]
        PROVE  D!Placed(messages, x) = messages
    BY <1>2, <1>5, <1>6, <2>2
  <2>3. QED
    BY <1>1, <1>2, <1>7, <2>1, <2>2, PlacedIs
<1>9. Complete(messages, m, e)
  <2>1. \A l \in e + 1 .. m : l \in Handled + 1 .. m
    BY <1>3
  <2>2. m \in e .. Len(log[opened])
    BY <1>3 DEF Complete
  <2>3. QED
    BY <2>1, <2>2 DEF Complete
<1>10. QED
  BY <1>8, <1>9 DEF x

\* The next frame, of an entry that is not shown: it is there afterwards, or it is left
\* out.
LEMMA FrameNew ==
    ASSUME DialogType, opened \in Workspace, opened # None, EntriesFit, InOrder(messages),
           Handled \in Nat, Complete(messages, Handled, Handled),
           NEW e \in 1 .. Len(log[opened]), e = Handled + 1,
           \E n \in DOMAIN D!Placed(messages, D!Entry(opened, e)) :
               D!Placed(messages, D!Entry(opened, e))[n] = D!Entry(opened, e)
    PROVE  LET r == D!Placed(messages, D!Entry(opened, e))
           IN  r \in Seq(Bubble) /\ Distinct(r) /\ Complete(r, e, e)
<1> DEFINE x == D!Entry(opened, e)
           r == D!Placed(messages, x)
           h == Handled
           lines == log[opened]
           sent == coming[opened]
<1>1. /\ messages \in Seq(Bubble) /\ lines \in Seq(Line) /\ sent \in Seq(Words)
      /\ Len(lines) \in Nat /\ DOMAIN lines = 1 .. Len(lines) /\ e \in Nat /\ e > 0
  BY DEF DialogType
<1>2. /\ x \in Bubble /\ x.key = e /\ x.at = 2 * e /\ x.who = lines[e].who
      /\ x.text = lines[e].text /\ lines[e] \in Line
  BY EntryIs
<1>3. Distinct(messages)
  BY DistinctIs
<1>4. \E n \in DOMAIN r : r[n] = x
  OBVIOUS
<1>5. /\ \A c \in 1 .. h : \E n \in DOMAIN messages : messages[n].key = c
      /\ \A n \in DOMAIN messages : messages[n].key <= h
      /\ \A y \in Words : Number(messages, Copies(y))
                             <= NumberAfter(lines, h, Written(y)) + Number(sent, {y})
  BY DEF Complete
<1>6. \A n \in DOMAIN messages : messages[n] \in Bubble /\ messages[n].key # e /\ messages[n] # x
  <2> TAKE n \in DOMAIN messages
  <2>1. messages[n] \in Bubble
    BY <1>1
  <2>2. messages[n].key \in Nat /\ messages[n].key <= h
    BY <1>5, <2>1 DEF Bubble
  <2> HIDE DEF h, x
  <2>3. messages[n].key # e
    BY <2>2 DEF h
  <2>4. QED
    BY <1>2, <2>1, <2>3
<1>7. h \in Nat /\ e = h + 1
  OBVIOUS
<1>8. \A c \in 1 .. e : c \in 1 .. h \/ c = e
  BY <1>7
<1>9. e \in e .. Len(lines) /\ e + 1 .. e = {}
  BY <1>1
<1>10. \A y : lines[e] \in Written(y) <=> x.who = "user" /\ x.text = y
  BY <1>2 DEF Written
<1>11. /\ \A y : /\ NumberAfter(lines, h, Written(y)) \in Nat
                 /\ NumberAfter(lines, e, Written(y)) \in Nat
                 /\ Number(sent, {y}) \in Nat /\ Number(messages, Copies(y)) \in Nat
  BY <1>1, NumberIs, NumberSome
<1>12. \A y : NumberAfter(lines, h, Written(y)) <= NumberAfter(lines, e, Written(y)) + 1
  <2> TAKE y
  <2>1. Places(lines, h, Written(y)) \subseteq Places(lines, e, Written(y)) \cup {e}
    BY <1>1, <1>7 DEF Places
  <2>2. QED
    BY <1>1, <2>1, NumberNear
<1>13. \A y : lines[e] \notin Written(y) =>
          NumberAfter(lines, h, Written(y)) <= NumberAfter(lines, e, Written(y))
  <2> TAKE y
  <2> HAVE lines[e] \notin Written(y)
  <2>1. Places(lines, h, Written(y)) \subseteq Places(lines, e, Written(y))
    BY <1>1, <1>7 DEF Places
  <2>2. QED
    BY <1>1, <2>1, NumberSame
<1>14. \A y : x \notin Copies(y)
  BY <1>1, <1>2 DEF Copies
<1> HIDE DEF x, r, h, lines, sent
<1>15. ASSUME r \in Seq(Bubble),
              \A n \in DOMAIN r : \/ r[n] = x
                                  \/ n \in DOMAIN messages /\ r[n] = messages[n],
              \A n, l \in DOMAIN r : r[n] = x /\ r[l] = x => n = l,
              \A c \in 1 .. h : \E n \in DOMAIN r : r[n].key = c,
              \A y \in Words : Number(r, Copies(y))
                                  <= NumberAfter(lines, e, Written(y)) + Number(sent, {y})
       PROVE  r \in Seq(Bubble) /\ Distinct(r) /\ Complete(r, e, e)
  <2>1. \A c \in 1 .. e : \E n \in DOMAIN r : r[n].key = c
    BY <1>2, <1>4, <1>8, <1>15
  <2>2. \A n \in DOMAIN r : r[n].key <= e
    <3> TAKE n \in DOMAIN r
    <3>1. CASE r[n] = x
      BY <1>1, <1>2, <3>1
    <3>2. CASE n \in DOMAIN messages /\ r[n] = messages[n]
      <4>1. messages[n].key \in Nat /\ messages[n].key <= h
        BY <1>5, <1>6, <3>2 DEF Bubble
      <4>2. QED
        BY <1>7, <3>2, <4>1
    <3>3. QED
      BY <1>15, <3>1, <3>2
  <2>3. Complete(r, e, e)
    BY <1>9, <1>15, <2>1, <2>2 DEF Complete, lines, sent
  <2>4. Distinct(r)
    <3>1. \A n \in DOMAIN r : r[n].key # 0 => r[n].at = 2 * r[n].key
      BY <1>2, <1>3, <1>15 DEF Distinct
    <3>2. ASSUME NEW n \in DOMAIN r, NEW l \in DOMAIN r, n # l, r[n].key # 0
          PROVE  r[n].key # r[l].key
      <4>1. CASE r[n] = x \/ r[l] = x
        BY <1>2, <1>6, <1>15, <3>2, <4>1
      <4>2. CASE r[n] # x /\ r[l] # x
        BY <1>3, <1>15, <3>2, <4>2 DEF Distinct
      <4>3. QED
        BY <4>1, <4>2
    <3>3. QED
      BY <3>1, <3>2 DEF Distinct
  <2>5. QED
    BY <1>15, <2>3, <2>4
<1>16. ASSUME NEW n0 \in DOMAIN messages, x.who = "user", messages[n0] \in Copies(x.text),
              r = [messages EXCEPT ![n0] = x]
       PROVE  r \in Seq(Bubble) /\ Distinct(r) /\ Complete(r, e, e)
  <2>1. PICK N \in Nat : messages \in [1 .. N -> Bubble] /\ DOMAIN messages = 1 .. N
    BY <1>1
  <2>2. /\ r \in [1 .. N -> Bubble] /\ DOMAIN r = 1 .. N /\ r[n0] = x
        /\ \A n \in 1 .. N : n # n0 => r[n] = messages[n]
    BY <1>2, <1>16, <2>1
  <2>3. r \in Seq(Bubble)
    BY <2>2
  <2>4. messages[n0].key = 0
    BY <1>16 DEF Copies
  <2>5. \A c \in 1 .. h : \E n \in DOMAIN r : r[n].key = c
    <3> TAKE c \in 1 .. h
    <3>1. PICK n \in DOMAIN messages : messages[n].key = c
      BY <1>5
    <3>2. n # n0 /\ n \in DOMAIN r
      BY <2>1, <2>2, <2>4, <3>1
    <3>3. QED
      BY <2>1, <2>2, <3>1, <3>2
  <2>6. ASSUME NEW y \in Words
        PROVE  Number(r, Copies(y)) <= NumberAfter(lines, e, Written(y)) + Number(sent, {y})
    <3>1. /\ Number(r, Copies(y)) <= Number(messages, Copies(y))
          /\ messages[n0] \in Copies(y) => Number(r, Copies(y)) + 1 <= Number(messages, Copies(y))
          /\ Number(r, Copies(y)) \in Nat
      <4>1. x \notin Copies(y)
        BY <1>14
      <4>2. Number(r, Copies(y)) \in Nat
        BY <2>3, NumberSome
      <4>3. QED
        BY <1>1, <1>2, <1>16, <4>1, <4>2, NumberReplaced
    <3>2. CASE y = x.text
      BY <1>5, <1>11, <1>12, <1>16, <3>1, <3>2
    <3>3. CASE y # x.text
      <4>1. lines[e] \notin Written(y)
        BY <1>10, <3>3
      <4>2. QED
        BY <1>5, <1>11, <1>13, <3>1, <4>1
    <3>4. QED
      BY <3>2, <3>3
  <2>7. \A n, l \in DOMAIN r : r[n] = x /\ r[l] = x => n = l
    BY <1>6, <2>1, <2>2
  <2>8. \A n \in DOMAIN r : r[n] = x \/ (n \in DOMAIN messages /\ r[n] = messages[n])
    BY <2>1, <2>2
  <2>9. QED
    BY <1>15, <2>3, <2>5, <2>6, <2>7, <2>8
<1>17. ASSUME x.who = "ai", r = Append(messages, x)
       PROVE  r \in Seq(Bubble) /\ Distinct(r) /\ Complete(r, e, e)
  <2>1. PICK N \in Nat : N = Len(messages) /\ DOMAIN messages = 1 .. N
    BY <1>1
  <2>2. /\ r \in Seq(Bubble) /\ DOMAIN r = 1 .. N + 1 /\ r[N + 1] = x
        /\ \A n \in 1 .. N : r[n] = messages[n]
    BY <1>1, <1>2, <1>17, <2>1
  <2>3. \A n : n \in 1 .. N + 1 <=> n \in 1 .. N \/ n = N + 1
    BY <2>1
  <2>4. \A n \in DOMAIN r : r[n] = x \/ (n \in DOMAIN messages /\ r[n] = messages[n])
    BY <2>1, <2>2, <2>3
  <2>5. \A n, l \in DOMAIN r : r[n] = x /\ r[l] = x => n = l
    BY <1>6, <2>1, <2>2, <2>3
  <2>6. \A c \in 1 .. h : \E n \in DOMAIN r : r[n].key = c
    BY <1>5, <2>1, <2>2, <2>3
  <2>7. ASSUME NEW y \in Words
        PROVE  Number(r, Copies(y)) <= NumberAfter(lines, e, Written(y)) + Number(sent, {y})
    <3>1. Number(r, Copies(y)) = Number(messages, Copies(y))
      <4>1. x \notin Copies(y)
        BY <1>14
      <4>2. QED
        BY <1>1, <1>2, <1>17, <4>1, NumberAppend DEF Number
    <3>2. lines[e] \notin Written(y)
      BY <1>10, <1>17
    <3>3. QED
      BY <1>5, <1>11, <1>13, <3>1, <3>2
  <2>8. QED
    BY <1>15, <2>2, <2>4, <2>5, <2>6, <2>7
<1>18. r # messages
  BY <1>4, <1>6
<1>19. QED
  BY <1>1, <1>2, <1>6, <1>16, <1>17, <1>18, PlacedIs DEF r, x

\* A frame that is handled and shown: what is shown is complete up to it at least.
LEMMA FrameShown ==
    ASSUME DialogType, opened \in Workspace, opened # None, EntriesFit, InOrder(messages),
           Handled \in Nat, NEW m \in Nat, Complete(messages, m, Handled),
           NEW e \in 1 .. Len(log[opened]), e = Handled + 1,
           \E n \in DOMAIN D!Appended(messages, D!Entry(opened, e)) :
               D!Appended(messages, D!Entry(opened, e))[n] = D!Entry(opened, e)
    PROVE  LET r == D!Appended(messages, D!Entry(opened, e))
           IN  InOrder(r) /\ \E l \in Nat : Complete(r, l, e)
<1> DEFINE x == D!Entry(opened, e)
           s == D!Placed(messages, x)
           r == D!Appended(messages, x)
<1>1. messages \in Seq(Bubble) /\ e \in Nat
  BY DEF DialogType
<1>2. r = D!Sorted(s, D!Times(s))
  BY DEF D!Appended
<1>3. CASE e <= m
  <2>1. s = messages /\ Complete(messages, m, e)
    BY <1>3, FrameKnown
  <2>2. Distinct(messages)
    BY DistinctIs
  <2> HIDE DEF s, r, x
  <2>3. InOrder(r) /\ Complete(r, m, e)
    BY <1>1, <1>2, <2>1, <2>2, CompleteSorted
  <2>4. QED
    BY <2>3 DEF r, x
<1>4. CASE ~(e <= m)
  <2>1. m = Handled
    <3>1. m \in Handled .. Len(log[opened])
      BY DEF Complete
    <3> HIDE DEF x, s, r
    <3>2. QED
      BY <1>4, <3>1
  <2>2. x \in Bubble
    BY EntryIs
  <2>3. s \in Seq(Bubble)
    <3> HIDE DEF x
    <3>1. \A n \in DOMAIN messages : [messages EXCEPT ![n] = x] \in Seq(Bubble)
      BY <1>1, <2>2
    <3>2. Append(messages, x) \in Seq(Bubble)
      BY <1>1, <2>2
    <3>3. \/ \E n \in DOMAIN messages : s = [messages EXCEPT ![n] = x]
          \/ s = Append(messages, x) \/ s = messages
      BY <1>1, <2>2, PlacedIs
    <3> HIDE DEF s
    <3>4. QED
      BY <1>1, <3>1, <3>2, <3>3
  <2>4. \E n \in DOMAIN s : s[n] = x
    <3>1. PICK n \in DOMAIN r : r[n] = x
      OBVIOUS
    <3> HIDE DEF s, r, x
    <3>2. \E l \in DOMAIN s : r[n] = s[l]
      BY <1>2, <2>3, <3>1, SortKeeps
    <3>3. QED
      BY <3>1, <3>2
  <2>5. Distinct(s) /\ Complete(s, e, e)
    BY <2>1, <2>4, FrameNew
  <2> HIDE DEF s, r, x
  <2>6. InOrder(r) /\ Complete(r, e, e)
    BY <1>1, <1>2, <2>3, <2>5, CompleteSorted
  <2>7. QED
    BY <1>1, <2>6 DEF r, x
<1>5. QED
  BY <1>3, <1>4

\* The types of what a dialog is made of
LEMMA DialogTypeIs ==
    ASSUME DialogType
    PROVE  /\ messages \in Seq(Bubble) /\ calls \in Seq(DialogCall) /\ frames \in Seq(Nat)
           /\ \A w \in Workspace : /\ log[w] \in Seq(Line) /\ coming[w] \in Seq(Words)
                                   /\ Len(log[w]) \in Nat
           /\ None \notin Workspace /\ None \in Words
           /\ \A x : /\ Number(messages, Copies(x)) \in Nat /\ Number(calls, Taken(x)) \in Nat
                     /\ \A w \in Workspace : /\ Number(log[w], Written(x)) \in Nat
                                             /\ Number(coming[w], {x}) \in Nat
                                             /\ \A m : NumberAfter(log[w], m, Written(x)) \in Nat
<1>1. /\ messages \in Seq(Bubble) /\ calls \in Seq(DialogCall) /\ frames \in Seq(Nat)
      /\ \A w \in Workspace : log[w] \in Seq(Line) /\ coming[w] \in Seq(Words)
  BY DEF DialogType
<1>2. \A w \in Workspace : Len(log[w]) \in Nat
  BY <1>1
<1>3. None \notin Workspace /\ None \in Words
  BY BoardsAssumption DEF D!CardDialogAssumption, Words
<1>4. \A x : Number(messages, Copies(x)) \in Nat /\ Number(calls, Taken(x)) \in Nat
  BY <1>1, NumberSome
<1>5. \A x : \A w \in Workspace : /\ Number(log[w], Written(x)) \in Nat
                                  /\ Number(coming[w], {x}) \in Nat
  <2> TAKE x
  <2> TAKE w \in Workspace
  <2>1. log[w] \in Seq(Line) /\ coming[w] \in Seq(Words)
    BY <1>1
  <2>2. QED
    BY <2>1, NumberSome
<1>6. \A x : \A w \in Workspace : \A m : NumberAfter(log[w], m, Written(x)) \in Nat
  BY <1>1, NumberIs
<1>7. QED
  BY <1>1, <1>2, <1>3, <1>4, <1>5, <1>6

\* The requests, with one more and with one less
LEMMA DialogCalls ==
    ASSUME NEW s \in Seq(DialogCall)
    PROVE  /\ \A c \in DialogCall : /\ Append(s, c) \in Seq(DialogCall)
                                   /\ Held(Append(s, c)) = Held(s) \cup {c}
           /\ \A n \in DOMAIN s : /\ s[n] \in DialogCall /\ s[n] \in Held(s)
                                 /\ D!RemoveAt(s, n) = Left(s, n)
                                 /\ Left(s, n) \in Seq(DialogCall)
                                 /\ Held(Left(s, n)) \subseteq Held(s)
                                 /\ Held(s) \ {s[n]} \subseteq Held(Left(s, n))
<1>1. ASSUME NEW c \in DialogCall
      PROVE  Append(s, c) \in Seq(DialogCall) /\ Held(Append(s, c)) = Held(s) \cup {c}
  <2>1. PICK N \in Nat : N = Len(s) /\ DOMAIN s = 1 .. N
    OBVIOUS
  <2>2. /\ Append(s, c) \in Seq(DialogCall) /\ DOMAIN Append(s, c) = 1 .. N + 1
        /\ \A n \in 1 .. N : Append(s, c)[n] = s[n]
        /\ Append(s, c)[N + 1] = c
    BY <2>1
  <2>3. \A n : n \in 1 .. N + 1 <=> n \in 1 .. N \/ n = N + 1
    BY <2>1
  <2>4. QED
    BY <2>1, <2>2, <2>3 DEF Held
<1>2. ASSUME NEW n \in DOMAIN s
      PROVE  /\ s[n] \in DialogCall /\ s[n] \in Held(s)
             /\ Left(s, n) \in Seq(DialogCall)
             /\ Held(Left(s, n)) \subseteq Held(s)
             /\ Held(s) \ {s[n]} \subseteq Held(Left(s, n))
  BY HeldLess
<1>3. \A n : D!RemoveAt(s, n) = Left(s, n)
  BY DEF D!RemoveAt, Left
<1>4. QED
  BY <1>1, <1>2, <1>3

\* A request is sent from the open dialog.
LEMMA CallSent ==
    ASSUME DialogInv, NEW c \in DialogCall, ~c.served, opened # None, c.of = opened,
           calls' = Append(calls, c), draft' \in Words, crossed => crossed',
           UNCHANGED <<log, coming, waiting, opened, messages, frames, switched, unseen>>
    PROVE  DialogInv'
<1>1. /\ DialogType /\ CallsFit /\ FramesFit /\ EntriesFit /\ CopiesFit /\ ShownFits
      /\ calls \in Seq(DialogCall)
  BY DEF DialogInv, DialogType
<1>2. calls' \in Seq(DialogCall) /\ Held(calls)' = Held(calls) \cup {c}
  <2>1. calls \in Seq(DialogCall)
    BY <1>1
  <2>2. /\ Append(calls, c) \in Seq(DialogCall)
        /\ Held(Append(calls, c)) = Held(calls) \cup {c}
    BY <2>1, DialogCalls
  <2>3. Held(calls)' = Held(calls')
    BY DEF Held
  <2>4. QED
    BY <2>2, <2>3
<1>3. DialogType'
  BY <1>1, <1>2 DEF DialogType
<1>4. /\ LoadsOf(opened)' \subseteq LoadsOf(opened) \cup {c}
      /\ LoadsOf(opened) \subseteq LoadsOf(opened)'
  BY <1>2 DEF LoadsOf
<1>5. Handled' = Handled
  BY DEF Handled
<1>6. CallsFit'
  <2>1. ~switched' => \A y \in Held(calls)' : y.op # "load" => y.of = opened'
    BY <1>1, <1>2 DEF CallsFit
  <2>2. \A y \in Held(calls)' : (y.op = "load" /\ y.served) => y.to <= Len(log'[y.of])
    BY <1>1, <1>2 DEF CallsFit
  <2>3. (opened' # None /\ ~crossed') =>
           \A y \in LoadsOf(opened)' : y.served => y.to >= Handled'
    BY <1>1, <1>4, <1>5 DEF CallsFit
  <2>4. QED
    BY <2>1, <2>2, <2>3 DEF CallsFit
<1>7. FramesFit' /\ EntriesFit'
  BY <1>1, <1>5 DEF FramesFit, EntriesFit, D!Entry
<1>8. CopiesFit'
  <2>1. \A x : Number(calls', Taken(x)) = Number(calls, Taken(x))
    <3> TAKE x
    <3>1. c \notin Taken(x)
      BY DEF Taken
    <3>2. QED
      BY <1>1, <3>1, NumberAppend DEF Number
  <2>2. QED
    BY <1>1, <2>1 DEF CopiesFit
<1>9. ShownFits'
  <2>1. LoadsOf(opened)' = {} => LoadsOf(opened) = {}
    BY <1>4
  <2>2. \A m : Complete(messages, m, Handled)' <=> Complete(messages, m, Handled)
    BY <1>5 DEF Complete
  <2>3. QED
    BY <1>1, <2>1, <2>2 DEF ShownFits, InOrder
<1>10. QED
  BY <1>3, <1>6, <1>7, <1>8, <1>9 DEF DialogInv

\* What the invariant says of the requests holds of fewer requests.
LEMMA FewerCalls ==
    ASSUME DialogInv, NEW n \in DOMAIN calls, Held(calls)' \subseteq Held(calls),
           crossed => crossed',
           UNCHANGED <<log, opened, frames, switched>>
    PROVE  CallsFit' /\ FramesFit' /\ Handled' = Handled
<1>1. CallsFit /\ FramesFit
  BY DEF DialogInv
<1>2. Handled' = Handled
  BY DEF Handled
<1>3. LoadsOf(opened)' \subseteq LoadsOf(opened)
  BY DEF LoadsOf
<1>4. CallsFit'
  <2>1. ~switched' => \A y \in Held(calls)' : y.op # "load" => y.of = opened'
    BY <1>1 DEF CallsFit
  <2>2. \A y \in Held(calls)' : (y.op = "load" /\ y.served) => y.to <= Len(log'[y.of])
    BY <1>1 DEF CallsFit
  <2>3. (opened' # None /\ ~crossed') =>
           \A y \in LoadsOf(opened)' : y.served => y.to >= Handled'
    BY <1>1, <1>2, <1>3 DEF CallsFit
  <2>4. QED
    BY <2>1, <2>2, <2>3 DEF CallsFit
<1>5. FramesFit'
  BY <1>1, <1>2 DEF FramesFit
<1>6. QED
  BY <1>2, <1>4, <1>5

\* A request is answered, and its answer changes nothing that is shown.
LEMMA CallAnswered ==
    ASSUME DialogInv, NEW n \in DOMAIN calls, calls' = Left(calls, n), draft' \in Words,
           crossed => crossed',
           (opened # None /\ calls[n] \in LoadsOf(opened)) => crossed',
           UNCHANGED <<log, coming, waiting, opened, messages, frames, switched, unseen>>
    PROVE  DialogInv'
<1>1. /\ DialogType /\ CallsFit /\ FramesFit /\ EntriesFit /\ CopiesFit /\ ShownFits
      /\ calls \in Seq(DialogCall)
  BY DEF DialogInv, DialogType
<1>2. /\ calls' \in Seq(DialogCall) /\ Held(calls)' \subseteq Held(calls)
      /\ Held(calls) \ {calls[n]} \subseteq Held(calls)'
  <2>1. /\ Left(calls, n) \in Seq(DialogCall) /\ Held(Left(calls, n)) \subseteq Held(calls)
        /\ Held(calls) \ {calls[n]} \subseteq Held(Left(calls, n))
    BY <1>1, DialogCalls
  <2>2. Held(calls)' = Held(calls')
    BY DEF Held
  <2>3. QED
    BY <2>1, <2>2
<1>3. DialogType'
  BY <1>1, <1>2 DEF DialogType
<1>4. CallsFit' /\ FramesFit' /\ Handled' = Handled
  BY <1>2, FewerCalls
<1>5. EntriesFit'
  BY <1>1 DEF EntriesFit, D!Entry
<1>6. CopiesFit'
  <2>1. \A x : /\ Number(calls', Taken(x)) <= Number(calls, Taken(x))
               /\ Number(calls', Taken(x)) \in Nat
    BY <1>1, <1>2, NumberLeft, NumberSome
  <2>2. ASSUME opened # None, ~switched, NEW x \in Words
        PROVE  Number(messages, Copies(x)) + Number(calls', Taken(x))
                   <= Number(log[opened], Written(x)) + Number(coming[opened], {x})
    <3>1. opened \in Workspace
      BY <1>1, <2>2 DEF DialogType
    <3>2. Number(messages, Copies(x)) + Number(calls, Taken(x))
             <= Number(log[opened], Written(x)) + Number(coming[opened], {x})
      BY <1>1, <2>2 DEF CopiesFit
    <3>3. /\ Number(messages, Copies(x)) \in Nat /\ Number(calls, Taken(x)) \in Nat
          /\ Number(log[opened], Written(x)) \in Nat /\ Number(coming[opened], {x}) \in Nat
      BY <1>1, <3>1, DialogTypeIs
    <3>4. QED
      BY <2>1, <3>2, <3>3
  <2>3. QED
    BY <2>2 DEF CopiesFit
<1>7. ShownFits'
  <2>1. (opened # None /\ ~crossed' /\ LoadsOf(opened)' = {}) => LoadsOf(opened) = {}
    BY <1>2 DEF LoadsOf
  <2>2. \A m : Complete(messages, m, Handled)' <=> Complete(messages, m, Handled)
    BY <1>4 DEF Complete
  <2>3. QED
    BY <1>1, <2>1, <2>2 DEF ShownFits, InOrder
<1>8. QED
  BY <1>3, <1>4, <1>5, <1>6, <1>7 DEF DialogInv

\* A message that was sent is shown by its copy, and the messages are loaded.
LEMMA CopyShown ==
    ASSUME DialogInv, NEW n \in DOMAIN calls, calls[n].op = "send", calls[n].served,
           opened # None, NEW c \in DialogCall, c.op = "load", c.of = opened, ~c.served,
           calls' = Append(Left(calls, n), c),
           messages' = Append(messages, D!Local(opened, calls[n].text)),
           draft' \in Words, crossed => crossed',
           UNCHANGED <<log, coming, waiting, opened, frames, switched, unseen>>
    PROVE  DialogInv'
<1> DEFINE x0 == calls[n].text
           new == D!Local(opened, calls[n].text)
<1>1. /\ DialogType /\ CallsFit /\ FramesFit /\ EntriesFit /\ CopiesFit /\ ShownFits
      /\ calls \in Seq(DialogCall) /\ messages \in Seq(Bubble) /\ opened \in Workspace
  BY DEF DialogInv, DialogType
<1>2. /\ Left(calls, n) \in Seq(DialogCall) /\ Held(Left(calls, n)) \subseteq Held(calls)
      /\ calls[n] \in DialogCall
  BY <1>1, DialogCalls
<1>3. calls' \in Seq(DialogCall) /\ Held(calls)' = Held(Left(calls, n)) \cup {c}
  <2>1. /\ Append(Left(calls, n), c) \in Seq(DialogCall)
        /\ Held(Append(Left(calls, n), c)) = Held(Left(calls, n)) \cup {c}
    BY <1>2, DialogCalls
  <2>2. Held(calls)' = Held(calls')
    BY DEF Held
  <2>3. QED
    BY <2>1, <2>2
<1>4. new \in Bubble /\ new.key = 0 /\ new.text = x0
  <2>1. Len(log[opened]) \in Nat
    BY <1>1, DialogTypeIs
  <2>2. 2 * Len(log[opened]) + 1 \in Nat
    BY <2>1
  <2>3. x0 \in Words
    BY <1>2 DEF DialogCall
  <2>4. QED
    BY <2>2, <2>3 DEF D!Local, Bubble
<1> HIDE DEF x0, new
<1>5. messages' = Append(messages, new) /\ messages' \in Seq(Bubble)
  <2>1. messages' = Append(messages, new)
    BY DEF new
  <2>2. QED
    BY <1>1, <1>4, <2>1
<1>6. DialogType'
  BY <1>1, <1>3, <1>5 DEF DialogType
<1>7. Handled' = Handled /\ FramesFit'
  BY <1>1 DEF Handled, FramesFit
<1>8. CallsFit'
  <2>1. ~switched' => \A y \in Held(calls)' : y.op # "load" => y.of = opened'
    BY <1>1, <1>2, <1>3 DEF CallsFit
  <2>2. \A y \in Held(calls)' : (y.op = "load" /\ y.served) => y.to <= Len(log'[y.of])
    BY <1>1, <1>2, <1>3 DEF CallsFit
  <2>3. LoadsOf(opened)' \subseteq LoadsOf(opened) \cup {c}
    BY <1>2, <1>3 DEF LoadsOf
  <2>4. (opened' # None /\ ~crossed') =>
           \A y \in LoadsOf(opened)' : y.served => y.to >= Handled'
    BY <1>1, <1>7, <2>3 DEF CallsFit
  <2>5. QED
    BY <2>1, <2>2, <2>4 DEF CallsFit
<1>9. EntriesFit'
  <2>1. PICK N \in Nat : N = Len(messages) /\ DOMAIN messages = 1 .. N
    BY <1>1
  <2>2. DOMAIN messages' = 1 .. N + 1 /\ messages'[N + 1] = new
    BY <1>1, <1>4, <1>5, <2>1
  <2>3. \A l \in 1 .. N : messages'[l] = messages[l]
    BY <1>1, <1>4, <1>5, <2>1
  <2>4. \A l \in DOMAIN messages' : l \in DOMAIN messages \/ l = N + 1
    BY <2>1, <2>2
  <2>5. \A l \in DOMAIN messages' : messages'[l].key # 0 =>
           l \in DOMAIN messages /\ messages'[l] = messages[l]
    BY <1>4, <2>1, <2>2, <2>3, <2>4
  <2>6. QED
    BY <1>1, <2>5 DEF EntriesFit, D!Entry
<1>10. CopiesFit'
  <2>1. ASSUME ~switched, NEW x \in Words
        PROVE  Number(messages', Copies(x)) + Number(calls', Taken(x))
                   <= Number(log[opened], Written(x)) + Number(coming[opened], {x})
    <3>1. Number(messages, Copies(x)) + Number(calls, Taken(x))
             <= Number(log[opened], Written(x)) + Number(coming[opened], {x})
      BY <1>1, <2>1 DEF CopiesFit
    <3>2. /\ Number(messages, Copies(x)) \in Nat /\ Number(calls, Taken(x)) \in Nat
          /\ Number(log[opened], Written(x)) \in Nat /\ Number(coming[opened], {x}) \in Nat
      BY <1>1, DialogTypeIs
    <3>3. Number(calls', Taken(x)) = Number(Left(calls, n), Taken(x))
      <4>1. c \notin Taken(x)
        BY DEF Taken
      <4>2. QED
        BY <1>2, <4>1, NumberAppend DEF Number
    <3>4. /\ Number(Left(calls, n), Taken(x)) \in Nat
          /\ Number(Left(calls, n), Taken(x)) <= Number(calls, Taken(x))
          /\ x = x0 => Number(Left(calls, n), Taken(x)) + 1 <= Number(calls, Taken(x))
      <4>1. x = x0 => calls[n] \in Taken(x)
        BY <1>2 DEF Taken, x0
      <4>2. QED
        BY <1>1, <1>2, <4>1, NumberLeft, NumberSome
    <3>5. /\ Number(messages', Copies(x)) \in Nat
          /\ Number(messages', Copies(x)) <= Number(messages, Copies(x)) + 1
          /\ x # x0 => Number(messages', Copies(x)) = Number(messages, Copies(x))
      <4>1. x # x0 => new \notin Copies(x)
        BY <1>4 DEF Copies
      <4>2. Number(messages', Copies(x)) \in Nat
        BY <1>5, NumberSome
      <4>3. QED
        BY <1>1, <1>4, <1>5, <4>1, <4>2, NumberAppend DEF Number
    <3>6. QED
      BY <3>1, <3>2, <3>3, <3>4, <3>5
  <2>2. QED
    BY <2>1 DEF CopiesFit
<1>11. ShownFits'
  <2>1. c \in LoadsOf(opened)'
    BY <1>3 DEF LoadsOf
  <2>2. QED
    BY <2>1 DEF ShownFits
<1>12. QED
  BY <1>6, <1>7, <1>8, <1>9, <1>10, <1>11 DEF DialogInv

\* An answer brings the entries it was served, and lets the copies stand that it does not
\* have the text of.
LEMMA LoadTaken ==
    ASSUME DialogInv, NEW n \in DOMAIN calls, calls[n].op = "load", calls[n].served,
           opened # None, calls[n].of = opened, calls' = Left(calls, n),
           messages' = D!WithLocals(messages, D!Entries(opened, calls[n].to)),
           UNCHANGED <<log, coming, waiting, opened, draft, frames, switched, crossed>>
    PROVE  DialogInv'
<1> DEFINE to == calls[n].to
           r == messages'
           lines == log[opened]
<1>1. /\ DialogType /\ CallsFit /\ FramesFit /\ EntriesFit /\ CopiesFit /\ ShownFits
      /\ calls \in Seq(DialogCall) /\ messages \in Seq(Bubble) /\ opened \in Workspace
  BY DEF DialogInv, DialogType
<1>2. /\ calls' \in Seq(DialogCall) /\ Held(calls)' \subseteq Held(calls)
      /\ calls[n] \in DialogCall /\ calls[n] \in LoadsOf(opened)
  <2>1. /\ Left(calls, n) \in Seq(DialogCall) /\ Held(Left(calls, n)) \subseteq Held(calls)
        /\ calls[n] \in DialogCall /\ calls[n] \in Held(calls)
    BY <1>1, DialogCalls
  <2>2. Held(calls)' = Held(calls')
    BY DEF Held
  <2>3. QED
    BY <2>1, <2>2 DEF LoadsOf
<1>3. /\ to \in Nat /\ to <= Len(lines) /\ lines \in Seq(Line)
      /\ Len(lines) \in Nat
  BY <1>1, <1>2, DialogTypeIs DEF CallsFit, LoadsOf, DialogCall
<1>4. /\ r \in Seq(Bubble) /\ to <= Len(r)
      /\ \A l \in DOMAIN r : l <= to => r[l] = D!Entry(opened, l)
      /\ \A l \in DOMAIN r : l > to =>
            r[l].key = 0 /\ \A e \in 1 .. to : lines[e] \notin Written(r[l].text)
      /\ \A x : Number(r, Copies(x)) <= Number(messages, Copies(x))
  BY <1>1, <1>3, LoadedIs
<1>5. \A l : D!Entry(opened, l).key = l
  BY DEF D!Entry
<1>6. CallsFit' /\ FramesFit' /\ Handled' = Handled
  BY <1>2, FewerCalls
<1>7. DialogType'
  BY <1>1, <1>2, <1>4 DEF DialogType
<1> HIDE DEF to, r
<1>8. \A l \in DOMAIN r : /\ l \in Nat
                          /\ r[l].key # 0 => /\ l <= to /\ r[l].key = l
                                             /\ r[l] = D!Entry(opened, l)
                          /\ l <= to => r[l].key = l
  BY <1>3, <1>4, <1>5
<1>9. EntriesFit'
  <2>1. \A l \in DOMAIN r : r[l].key # 0 => /\ r[l].key <= Len(lines)
                                            /\ r[l] = D!Entry(opened, r[l].key)
    BY <1>3, <1>8
  <2>2. QED
    BY <2>1 DEF EntriesFit, r, D!Entry
<1>10. ASSUME ~switched, NEW x \in Words
       PROVE  /\ Number(r, Copies(x)) + Number(calls', Taken(x))
                    <= Number(lines, Written(x)) + Number(coming[opened], {x})
              /\ Number(r, Copies(x))
                    <= Number(lines, Written(x)) + Number(coming[opened], {x})
  <2>1. Number(messages, Copies(x)) + Number(calls, Taken(x))
           <= Number(lines, Written(x)) + Number(coming[opened], {x})
    BY <1>1, <1>10 DEF CopiesFit
  <2>2. /\ Number(messages, Copies(x)) \in Nat /\ Number(calls, Taken(x)) \in Nat
        /\ Number(lines, Written(x)) \in Nat /\ Number(coming[opened], {x}) \in Nat
    BY <1>1, DialogTypeIs
  <2>3. /\ Number(calls', Taken(x)) <= Number(calls, Taken(x))
        /\ Number(calls', Taken(x)) \in Nat
    BY <1>1, <1>2, NumberLeft, NumberSome
  <2>4. Number(r, Copies(x)) \in Nat /\ Number(r, Copies(x)) <= Number(messages, Copies(x))
    BY <1>4, NumberSome
  <2> HIDE DEF lines
  <2>5. QED
    BY <2>1, <2>2, <2>3, <2>4
<1>11. CopiesFit'
  BY <1>10 DEF CopiesFit, r
<1>12. ASSUME ~switched, ~crossed
       PROVE  InOrder(r) /\ Complete(r, to, Handled)
  <2>1. InOrder(r)
    BY <1>3, <1>8 DEF InOrder
  <2>2. Handled \in Nat /\ to >= Handled
    <3>1. Handled >= 0 /\ Handled \in Int
      BY <1>1, <1>3 DEF FramesFit, Handled, DialogType
    <3>2. to >= Handled
      BY <1>1, <1>2, <1>12 DEF CallsFit, to
    <3>3. QED
      BY <3>1, <3>2
  <2>3. to \in Handled .. Len(log[opened])
    BY <1>3, <2>2
  <2>4. ASSUME NEW e \in 1 .. to PROVE \E l \in DOMAIN r : r[l].key = e
    <3>1. e \in DOMAIN r
      BY <1>3, <1>4
    <3>2. e <= to
      BY <1>3
    <3>3. QED
      BY <1>8, <3>1, <3>2
  <2>5. \A l \in DOMAIN r : r[l].key <= to
    BY <1>3, <1>8
  <2>6. ASSUME NEW l \in DOMAIN r, r[l].key = 0
        PROVE  l > to
    <3>1. l \in Nat /\ l > 0
      BY <1>4
    <3>2. QED
      BY <1>3, <1>8, <2>6, <3>1
  <2>7. ASSUME NEW l \in DOMAIN r, r[l].key = 0, NEW e \in Handled + 1 .. to
        PROVE  log[opened][e] \notin Written(r[l].text)
    <3>1. l > to
      BY <2>6, <2>7
    <3>2. e \in 1 .. to
      BY <1>3, <2>2
    <3>3. QED
      BY <1>4, <3>1, <3>2
  <2>8. ASSUME NEW x \in Words
        PROVE  Number(r, Copies(x))
                   <= NumberAfter(log[opened], to, Written(x)) + Number(coming[opened], {x})
    <3>1. /\ Number(r, Copies(x)) \in Nat /\ Number(coming[opened], {x}) \in Nat
          /\ NumberAfter(log[opened], to, Written(x)) \in Nat
          /\ Number(lines, Written(x)) \in Nat
      BY <1>1, <1>4, DialogTypeIs, NumberSome
    <3>2. CASE \A l \in DOMAIN r : r[l] \notin Copies(x)
      <4>1. Number(r, Copies(x)) = 0
        BY <1>4, <3>2, NumberSome
      <4> HIDE DEF lines
      <4>2. QED
        BY <3>1, <4>1
    <3>3. CASE \E l \in DOMAIN r : r[l] \in Copies(x)
      <4>1. PICK l \in DOMAIN r : r[l].key = 0 /\ r[l].text = x
        BY <3>3 DEF Copies
      <4>2. \A e \in 1 .. to : lines[e] \notin Written(x)
        BY <1>4, <2>6, <4>1
      <4>3. Places(lines, 0, Written(x)) \subseteq Places(lines, to, Written(x))
        <5>1. DOMAIN lines = 1 .. Len(lines)
          BY <1>3
        <5> HIDE DEF lines
        <5>2. QED
          BY <1>3, <4>2, <5>1 DEF Places
      <4>4. Number(lines, Written(x)) <= NumberAfter(lines, to, Written(x))
        BY <1>3, <4>3, NumberSame DEF Number
      <4>5. Number(r, Copies(x)) <= Number(lines, Written(x)) + Number(coming[opened], {x})
        BY <1>10, <1>12
      <4>6. NumberAfter(lines, to, Written(x)) \in Nat
        BY <3>1
      <4>7. QED
        BY <3>1, <4>4, <4>5, <4>6
    <3>4. QED
      BY <3>2, <3>3
  <2>9. QED
    BY <2>1, <2>3, <2>4, <2>5, <2>7, <2>8 DEF Complete
<1>13. ShownFits'
  <2>1. \A m : Complete(messages, m, Handled)' <=> Complete(r, m, Handled)
    BY <1>6 DEF Complete, r
  <2>2. InOrder(messages)' <=> InOrder(r)
    BY DEF InOrder, r
  <2>3. QED
    BY <1>3, <1>12, <2>1, <2>2 DEF ShownFits
<1>14. QED
  BY <1>6, <1>7, <1>9, <1>11, <1>13 DEF DialogInv

\* The server takes a message.
LEMMA ComingMore ==
    ASSUME DialogType, NEW w \in Workspace, NEW y \in Words,
           coming' = [coming EXCEPT ![w] = Append(@, y)]
    PROVE  /\ coming' \in [Workspace -> Seq(Words)]
           /\ \A v \in Workspace : \A x :
                 /\ Number(coming[v], {x}) \in Nat /\ Number(coming'[v], {x}) \in Nat
                 /\ Number(coming[v], {x}) <= Number(coming'[v], {x})
           /\ Number(coming'[w], {y}) = Number(coming[w], {y}) + 1
<1>1. coming \in [Workspace -> Seq(Words)]
  BY DEF DialogType
<1>2. /\ coming'[w] = Append(coming[w], y) /\ coming[w] \in Seq(Words)
      /\ Append(coming[w], y) \in Seq(Words)
      /\ \A v \in Workspace : v # w => coming'[v] = coming[v]
  BY <1>1
<1>3. coming' \in [Workspace -> Seq(Words)]
  BY <1>1, <1>2
<1>4. \A x : Number(coming[w], {x}) <= Number(coming'[w], {x})
  BY <1>2, NumberAppend DEF Number
<1>5. Number(coming'[w], {y}) = Number(coming[w], {y}) + 1
  <2>1. y \in {y} /\ 0 <= Len(coming[w])
    BY <1>2
  <2>2. QED
    BY <1>2, <2>1, NumberAppend DEF Number
<1>6. ASSUME NEW v \in Workspace, NEW x
      PROVE  /\ Number(coming[v], {x}) \in Nat /\ Number(coming'[v], {x}) \in Nat
             /\ Number(coming[v], {x}) <= Number(coming'[v], {x})
  <2>1. coming[v] \in Seq(Words) /\ coming'[v] \in Seq(Words)
    BY <1>1, <1>3
  <2>2. Number(coming[v], {x}) \in Nat /\ Number(coming'[v], {x}) \in Nat
    BY <2>1, NumberSome
  <2>3. CASE v = w
    BY <1>4, <2>2, <2>3
  <2>4. CASE v # w
    <3>1. coming'[v] = coming[v]
      BY <1>2, <2>4
    <3>2. QED
      BY <2>2, <3>1
  <2>5. QED
    BY <2>3, <2>4
<1>7. QED
  BY <1>3, <1>5, <1>6

\* What is shown stays complete when more messages are to come.
LEMMA CompleteComing ==
    ASSUME DialogType, opened \in Workspace,
           \A x : /\ Number(coming[opened], {x}) \in Nat /\ Number(coming'[opened], {x}) \in Nat
                  /\ Number(coming[opened], {x}) <= Number(coming'[opened], {x}),
           NEW m \in Nat, Complete(messages, m, Handled),
           UNCHANGED <<log, opened, messages, frames>>
    PROVE  Complete(messages, m, Handled)'
<1>1. Handled' = Handled
  BY DEF Handled
<1>2. ASSUME NEW x \in Words
      PROVE  Number(messages, Copies(x))
                 <= NumberAfter(log[opened], m, Written(x)) + Number(coming'[opened], {x})
  <2>1. Number(messages, Copies(x))
           <= NumberAfter(log[opened], m, Written(x)) + Number(coming[opened], {x})
    BY DEF Complete
  <2>2. /\ Number(messages, Copies(x)) \in Nat
        /\ NumberAfter(log[opened], m, Written(x)) \in Nat
    BY DialogTypeIs
  <2>3. /\ Number(coming[opened], {x}) \in Nat /\ Number(coming'[opened], {x}) \in Nat
        /\ Number(coming[opened], {x}) <= Number(coming'[opened], {x})
    OBVIOUS
  <2>4. QED
    BY <2>1, <2>2, <2>3
<1>3. QED
  BY <1>1, <1>2 DEF Complete

\* The server serves a request.
LEMMA CallServed ==
    ASSUME DialogInv, NEW n \in DOMAIN calls, ~calls[n].served,
           NEW c \in DialogCall, calls' = [calls EXCEPT ![n] = c],
           c.op = calls[n].op, c.of = calls[n].of, c.text = calls[n].text,
           c.op = "load" => c.to = Len(log[c.of]),
           c.op = "send" => coming' = [coming EXCEPT ![c.of] = Append(@, c.text)],
           c.op # "send" => coming' = coming,
           waiting' \in [Workspace -> Words],
           UNCHANGED <<log, opened, draft, messages, frames, switched, crossed, unseen>>
    PROVE  DialogInv'
<1>1. /\ DialogType /\ CallsFit /\ FramesFit /\ EntriesFit /\ CopiesFit /\ ShownFits
      /\ calls \in Seq(DialogCall) /\ messages \in Seq(Bubble)
      /\ opened \in Workspace \cup {None} /\ coming \in [Workspace -> Seq(Words)]
  BY DEF DialogInv, DialogType
<1>2. c.of \in Workspace /\ c.text \in Words
  BY DEF DialogCall
<1>3. /\ calls' \in Seq(DialogCall)
      /\ \A y \in Held(calls)' : y = c \/ y \in Held(calls)
      /\ \A y \in Held(calls) : y = calls[n] \/ y \in Held(calls)'
      /\ calls[n] \in Held(calls) /\ c \in Held(calls)'
      /\ DOMAIN calls' = DOMAIN calls
      /\ \A l \in DOMAIN calls : l # n => calls'[l] = calls[l]
      /\ calls'[n] = c
  <2>1. PICK N \in Nat : N = Len(calls) /\ DOMAIN calls = 1 .. N
    BY <1>1
  <2>2. calls \in [1 .. N -> DialogCall]
    BY <1>1, <2>1
  <2>3. calls' \in [1 .. N -> DialogCall]
    BY <2>1, <2>2
  <2>4. /\ calls' \in Seq(DialogCall) /\ DOMAIN calls' = DOMAIN calls /\ calls'[n] = c
        /\ \A l \in DOMAIN calls : l # n => calls'[l] = calls[l]
    BY <2>1, <2>2, <2>3
  <2>5. QED
    BY <2>4 DEF Held
<1>4. /\ coming' \in [Workspace -> Seq(Words)]
      /\ \A v \in Workspace : \A x :
            /\ Number(coming[v], {x}) \in Nat /\ Number(coming'[v], {x}) \in Nat
            /\ Number(coming[v], {x}) <= Number(coming'[v], {x})
      /\ c.op = "send" =>
            Number(coming'[c.of], {c.text}) = Number(coming[c.of], {c.text}) + 1
  <2>1. CASE c.op = "send"
    BY <1>1, <1>2, <2>1, ComingMore
  <2>2. CASE c.op # "send"
    <3>1. \A v \in Workspace : \A x : Number(coming[v], {x}) \in Nat
      BY <1>1, DialogTypeIs
    <3>2. coming' = coming
      BY <2>2
    <3>3. ASSUME NEW v \in Workspace, NEW x
          PROVE  Number(coming[v], {x}) <= Number(coming[v], {x})
      <4>1. \A y \in Nat : y <= y
        OBVIOUS
      <4>2. Number(coming[v], {x}) \in Nat
        BY <3>1
      <4>3. QED
        BY <4>1, <4>2
    <3>4. \A v \in Workspace : \A x :
             /\ Number(coming[v], {x}) \in Nat /\ Number(coming'[v], {x}) \in Nat
             /\ Number(coming[v], {x}) <= Number(coming'[v], {x})
      BY <3>1, <3>2, <3>3
    <3>5. coming' \in [Workspace -> Seq(Words)]
      BY <1>1, <3>2
    <3>6. QED
      BY <2>2, <3>4, <3>5
  <2>3. QED
    BY <2>1, <2>2
<1>5. DialogType'
  BY <1>1, <1>3, <1>4 DEF DialogType
<1>6. Handled' = Handled /\ FramesFit'
  BY <1>1 DEF Handled, FramesFit
<1>7. CallsFit'
  <2>1. ~switched' => \A y \in Held(calls)' : y.op # "load" => y.of = opened'
    BY <1>1, <1>3 DEF CallsFit
  <2>2. \A w \in Workspace : Len(log[w]) \in Nat
    BY <1>1, DialogTypeIs
  <2>3. \A y \in Held(calls)' : (y.op = "load" /\ y.served) => y.to <= Len(log'[y.of])
    BY <1>1, <1>2, <1>3, <2>2 DEF CallsFit
  <2>4. ASSUME opened # None, ~crossed, NEW y \in LoadsOf(opened)', y.served
        PROVE  y.to >= Handled
    <3>1. CASE y = c
      <4>1. y.to = Len(log[opened])
        BY <3>1, <2>4 DEF LoadsOf
      <4>2. Len(frames) \in Nat /\ Len(log[opened]) \in Nat
        BY <1>1, <2>2, <2>4 DEF DialogType
      <4>3. QED
        BY <4>1, <4>2 DEF Handled
    <3>2. CASE y # c
      <4>1. y \in LoadsOf(opened)
        BY <1>3, <2>4, <3>2 DEF LoadsOf
      <4>2. QED
        BY <1>1, <2>4, <4>1 DEF CallsFit
    <3>3. QED
      BY <3>1, <3>2
  <2>5. QED
    BY <1>6, <2>1, <2>3, <2>4 DEF CallsFit
<1>8. EntriesFit'
  BY <1>1 DEF EntriesFit, D!Entry
<1>9. CopiesFit'
  <2>1. ASSUME opened # None, ~switched, NEW x \in Words
        PROVE  Number(messages, Copies(x)) + Number(calls', Taken(x))
                   <= Number(log[opened], Written(x)) + Number(coming'[opened], {x})
    <3>1. opened \in Workspace
      BY <1>1, <2>1
    <3>2. Number(messages, Copies(x)) + Number(calls, Taken(x))
             <= Number(log[opened], Written(x)) + Number(coming[opened], {x})
      BY <1>1, <2>1 DEF CopiesFit
    <3>3. /\ Number(messages, Copies(x)) \in Nat /\ Number(calls, Taken(x)) \in Nat
          /\ Number(log[opened], Written(x)) \in Nat /\ Number(coming[opened], {x}) \in Nat
          /\ Number(calls', Taken(x)) \in Nat /\ Number(coming'[opened], {x}) \in Nat
          /\ Number(coming[opened], {x}) <= Number(coming'[opened], {x})
      BY <1>1, <1>3, <1>4, <3>1, DialogTypeIs, NumberSome
    <3>4. CASE c \in Taken(x)
      <4>1. c.op = "send" /\ c.text = x
        BY <3>4 DEF Taken
      <4>2. c.of = opened
        BY <1>1, <1>3, <2>1, <4>1 DEF CallsFit
      <4>3. Number(coming'[opened], {x}) = Number(coming[opened], {x}) + 1
        BY <1>4, <4>1, <4>2
      <4>4. Places(calls', 0, Taken(x)) \subseteq Places(calls, 0, Taken(x)) \cup {n}
        BY <1>3 DEF Places
      <4>5. Number(calls', Taken(x)) <= Number(calls, Taken(x)) + 1
        BY <1>1, <1>3, <4>4, NumberNear DEF Number
      <4>6. QED
        BY <3>2, <3>3, <4>3, <4>5
    <3>5. CASE c \notin Taken(x)
      <4>1. Places(calls', 0, Taken(x)) \subseteq Places(calls, 0, Taken(x))
        BY <1>3, <3>5 DEF Places
      <4>2. Number(calls', Taken(x)) <= Number(calls, Taken(x))
        BY <1>1, <1>3, <4>1, NumberSame DEF Number
      <4>3. QED
        BY <3>2, <3>3, <4>2
    <3>6. QED
      BY <3>4, <3>5
  <2>2. QED
    BY <2>1 DEF CopiesFit
<1>10. ShownFits'
  <2>1. LoadsOf(opened)' = {} => LoadsOf(opened) = {}
    BY <1>3 DEF LoadsOf
  <2>2. ASSUME opened # None, NEW m \in Nat, Complete(messages, m, Handled)
        PROVE  Complete(messages, m, Handled)'
    <3>1. opened \in Workspace
      BY <1>1, <2>2
    <3>2. \A x : /\ Number(coming[opened], {x}) \in Nat /\ Number(coming'[opened], {x}) \in Nat
                 /\ Number(coming[opened], {x}) <= Number(coming'[opened], {x})
      BY <1>4, <3>1
    <3>3. QED
      BY <1>1, <2>2, <3>1, <3>2, CompleteComing
  <2>3. QED
    BY <1>1, <2>1, <2>2 DEF ShownFits, InOrder
<1>11. QED
  BY <1>5, <1>6, <1>7, <1>8, <1>9, <1>10 DEF DialogInv

\* An entry is logged, and pushed to the dialog that shows its workspace.
LEMMA LineLogged ==
    ASSUME DialogInv, NEW w \in Workspace, NEW l \in Line,
           log' = [log EXCEPT ![w] = Append(@, l)],
           frames' = IF w = opened THEN Append(frames, Len(log[w]) + 1) ELSE frames,
           \/ l.who = "ai" /\ coming' = coming
           \/ /\ coming[w] # <<>> /\ l.who = "user" /\ l.text = Head(coming[w])
              /\ coming' = [coming EXCEPT ![w] = Tail(@)],
           UNCHANGED <<waiting, opened, draft, messages, calls, switched, crossed, unseen>>
    PROVE  DialogInv'
<1>1. /\ DialogType /\ CallsFit /\ FramesFit /\ EntriesFit /\ CopiesFit /\ ShownFits
      /\ calls \in Seq(DialogCall) /\ messages \in Seq(Bubble) /\ frames \in Seq(Nat)
      /\ opened \in Workspace \cup {None} /\ coming \in [Workspace -> Seq(Words)]
      /\ log \in [Workspace -> Seq(Line)] /\ None \notin Workspace
  BY DialogTypeIs DEF DialogInv, DialogType
<1>2. \A v \in Workspace : log[v] \in Seq(Line) /\ Len(log[v]) \in Nat /\ coming[v] \in Seq(Words)
  BY <1>1
<1>3. /\ log'[w] = Append(log[w], l) /\ Append(log[w], l) \in Seq(Line)
      /\ \A v \in Workspace : v # w => log'[v] = log[v]
  BY <1>1, <1>2
<1>4. /\ Len(log'[w]) = Len(log[w]) + 1
      /\ \A e \in 1 .. Len(log[w]) : log'[w][e] = log[w][e]
  BY <1>2, <1>3
<1>5. \A v \in Workspace : /\ Len(log'[v]) \in Nat /\ Len(log[v]) <= Len(log'[v])
                           /\ \A e \in 1 .. Len(log[v]) : log'[v][e] = log[v][e]
  BY <1>2, <1>3, <1>4
<1>6. log' \in [Workspace -> Seq(Line)]
  BY <1>1, <1>3
<1>7. coming' \in [Workspace -> Seq(Words)]
  <2>1. coming[w] # <<>> => Tail(coming[w]) \in Seq(Words)
    BY <1>2
  <2>2. QED
    BY <1>1, <2>1
<1>8. /\ frames' \in Seq(Nat)
      /\ w = opened => frames' = Append(frames, Len(log[w]) + 1)
      /\ w # opened => frames' = frames
  BY <1>1, <1>2
<1>9. DialogType'
  BY <1>1, <1>6, <1>7, <1>8 DEF DialogType
<1>10. opened # None => Handled' = Handled
  <2>1. CASE w = opened
    <3>1. Len(frames') = Len(frames) + 1 /\ Len(frames) \in Nat
      BY <1>1, <1>2, <1>8, <2>1
    <3>2. Handled' = Len(log'[w]) - Len(frames') /\ Handled = Len(log[w]) - Len(frames)
      BY <2>1 DEF Handled
    <3>3. Len(log'[w]) = Len(log[w]) + 1 /\ Len(log[w]) \in Nat
      BY <1>2, <1>4
    <3>4. QED
      BY <3>1, <3>2, <3>3
  <2>2. CASE w # opened /\ opened # None
    <3>1. frames' = frames /\ log'[opened] = log[opened]
      BY <1>1, <1>3, <1>8, <2>2
    <3>2. QED
      BY <3>1 DEF Handled
  <2>3. QED
    BY <2>1, <2>2
<1>11. FramesFit'
  <2>1. CASE opened = None
    BY <1>1, <1>8, <2>1 DEF FramesFit
  <2>2. CASE opened # None /\ w # opened
    BY <1>1, <1>8, <1>10, <2>2 DEF FramesFit
  <2>3. CASE opened # None /\ w = opened
    <3>1. PICK N \in Nat : N = Len(frames) /\ DOMAIN frames = 1 .. N
      BY <1>1
    <3>2. /\ DOMAIN frames' = 1 .. N + 1 /\ frames'[N + 1] = Len(log[w]) + 1
          /\ \A n \in 1 .. N : frames'[n] = frames[n]
      <4>1. \A y \in Nat : LET r == Append(frames, y)
                         IN  /\ DOMAIN r = 1 .. N + 1 /\ r[N + 1] = y
                             /\ \A n \in 1 .. N : r[n] = frames[n]
        BY <1>1, <3>1
      <4>2. Len(log[w]) + 1 \in Nat
        BY <1>2
      <4>3. QED
        BY <1>8, <2>3, <4>1, <4>2
    <3>3. Handled + (N + 1) = Len(log[w]) + 1
      <4>1. Handled = Len(log[w]) - N
        BY <2>3, <3>1 DEF Handled
      <4>2. Len(log[w]) \in Nat
        BY <1>2
      <4>3. \A y, z \in Nat : (y - z) + (z + 1) = y + 1
        OBVIOUS
      <4>4. QED
        BY <3>1, <4>1, <4>2, <4>3
    <3>4. Handled >= 0 /\ \A n \in 1 .. N : frames[n] = Handled + n
      BY <1>1, <2>3, <3>1 DEF FramesFit
    <3>5. \A n \in 1 .. N + 1 : n \in 1 .. N \/ n = N + 1
      OBVIOUS
    <3>6. \A n \in 1 .. N + 1 : frames'[n] = Handled + n
      BY <3>2, <3>3, <3>4, <3>5
    <3>7. QED
      BY <1>10, <2>3, <3>2, <3>4, <3>6 DEF FramesFit
  <2>4. QED
    BY <2>1, <2>2, <2>3
<1>12. CallsFit'
  <2>1. ~switched' => \A y \in Held(calls)' : y.op # "load" => y.of = opened'
    BY <1>1 DEF CallsFit, Held
  <2>2. ASSUME NEW y \in Held(calls), y.op = "load", y.served
        PROVE  y.to <= Len(log'[y.of])
    <3>1. y \in DialogCall
      BY <1>1 DEF Held
    <3>2. y.of \in Workspace /\ y.to \in Nat
      BY <3>1 DEF DialogCall
    <3>3. y.to <= Len(log[y.of])
      BY <1>1, <2>2 DEF CallsFit
    <3>4. QED
      BY <1>2, <1>5, <3>2, <3>3
  <2>3. LoadsOf(opened)' = LoadsOf(opened)
    BY DEF LoadsOf, Held
  <2>4. QED
    BY <1>1, <1>10, <2>1, <2>2, <2>3 DEF CallsFit, Held
<1>13. EntriesFit'
  <2>1. ASSUME opened # None, NEW n \in DOMAIN messages, messages[n].key # 0
        PROVE  /\ messages[n].key <= Len(log'[opened])
               /\ messages[n] = D!Entry(opened, messages[n].key)'
    <3>1. opened \in Workspace
      BY <1>1, <2>1
    <3>2. messages[n].key <= Len(log[opened]) /\ messages[n] = D!Entry(opened, messages[n].key)
      BY <1>1, <2>1 DEF EntriesFit
    <3>3. messages[n].key \in Nat
      <4>1. messages[n] \in Bubble
        BY <1>1
      <4>2. QED
        BY <4>1 DEF Bubble
    <3>4. messages[n].key \in 1 .. Len(log[opened])
      BY <1>2, <2>1, <3>1, <3>2, <3>3
    <3>5. log'[opened][messages[n].key] = log[opened][messages[n].key]
      BY <1>5, <3>1, <3>4
    <3>6. D!Entry(opened, messages[n].key)' = D!Entry(opened, messages[n].key)
      BY <3>5 DEF D!Entry
    <3>7. QED
      BY <1>2, <1>5, <3>1, <3>2, <3>3, <3>6
  <2>2. QED
    BY <2>1 DEF EntriesFit
<1>14. ASSUME opened # None, NEW x \in Words, NEW m \in Nat, m <= Len(log[opened])
       PROVE  NumberAfter(log[opened], m, Written(x)) + Number(coming[opened], {x})
                  <= NumberAfter(log'[opened], m, Written(x)) + Number(coming'[opened], {x})
  <2>1. opened \in Workspace /\ opened' = opened
    BY <1>1, <1>14
  <2>2. /\ NumberAfter(log[opened], m, Written(x)) \in Nat
        /\ Number(coming[opened], {x}) \in Nat
    BY <1>1, <2>1, DialogTypeIs
  <2>3. /\ NumberAfter(log'[opened], m, Written(x)) \in Nat
        /\ Number(coming'[opened], {x}) \in Nat
    <3>1. log'[opened] \in Seq(Line) /\ coming'[opened] \in Seq(Words)
      BY <1>6, <1>7, <2>1
    <3>2. QED
      BY <3>1, NumberIs, NumberSome
  <2>4. CASE opened # w
    <3>1. log'[opened] = log[opened] /\ coming'[opened] = coming[opened]
      BY <1>1, <1>3, <2>1, <2>4
    <3>2. QED
      BY <2>2, <3>1
  <2>5. CASE opened = w
    <3>1. /\ NumberAfter(log[opened], m, Written(x)) <= NumberAfter(log'[opened], m, Written(x))
          /\ l \in Written(x) => NumberAfter(log'[opened], m, Written(x))
                                     = NumberAfter(log[opened], m, Written(x)) + 1
      BY <1>2, <1>3, <1>14, <2>1, <2>5, NumberAppend
    <3>2. CASE coming' = coming
      BY <2>2, <2>3, <3>1, <3>2
    <3>3. CASE /\ coming[w] # <<>> /\ l.who = "user" /\ l.text = Head(coming[w])
               /\ coming' = [coming EXCEPT ![w] = Tail(@)]
      <4>1. coming'[opened] = Tail(coming[opened]) /\ coming[opened] # <<>>
        BY <1>1, <2>1, <2>5, <3>3
      <4>2. /\ Number(coming[opened], {x}) <= Number(coming'[opened], {x}) + 1
            /\ Head(coming[opened]) \notin {x} =>
                  Number(coming[opened], {x}) <= Number(coming'[opened], {x})
        BY <1>2, <2>1, <4>1, NumberTail
      <4>3. Head(coming[opened]) = x => l \in Written(x)
        BY <2>5, <3>3 DEF Written
      <4>4. QED
        BY <2>2, <2>3, <3>1, <4>2, <4>3
    <3>4. QED
      BY <3>2, <3>3
  <2>6. QED
    BY <2>4, <2>5
<1>15. CopiesFit'
  <2>1. ASSUME opened # None, ~switched, NEW x \in Words
        PROVE  Number(messages, Copies(x)) + Number(calls, Taken(x))
                   <= Number(log'[opened], Written(x)) + Number(coming'[opened], {x})
    <3>1. opened \in Workspace
      BY <1>1, <2>1
    <3>2. Number(messages, Copies(x)) + Number(calls, Taken(x))
             <= Number(log[opened], Written(x)) + Number(coming[opened], {x})
      BY <1>1, <2>1 DEF CopiesFit
    <3>3. Number(log[opened], Written(x)) + Number(coming[opened], {x})
             <= Number(log'[opened], Written(x)) + Number(coming'[opened], {x})
      BY <1>2, <1>14, <2>1, <3>1 DEF Number
    <3>4. /\ Number(messages, Copies(x)) \in Nat /\ Number(calls, Taken(x)) \in Nat
          /\ Number(log[opened], Written(x)) \in Nat /\ Number(coming[opened], {x}) \in Nat
      BY <1>1, <3>1, DialogTypeIs
    <3>5. Number(log'[opened], Written(x)) \in Nat /\ Number(coming'[opened], {x}) \in Nat
      <4>1. log'[opened] \in Seq(Line) /\ coming'[opened] \in Seq(Words)
        BY <1>6, <1>7, <3>1
      <4>2. QED
        BY <4>1, NumberSome
    <3>6. QED
      BY <3>2, <3>3, <3>4, <3>5
  <2>2. QED
    BY <2>1 DEF CopiesFit
<1>16. ASSUME opened # None, NEW m \in Nat, Complete(messages, m, Handled)
       PROVE  Complete(messages, m, Handled)'
  <2>1. opened \in Workspace /\ Handled' = Handled
    BY <1>1, <1>10, <1>16
  <2>2. m \in Handled .. Len(log[opened]) /\ Len(log[opened]) \in Nat /\ Handled \in Int
    BY <1>1, <1>2, <1>16, <2>1 DEF Complete, Handled
  <2>3. m \in Handled .. Len(log'[opened])
    BY <1>5, <2>1, <2>2
  <2>4. Handled >= 0
    BY <1>1, <1>16 DEF FramesFit
  <2>5. \A e \in Handled + 1 .. m : log'[opened][e] = log[opened][e]
    <3>1. \A e \in Handled + 1 .. m : e \in 1 .. Len(log[opened])
      BY <2>2, <2>4
    <3>2. QED
      BY <1>5, <2>1, <3>1
  <2>6. ASSUME NEW x \in Words
        PROVE  Number(messages, Copies(x))
                   <= NumberAfter(log'[opened], m, Written(x)) + Number(coming'[opened], {x})
    <3>1. NumberAfter(log[opened], m, Written(x)) + Number(coming[opened], {x})
             <= NumberAfter(log'[opened], m, Written(x)) + Number(coming'[opened], {x})
      BY <1>14, <1>16, <2>2
    <3>2. Number(messages, Copies(x))
             <= NumberAfter(log[opened], m, Written(x)) + Number(coming[opened], {x})
      BY <1>16 DEF Complete
    <3>3. /\ Number(messages, Copies(x)) \in Nat /\ Number(coming[opened], {x}) \in Nat
          /\ NumberAfter(log[opened], m, Written(x)) \in Nat
      BY <1>1, <2>1, DialogTypeIs
    <3>4. NumberAfter(log'[opened], m, Written(x)) \in Nat /\ Number(coming'[opened], {x}) \in Nat
      <4>1. log'[opened] \in Seq(Line) /\ coming'[opened] \in Seq(Words)
        BY <1>6, <1>7, <2>1
      <4>2. QED
        BY <4>1, NumberIs, NumberSome
    <3>5. QED
      BY <3>1, <3>2, <3>3, <3>4
  <2>7. QED
    BY <1>16, <2>1, <2>3, <2>5, <2>6 DEF Complete
<1>17. ShownFits'
  <2>1. LoadsOf(opened)' = LoadsOf(opened)
    BY DEF LoadsOf, Held
  <2>2. QED
    BY <1>1, <1>16, <2>1 DEF ShownFits, InOrder
<1>18. QED
  BY <1>9, <1>11, <1>12, <1>13, <1>15, <1>17 DEF DialogInv

\* A message that waited is taken.
LEMMA MessageTaken ==
    ASSUME DialogInv, NEW w \in Workspace, waiting' = [waiting EXCEPT ![w] = None],
           coming' = [coming EXCEPT ![w] = Append(@, waiting[w])],
           UNCHANGED <<log, opened, draft, messages, frames, calls, switched, crossed, unseen>>
    PROVE  DialogInv'
<1>1. /\ DialogType /\ CallsFit /\ FramesFit /\ EntriesFit /\ CopiesFit /\ ShownFits
      /\ opened \in Workspace \cup {None} /\ waiting \in [Workspace -> Words]
      /\ waiting[w] \in Words /\ None \in Words
  BY DialogTypeIs DEF DialogInv, DialogType
<1>2. /\ coming' \in [Workspace -> Seq(Words)]
      /\ \A v \in Workspace : \A x :
            /\ Number(coming[v], {x}) \in Nat /\ Number(coming'[v], {x}) \in Nat
            /\ Number(coming[v], {x}) <= Number(coming'[v], {x})
  BY <1>1, ComingMore
<1>3. DialogType'
  BY <1>1, <1>2 DEF DialogType
<1>4. CallsFit' /\ FramesFit' /\ EntriesFit'
  <2>1. Handled' = Handled
    BY DEF Handled
  <2>2. QED
    BY <1>1, <2>1 DEF CallsFit, FramesFit, EntriesFit, LoadsOf, Held, D!Entry
<1>5. CopiesFit'
  <2>1. ASSUME opened # None, ~switched, NEW x \in Words
        PROVE  Number(messages, Copies(x)) + Number(calls, Taken(x))
                   <= Number(log[opened], Written(x)) + Number(coming'[opened], {x})
    <3>1. opened \in Workspace
      BY <1>1, <2>1
    <3>2. Number(messages, Copies(x)) + Number(calls, Taken(x))
             <= Number(log[opened], Written(x)) + Number(coming[opened], {x})
      BY <1>1, <2>1 DEF CopiesFit
    <3>3. /\ Number(messages, Copies(x)) \in Nat /\ Number(calls, Taken(x)) \in Nat
          /\ Number(log[opened], Written(x)) \in Nat /\ Number(coming[opened], {x}) \in Nat
      BY <1>1, <3>1, DialogTypeIs
    <3>4. /\ Number(coming'[opened], {x}) \in Nat
          /\ Number(coming[opened], {x}) <= Number(coming'[opened], {x})
      BY <1>2, <3>1
    <3>5. QED
      BY <3>2, <3>3, <3>4
  <2>2. QED
    BY <2>1 DEF CopiesFit
<1>6. ShownFits'
  <2>1. ASSUME opened # None, NEW m \in Nat, Complete(messages, m, Handled)
        PROVE  Complete(messages, m, Handled)'
    <3>1. opened \in Workspace
      BY <1>1, <2>1
    <3>2. \A x : /\ Number(coming[opened], {x}) \in Nat /\ Number(coming'[opened], {x}) \in Nat
                 /\ Number(coming[opened], {x}) <= Number(coming'[opened], {x})
      BY <1>2, <3>1
    <3>3. QED
      BY <1>1, <2>1, <3>1, <3>2, CompleteComing
  <2>2. LoadsOf(opened)' = LoadsOf(opened)
    BY DEF LoadsOf, Held
  <2>3. QED
    BY <1>1, <2>1, <2>2 DEF ShownFits, InOrder
<1>7. QED
  BY <1>3, <1>4, <1>5, <1>6 DEF DialogInv

\* The dialog opens: it shows nothing, and waits for its messages.
LEMMA DialogOpens ==
    ASSUME DialogInv, opened = None, NEW w \in Workspace, opened' = w, draft' \in Words,
           messages' = <<>>, crossed => crossed',
           NEW c \in DialogCall, c.op = "load", c.of = w, ~c.served,
           \* A load of the workspace is still under way, or none is.
           crossed' \/ LoadsOf(w) = {},
           calls' = Append(calls, c),
           UNCHANGED <<log, coming, waiting, frames, switched>>
    PROVE  DialogInv'
<1>1. /\ DialogType /\ CallsFit /\ FramesFit
      /\ calls \in Seq(DialogCall) /\ w # None /\ frames = <<>>
      /\ Len(log[w]) \in Nat /\ \A x : /\ Number(log[w], Written(x)) \in Nat
                                       /\ Number(coming[w], {x}) \in Nat
  BY DialogTypeIs DEF DialogInv, DialogType, FramesFit
<1>2. calls' \in Seq(DialogCall) /\ Held(calls)' = Held(calls) \cup {c}
  <2>1. /\ Append(calls, c) \in Seq(DialogCall)
        /\ Held(Append(calls, c)) = Held(calls) \cup {c}
    BY <1>1, DialogCalls
  <2>2. Held(calls)' = Held(calls')
    BY DEF Held
  <2>3. QED
    BY <2>1, <2>2
<1>3. DialogType'
  BY <1>1, <1>2 DEF DialogType
<1>4. \A y \in Held(calls) : y \in DialogCall
  BY <1>1 DEF Held
<1>5. ~switched => \A y \in Held(calls) : y.op = "load"
  <2>1. ~switched => \A y \in Held(calls) : y.op # "load" => y.of = None
    BY <1>1 DEF CallsFit
  <2>2. \A y \in Held(calls) : y.of # None
    BY <1>4, DialogTypeIs, <1>1 DEF DialogCall
  <2>3. QED
    BY <2>1, <2>2
<1>6. CallsFit'
  <2>1. ~switched' => \A y \in Held(calls)' : y.op # "load" => y.of = opened'
    BY <1>2, <1>5
  <2>2. \A y \in Held(calls)' : (y.op = "load" /\ y.served) => y.to <= Len(log'[y.of])
    BY <1>1, <1>2 DEF CallsFit
  <2>3. (opened' # None /\ ~crossed') =>
           \A y \in LoadsOf(opened)' : y.served => y.to >= Handled'
    <3>1. LoadsOf(opened)' \subseteq LoadsOf(w) \cup {c}
      BY <1>2 DEF LoadsOf
    <3>2. QED
      BY <3>1
  <2>4. QED
    BY <2>1, <2>2, <2>3 DEF CallsFit
<1>7. FramesFit'
  <2>1. Handled' = Len(log[w]) - Len(frames) /\ Len(frames) = 0 /\ DOMAIN frames = {}
    BY <1>1 DEF Handled
  <2>2. Handled' >= 0
    BY <1>1, <2>1
  <2>3. QED
    BY <1>1, <2>1, <2>2 DEF FramesFit
<1>8. messages' \in Seq(Bubble) /\ DOMAIN messages' = {}
  OBVIOUS
<1>9. EntriesFit'
  BY <1>8 DEF EntriesFit
<1>10. CopiesFit'
  <2>1. ASSUME ~switched, NEW x \in Words
        PROVE  Number(messages', Copies(x)) + Number(calls', Taken(x))
                   <= Number(log[w], Written(x)) + Number(coming[w], {x})
    <3>1. Number(messages', Copies(x)) = 0
      BY <1>8, NumberSome
    <3>2. \A y \in Held(calls)' : y \notin Taken(x)
      BY <1>2, <1>5, <2>1 DEF Taken
    <3>3. \A n \in DOMAIN calls' : calls'[n] \notin Taken(x)
      BY <3>2 DEF Held
    <3>4. Number(calls', Taken(x)) = 0
      BY <1>2, <3>3, NumberSome
    <3>5. QED
      BY <1>1, <3>1, <3>4
  <2>2. QED
    BY <2>1 DEF CopiesFit
<1>11. ShownFits'
  <2>1. c \in LoadsOf(opened)'
    BY <1>2 DEF LoadsOf
  <2>2. QED
    BY <2>1 DEF ShownFits
<1>12. QED
  BY <1>3, <1>6, <1>7, <1>9, <1>10, <1>11 DEF DialogInv

\* The dialog closes; `switched' remembers a request that it leaves under way.
LEMMA DialogCloses ==
    ASSUME DialogInv, opened' = None, draft' \in Words, frames' = <<>>,
           switched => switched', (\E y \in Held(calls) : y.op # "load") => switched',
           UNCHANGED <<log, coming, waiting, messages, calls, crossed, unseen>>
    PROVE  DialogInv'
<1>1. DialogType /\ CallsFit
  BY DEF DialogInv
<1>2. DialogType'
  BY <1>1 DEF DialogType
<1>3. CallsFit'
  BY <1>1 DEF CallsFit, Held
<1>4. QED
  BY <1>2, <1>3 DEF DialogInv, FramesFit, EntriesFit, CopiesFit, ShownFits

\* What changes is none of this.
LEMMA DialogRests ==
    ASSUME DialogInv, draft' \in Words,
           UNCHANGED <<log, coming, waiting, opened, messages, frames, calls, switched, crossed,
                       unseen>>
    PROVE  DialogInv'
<1>1. Handled' = Handled /\ Held(calls)' = Held(calls) /\ LoadsOf(opened)' = LoadsOf(opened)
  BY DEF Handled, Held, LoadsOf
<1>2. \A m : Complete(messages, m, Handled)' <=> Complete(messages, m, Handled)
  BY <1>1 DEF Complete
<1>3. DialogType' /\ FramesFit' /\ EntriesFit' /\ CopiesFit'
  BY <1>1 DEF DialogInv, DialogType, FramesFit, EntriesFit, CopiesFit, D!Entry
<1>4. CallsFit'
  BY <1>1 DEF DialogInv, CallsFit
<1>5. ShownFits'
  BY <1>1, <1>2 DEF DialogInv, ShownFits, InOrder
<1>6. QED
  BY <1>3, <1>4, <1>5 DEF DialogInv

\* A frame is handled.
LEMMA FrameHandled ==
    ASSUME DialogInv, frames # <<>>, frames' = Tail(frames),
           messages' = D!Appended(messages, D!Entry(opened, Head(frames))),
           unseen' = (unseen \/ D!Entry(opened, Head(frames))
                                    \notin {messages'[n] : n \in DOMAIN messages'}),
           crossed' = (crossed \/ \E n \in D!Loads(opened) : calls[n].served),
           UNCHANGED <<log, coming, waiting, opened, draft, calls, switched>>
    PROVE  DialogInv'
<1> DEFINE e == Head(frames)
           x == D!Entry(opened, e)
           r == D!Appended(messages, x)
<1>1. /\ DialogType /\ CallsFit /\ FramesFit /\ EntriesFit /\ CopiesFit /\ ShownFits
      /\ calls \in Seq(DialogCall) /\ messages \in Seq(Bubble) /\ frames \in Seq(Nat)
  BY DEF DialogInv, DialogType
<1>2. opened # None /\ opened \in Workspace
  BY <1>1 DEF FramesFit, DialogType
<1>3. Len(log[opened]) \in Nat
  BY <1>1, <1>2, DialogTypeIs
<1>4. PICK N \in Nat : N = Len(frames) /\ DOMAIN frames = 1 .. N /\ N > 0
  BY <1>1
<1>5. /\ frames' \in Seq(Nat) /\ Len(frames') = N - 1 /\ DOMAIN frames' = 1 .. N - 1
      /\ \A n \in 1 .. N - 1 : frames'[n] = frames[n + 1]
      /\ e = frames[1]
  BY <1>1, <1>4
<1>6. /\ Handled = Len(log[opened]) - N /\ Handled >= 0
      /\ \A n \in 1 .. N : frames[n] = Handled + n
  BY <1>1, <1>2, <1>4 DEF FramesFit, Handled
<1>7. Handled \in Nat /\ e = Handled + 1 /\ e \in 1 .. Len(log[opened])
  <2>1. 1 \in 1 .. N
    BY <1>4
  <2>2. e = Handled + 1
    BY <1>5, <1>6, <2>1
  <2> HIDE DEF e
  <2>3. QED
    BY <1>3, <1>4, <1>6, <2>2
<1>8. Handled' = e
  <2>1. Handled' = Len(log[opened]) - (N - 1)
    BY <1>5 DEF Handled
  <2> HIDE DEF e
  <2>2. QED
    BY <1>3, <1>4, <1>6, <1>7, <2>1
<1>9. x \in Bubble /\ x.key = e
  BY <1>1, <1>2, <1>7, EntryIs
<1> HIDE DEF e
<1>10. FramesFit'
  <2>1. \A n \in 1 .. N - 1 : n + 1 \in 1 .. N
    BY <1>4
  <2>2. \A n \in 1 .. N - 1 : frames'[n] = Handled + (n + 1)
    BY <1>5, <1>6, <2>1
  <2>3. \A n \in 1 .. N - 1 : frames'[n] = e + n
    BY <1>4, <1>7, <2>2
  <2>4. QED
    BY <1>2, <1>5, <1>7, <1>8, <2>3 DEF FramesFit
<1>11. OnlyBrings(messages, x, r)
  <2>1. x.key # 0
    BY <1>3, <1>7, <1>9
  <2>2. QED
    BY <1>1, <1>9, <2>1, AppendedIs
<1>12. messages' = r
  BY DEF e
<1> HIDE DEF x
<1>13. r \in Seq(Bubble) /\ \A y : Number(r, Copies(y)) <= Number(messages, Copies(y))
  BY <1>11 DEF OnlyBrings
<1>14. \A n \in DOMAIN r : r[n] = x \/ \E l \in DOMAIN messages : r[n] = messages[l]
  BY <1>11 DEF OnlyBrings
<1> HIDE DEF r
<1>15. DialogType'
  BY <1>1, <1>5, <1>12, <1>13 DEF DialogType
<1>16. CallsFit'
  <2>1. ~switched' => \A y \in Held(calls)' : y.op # "load" => y.of = opened'
    BY <1>1 DEF CallsFit, Held
  <2>2. \A y \in Held(calls)' : (y.op = "load" /\ y.served) => y.to <= Len(log'[y.of])
    BY <1>1 DEF CallsFit, Held
  <2>3. ASSUME ~crossed', NEW y \in LoadsOf(opened), y.served PROVE FALSE
    <3>1. PICK n \in DOMAIN calls : y = calls[n]
      BY <2>3 DEF LoadsOf, Held
    <3>2. n \in D!Loads(opened)
      BY <2>3, <3>1 DEF D!Loads, LoadsOf
    <3>3. QED
      BY <2>3, <3>1, <3>2
  <2>4. LoadsOf(opened)' = LoadsOf(opened)
    BY DEF LoadsOf, Held
  <2>5. QED
    BY <2>1, <2>2, <2>3, <2>4 DEF CallsFit
<1>17. EntriesFit'
  <2>1. \A n \in DOMAIN r : r[n].key # 0 => /\ r[n].key <= Len(log[opened])
                                            /\ r[n] = D!Entry(opened, r[n].key)
    <3> TAKE n \in DOMAIN r
    <3>1. CASE r[n] = x
      BY <1>3, <1>7, <1>9, <3>1 DEF x
    <3>2. CASE \E l \in DOMAIN messages : r[n] = messages[l]
      BY <1>1, <1>2, <3>2 DEF EntriesFit
    <3>3. QED
      BY <1>14, <3>1, <3>2
  <2>2. QED
    BY <1>12, <2>1 DEF EntriesFit, D!Entry
<1>18. CopiesFit'
  <2>1. ASSUME ~switched, NEW y \in Words
        PROVE  Number(r, Copies(y)) + Number(calls, Taken(y))
                   <= Number(log[opened], Written(y)) + Number(coming[opened], {y})
    <3>1. Number(messages, Copies(y)) + Number(calls, Taken(y))
             <= Number(log[opened], Written(y)) + Number(coming[opened], {y})
      BY <1>1, <1>2, <2>1 DEF CopiesFit
    <3>2. /\ Number(messages, Copies(y)) \in Nat /\ Number(calls, Taken(y)) \in Nat
          /\ Number(log[opened], Written(y)) \in Nat /\ Number(coming[opened], {y}) \in Nat
      BY <1>1, <1>2, DialogTypeIs
    <3>3. Number(r, Copies(y)) \in Nat /\ Number(r, Copies(y)) <= Number(messages, Copies(y))
      BY <1>13, NumberSome
    <3>4. QED
      BY <3>1, <3>2, <3>3
  <2>2. QED
    BY <1>12, <2>1 DEF CopiesFit
<1>19. ShownFits'
  <2>1. ASSUME ~switched, ~crossed', ~unseen', LoadsOf(opened) = {}
        PROVE  InOrder(r) /\ \E l \in Nat : Complete(r, l, e)
    <3>1. ~crossed /\ ~unseen
      BY <2>1
    <3>2. InOrder(messages) /\ \E m \in Nat : Complete(messages, m, Handled)
      BY <1>1, <1>2, <2>1, <3>1 DEF ShownFits
    <3>3. PICK m \in Nat : Complete(messages, m, Handled)
      BY <3>2
    <3>4. x \in {messages'[n] : n \in DOMAIN messages'}
      BY <2>1 DEF x, e
    <3>5. \E n \in DOMAIN r : r[n] = x
      BY <1>12, <3>4
    <3>6. \E n \in DOMAIN D!Appended(messages, D!Entry(opened, e)) :
             D!Appended(messages, D!Entry(opened, e))[n] = D!Entry(opened, e)
      BY <3>5 DEF r, x
    <3>7. LET s == D!Appended(messages, D!Entry(opened, e))
          IN  InOrder(s) /\ \E l \in Nat : Complete(s, l, e)
      BY <1>1, <1>2, <1>7, <3>2, <3>3, <3>6, FrameShown
    <3>8. QED
      BY <3>7 DEF r, x
  <2>2. LoadsOf(opened)' = LoadsOf(opened)
    BY DEF LoadsOf, Held
  <2>3. InOrder(messages)' <=> InOrder(r)
    BY <1>12 DEF InOrder
  <2>4. \A m : Complete(messages, m, Handled)' <=> Complete(r, m, e)
    BY <1>8, <1>12 DEF Complete
  <2>5. QED
    BY <2>1, <2>2, <2>3, <2>4 DEF ShownFits
<1>20. QED
  BY <1>10, <1>15, <1>16, <1>17, <1>18, <1>19 DEF DialogInv

\* The dialog that opens first shows nothing and has asked for nothing.
LEMMA InitDialog == D!DialogInit => DialogInv /\ MarksFit
<1> SUFFICES ASSUME D!DialogInit PROVE DialogInv /\ MarksFit
  OBVIOUS
<1> USE DEF D!DialogInit
<1>1. None \in Words
  BY DEF Words
<1>2. [who |-> "ai", text |-> None] \in Line
  BY <1>1 DEF Line
<1>3. DialogType
  <2>1. log \in [Workspace -> Seq(Line)]
    <3> DEFINE l == [who |-> "ai", text |-> None]
    <3> HIDE DEF l
    <3>1. l \in Line
      BY <1>2 DEF l
    <3>2. <<l>> \in Seq(Line)
      BY <3>1
    <3>3. log = [w \in Workspace |-> <<l>>]
      BY DEF l
    <3>4. QED
      BY <3>2, <3>3
  <2>2. QED
    BY <1>1, <2>1 DEF DialogType
<1>4. CallsFit /\ FramesFit /\ EntriesFit /\ CopiesFit /\ ShownFits
  <2>1. Held(calls) = {}
    BY HeldFew
  <2>2. QED
    BY <2>1 DEF CallsFit, FramesFit, EntriesFit, CopiesFit, ShownFits
<1>5. QED
  BY <1>3, <1>4 DEF DialogInv, MarksFit

\* A request as it is sent
NewCall(op, w, y) ==
    [op |-> op, of |-> w, text |-> y, served |-> FALSE, said |-> None, to |-> 0]

\* It is a request, and not served yet.
LEMMA RequestIs ==
    \A op \in {"load", "send", "queue", "cancel", "queue status"}, w \in Workspace, y \in Words :
       /\ NewCall(op, w, y) \in DialogCall /\ NewCall(op, w, y).op = op
       /\ NewCall(op, w, y).of = w /\ ~NewCall(op, w, y).served
  BY DEF DialogCall, Words, NewCall

\* A request of the open dialog
LEMMA Asks ==
    ASSUME DialogInv, opened \in Workspace, crossed => crossed', draft' \in Words,
           NEW op \in {"load", "send", "queue", "cancel", "queue status"}, NEW y \in Words,
           calls' = Append(calls, NewCall(op, opened, y)),
           UNCHANGED <<log, coming, waiting, opened, messages, frames, switched, unseen>>
    PROVE  DialogInv'
<1>1. opened # None
  BY DialogTypeIs DEF DialogInv
<1>2. PICK c \in DialogCall : /\ c = NewCall(op, opened, y) /\ c.of = opened /\ ~c.served
                              /\ calls' = Append(calls, c)
  <2>1. /\ NewCall(op, opened, y) \in DialogCall /\ NewCall(op, opened, y).of = opened
        /\ ~NewCall(op, opened, y).served
    <3>1. \A w \in Workspace : /\ NewCall(op, w, y) \in DialogCall /\ NewCall(op, w, y).of = w
                               /\ ~NewCall(op, w, y).served
      BY DEF DialogCall, Words, NewCall
    <3>2. QED
      BY <3>1
  <2>2. QED
    BY <2>1
<1>3. QED
  BY <1>1, <1>2, CallSent

\* What the user does in the dialog preserves the invariant.
LEMMA UserActs ==
    ASSUME DialogInv, MarksFit,
           \/ \E w \in Workspace : D!OpenDialog(w) \/ D!StatusChanges(w)
           \/ D!Refresh \/ D!AskQueue \/ D!CloseDialog \/ D!CancelQueue
           \/ \E y \in Text : D!Type(y) \/ D!ClickButton(y)
           \/ \E mode \in {"send", "queue"} : D!Send(mode)
    PROVE  DialogInv' /\ MarksFit'
<1>1. /\ DialogType /\ draft \in Words /\ opened \in Workspace \cup {None}
      /\ calls \in Seq(DialogCall)
      /\ None \in Words /\ None \notin Workspace /\ Text \subseteq Words
  BY DialogTypeIs DEF DialogInv, DialogType, Words
<1>2. ASSUME NEW w \in Workspace, D!OpenDialog(w) PROVE DialogInv' /\ MarksFit'
  <2>1. /\ opened = None /\ opened' = w /\ draft' = None /\ messages' = <<>>
        /\ D!Load(calls, w) /\ UNCHANGED <<log, coming, waiting, frames, switched, running, queue>>
    BY <1>2 DEF D!OpenDialog, D!OpensEmpty, D!logs, D!marks
  <2>2. calls' = Append(calls, NewCall("load", w, None))
    BY <2>1 DEF D!Load, D!Call, NewCall
  <2>3. (crossed => crossed') /\ (crossed' \/ LoadsOf(w) = {})
    <3>1. crossed' = (crossed \/ \E n \in DOMAIN calls : calls[n].op = "load" /\ calls[n].of = w)
      BY <2>1 DEF D!Load
    <3>2. QED
      BY <3>1 DEF LoadsOf, Held
  <2>4. PICK c \in DialogCall : /\ c = NewCall("load", w, None) /\ c.op = "load" /\ c.of = w
                                /\ ~c.served /\ calls' = Append(calls, c)
    <3>1. /\ NewCall("load", w, None) \in DialogCall /\ NewCall("load", w, None).op = "load"
          /\ NewCall("load", w, None).of = w /\ ~NewCall("load", w, None).served
      BY <1>1, RequestIs
    <3>2. QED
      BY <2>2, <3>1
  <2>5. DialogInv'
    BY <1>1, <2>1, <2>3, <2>4, DialogOpens
  <2>6. QED
    BY <2>1, <2>5 DEF MarksFit
<1>3. ASSUME D!Refresh PROVE DialogInv' /\ MarksFit'
  <2>1. /\ opened \in Workspace /\ D!Load(calls, opened)
        /\ UNCHANGED <<log, coming, waiting, opened, draft, messages, frames, switched, unseen,
                       running, queue>>
    BY <1>1, <1>3 DEF D!Refresh, D!logs, D!marks
  <2>2. calls' = Append(calls, NewCall("load", opened, None)) /\ (crossed => crossed')
    BY <2>1 DEF D!Load, D!Call, NewCall
  <2>3. DialogInv'
    BY <1>1, <2>1, <2>2, Asks
  <2>4. QED
    BY <2>1, <2>3 DEF MarksFit
<1>4. ASSUME NEW op \in {"send", "queue", "cancel", "queue status"}, NEW y \in Words,
             opened \in Workspace, D!Call(calls, op, opened, y),
             UNCHANGED <<log, coming, waiting, opened, draft, messages, frames, switched,
                         crossed, unseen, running, queue>>
      PROVE  DialogInv' /\ MarksFit'
  <2>1. calls' = Append(calls, NewCall(op, opened, y))
    BY <1>4 DEF D!Call, NewCall
  <2>2. DialogInv'
    BY <1>1, <1>4, <2>1, Asks
  <2>3. QED
    BY <1>4, <2>2 DEF MarksFit
<1>5. ASSUME D!AskQueue PROVE DialogInv' /\ MarksFit'
  <2>1. /\ opened \in Workspace /\ D!Call(calls, "queue status", opened, None)
        /\ UNCHANGED <<log, coming, waiting, opened, draft, messages, frames, switched,
                       crossed, unseen, running, queue>>
    BY <1>5 DEF D!AskQueue, D!logs, D!marks, MarksFit
  <2>2. QED
    BY <1>1, <1>4, <2>1
<1>6. ASSUME D!CancelQueue PROVE DialogInv' /\ MarksFit'
  <2>1. /\ opened \in Workspace /\ D!Call(calls, "cancel", opened, None)
        /\ UNCHANGED <<log, coming, waiting, opened, draft, messages, frames, switched,
                       crossed, unseen, running, queue>>
    BY <1>6 DEF D!CancelQueue, D!logs, D!marks, MarksFit
  <2>2. QED
    BY <1>1, <1>4, <2>1
<1>7. ASSUME NEW y \in Text, D!ClickButton(y) PROVE DialogInv' /\ MarksFit'
  <2>1. /\ opened \in Workspace /\ D!Call(calls, "send", opened, y)
        /\ UNCHANGED <<log, coming, waiting, opened, draft, messages, frames, switched,
                       crossed, unseen, running, queue>>
    BY <1>1, <1>7 DEF D!ClickButton, D!logs, D!marks
  <2>2. QED
    BY <1>1, <1>4, <2>1
<1>8. ASSUME NEW mode \in {"send", "queue"}, D!Send(mode) PROVE DialogInv' /\ MarksFit'
  <2>1. /\ opened \in Workspace /\ D!Call(calls, mode, opened, draft)
        /\ UNCHANGED <<log, coming, waiting, opened, draft, messages, frames, switched,
                       crossed, unseen, running, queue>>
    BY <1>1, <1>8 DEF D!Send, D!logs, D!marks
  <2>2. QED
    BY <1>1, <1>4, <2>1
<1>9. ASSUME D!CloseDialog PROVE DialogInv' /\ MarksFit'
  <2>1. /\ opened' = None /\ draft' = None /\ frames' = <<>>
        /\ switched' = (switched \/ \E n \in DOMAIN calls : calls[n].op # "load")
        /\ UNCHANGED <<log, coming, waiting, messages, calls, crossed, unseen, running, queue>>
    BY <1>9 DEF D!CloseDialog, D!logs
  <2>2. (\E y \in Held(calls) : y.op # "load") => switched'
    BY <2>1 DEF Held
  <2>3. DialogInv'
    BY <1>1, <2>1, <2>2, DialogCloses
  <2>4. QED
    BY <2>1, <2>3 DEF MarksFit
<1>10. ASSUME NEW y \in Text, D!Type(y) PROVE DialogInv' /\ MarksFit'
  <2>1. /\ draft' = y
        /\ UNCHANGED <<log, coming, waiting, opened, messages, frames, calls, switched, crossed,
                       unseen, running, queue>>
    BY <1>10 DEF D!Type, D!logs, D!marks
  <2>2. DialogInv'
    BY <1>1, <2>1, DialogRests
  <2>3. QED
    BY <2>1, <2>2 DEF MarksFit
<1>11. ASSUME NEW w \in Workspace, D!StatusChanges(w) PROVE DialogInv' /\ MarksFit'
  <2>1. /\ running' = (IF w \in running THEN running \ {w} ELSE running \cup {w})
        /\ UNCHANGED <<log, coming, waiting, opened, draft, messages, frames, calls, switched,
                       crossed, unseen, queue>>
    BY <1>11 DEF D!StatusChanges, D!logs, D!marks
  <2>2. DialogInv'
    BY <1>1, <2>1, DialogRests
  <2>3. QED
    BY <2>1, <2>2 DEF MarksFit
<1>12. QED
  BY <1>2, <1>3, <1>5, <1>6, <1>7, <1>8, <1>9, <1>10, <1>11

\* What the server does with the requests and the messages preserves the invariant.
LEMMA ServerActs ==
    ASSUME DialogInv, MarksFit,
           \/ \E w \in Workspace : D!Persisted(w) \/ D!Replied(w) \/ D!QueueRuns(w)
           \/ \E n \in DOMAIN calls : D!Serve(n)
    PROVE  DialogInv' /\ MarksFit'
<1>1. /\ DialogType /\ calls \in Seq(DialogCall) /\ None \in Words
      /\ waiting \in [Workspace -> Words] /\ coming \in [Workspace -> Seq(Words)]
      /\ draft \in Words
      /\ \A w \in Workspace : waiting[w] \in Words /\ Len(log[w]) \in Nat
  BY DialogTypeIs DEF DialogInv, DialogType
<1>2. ASSUME NEW w \in Workspace, D!Persisted(w) PROVE DialogInv' /\ MarksFit'
  <2> DEFINE l0 == [who |-> "user", text |-> Head(coming[w])]
  <2>1. l0 \in Line /\ l0.who = "user" /\ l0.text = Head(coming[w])
    <3>1. coming[w] \in Seq(Words) /\ coming[w] # <<>>
      BY <1>1, <1>2 DEF D!Persisted
    <3>2. Head(coming[w]) \in Words
      BY <3>1
    <3>3. QED
      BY <3>2 DEF Line
  <2> HIDE DEF l0
  <2>2. /\ coming[w] # <<>> /\ coming' = [coming EXCEPT ![w] = Tail(@)]
        /\ log' = [log EXCEPT ![w] = Append(@, l0)]
        /\ frames' = IF w = opened THEN Append(frames, Len(log[w]) + 1) ELSE frames
        /\ UNCHANGED <<waiting, opened, draft, messages, calls, switched, crossed, unseen,
                       running, queue>>
    BY <1>2 DEF D!Persisted, D!Logged, D!marks, l0
  <2>3. PICK l \in Line : l = l0
    BY <2>1
  <2>4. DialogInv'
    BY <2>1, <2>2, <2>3, LineLogged
  <2>5. QED
    BY <2>2, <2>4 DEF MarksFit
<1>3. ASSUME NEW w \in Workspace, D!Replied(w) PROVE DialogInv' /\ MarksFit'
  <2> DEFINE l0 == [who |-> "ai", text |-> None]
  <2>1. l0 \in Line /\ l0.who = "ai"
    BY <1>1 DEF Line
  <2> HIDE DEF l0
  <2>2. /\ coming' = coming
        /\ log' = [log EXCEPT ![w] = Append(@, l0)]
        /\ frames' = IF w = opened THEN Append(frames, Len(log[w]) + 1) ELSE frames
        /\ UNCHANGED <<waiting, opened, draft, messages, calls, switched, crossed, unseen,
                       running, queue>>
    BY <1>3 DEF D!Replied, D!Logged, D!marks, l0
  <2>3. PICK l \in Line : l = l0
    BY <2>1
  <2>4. DialogInv'
    BY <2>1, <2>2, <2>3, LineLogged
  <2>5. QED
    BY <2>2, <2>4 DEF MarksFit
<1>4. ASSUME NEW w \in Workspace, D!QueueRuns(w) PROVE DialogInv' /\ MarksFit'
  <2>1. /\ waiting' = [waiting EXCEPT ![w] = None]
        /\ coming' = [coming EXCEPT ![w] = Append(@, waiting[w])]
        /\ UNCHANGED <<log, opened, draft, messages, frames, calls, switched, crossed, unseen,
                       running, queue>>
    BY <1>4 DEF D!QueueRuns, D!marks
  <2>2. DialogInv'
    BY <2>1, MessageTaken
  <2>3. QED
    BY <2>1, <2>2 DEF MarksFit
<1>5. ASSUME NEW n \in DOMAIN calls, D!Serve(n) PROVE DialogInv' /\ MarksFit'
  <2>1. /\ calls[n] \in DialogCall /\ calls[n].of \in Workspace /\ calls[n].text \in Words
        /\ calls[n].op \in {"load", "send", "queue", "cancel", "queue status"}
    <3>1. calls[n] \in DialogCall
      BY <1>1, DialogCalls
    <3>2. QED
      BY <3>1 DEF DialogCall
  <2> DEFINE Answer(said, to) == [calls[n] EXCEPT !.served = TRUE, !.said = said, !.to = to]
  <2>2. \A said \in Words, to \in Nat :
           /\ Answer(said, to) \in DialogCall /\ Answer(said, to).op = calls[n].op
           /\ Answer(said, to).of = calls[n].of /\ Answer(said, to).text = calls[n].text
           /\ Answer(said, to).to = to
    BY <2>1 DEF DialogCall
  <2>3. \A said, to :
           [calls EXCEPT ![n].served = TRUE, ![n].said = said, ![n].to = to]
               = [calls EXCEPT ![n] = Answer(said, to)]
    <3> TAKE said, to
    <3>1. PICK N \in Nat : DOMAIN calls = 1 .. N
      BY <1>1
    <3>2. QED
      BY <1>1, <2>1, <3>1 DEF DialogCall
  <2>4. /\ ~calls[n].served
        /\ UNCHANGED <<log, opened, draft, messages, frames, switched, crossed, unseen, running,
                       queue>>
    BY <1>5 DEF D!Serve, D!marks
  <2> HIDE DEF Answer
  <2>5. \E c \in DialogCall :
           /\ calls' = [calls EXCEPT ![n] = c]
           /\ c.op = calls[n].op /\ c.of = calls[n].of /\ c.text = calls[n].text
           /\ c.op = "load" => c.to = Len(log[c.of])
           /\ c.op = "send" => coming' = [coming EXCEPT ![c.of] = Append(@, c.text)]
           /\ c.op # "send" => coming' = coming
           /\ waiting' \in [Workspace -> Words]
    <3>1. CASE calls[n].op = "load"
      <4>1. /\ calls' = [calls EXCEPT ![n].served = TRUE, ![n].said = None,
                                      ![n].to = Len(log[calls[n].of])]
            /\ coming' = coming /\ waiting' = waiting
        BY <1>5, <3>1 DEF D!Serve
      <4>2. Len(log[calls[n].of]) \in Nat
        BY <1>1, <2>1
      <4>3. calls' = [calls EXCEPT ![n] = Answer(None, Len(log[calls[n].of]))]
        BY <2>3, <4>1
      <4>4. PICK c \in DialogCall : c = Answer(None, Len(log[calls[n].of]))
        BY <1>1, <2>2, <4>2
      <4>5. c.op = calls[n].op /\ c.of = calls[n].of /\ c.text = calls[n].text
            /\ c.to = Len(log[calls[n].of])
        BY <1>1, <2>2, <4>2, <4>4
      <4>6. QED
        BY <1>1, <3>1, <4>1, <4>3, <4>4, <4>5
    <3>2. CASE calls[n].op # "load"
      <4>1. \E said \in Words :
               /\ calls' = [calls EXCEPT ![n].served = TRUE, ![n].said = said, ![n].to = 0]
               /\ calls[n].op = "send" =>
                     coming' = [coming EXCEPT ![calls[n].of] = Append(@, calls[n].text)]
               /\ calls[n].op # "send" => coming' = coming
               /\ waiting' \in [Workspace -> Words]
        <5>1. CASE calls[n].op = "send"
          <6>1. /\ calls' = [calls EXCEPT ![n].served = TRUE, ![n].said = None, ![n].to = 0]
                /\ coming' = [coming EXCEPT ![calls[n].of] = Append(@, calls[n].text)]
                /\ waiting' = waiting
            BY <1>5, <5>1 DEF D!Serve
          <6>2. QED
            BY <1>1, <5>1, <6>1
        <5>2. CASE calls[n].op = "queue"
          <6>1. /\ calls' = [calls EXCEPT ![n].served = TRUE, ![n].said = None, ![n].to = 0]
                /\ waiting' = [waiting EXCEPT ![calls[n].of] = calls[n].text]
                /\ coming' = coming
            BY <1>5, <5>2 DEF D!Serve
          <6>2. waiting' \in [Workspace -> Words]
            BY <1>1, <2>1, <6>1
          <6>3. QED
            BY <1>1, <5>2, <6>1, <6>2
        <5>3. CASE calls[n].op = "cancel"
          <6>1. /\ calls' = [calls EXCEPT ![n].served = TRUE, ![n].said = None, ![n].to = 0]
                /\ waiting' = [waiting EXCEPT ![calls[n].of] = None]
                /\ coming' = coming
            BY <1>5, <5>3 DEF D!Serve
          <6>2. waiting' \in [Workspace -> Words]
            BY <1>1, <2>1, <6>1
          <6>3. QED
            BY <1>1, <5>3, <6>1, <6>2
        <5>4. CASE calls[n].op = "queue status"
          <6>1. /\ calls' = [calls EXCEPT ![n].served = TRUE, ![n].said = waiting[calls[n].of],
                                          ![n].to = 0]
                /\ coming' = coming /\ waiting' = waiting
            BY <1>5, <5>4 DEF D!Serve
          <6>2. waiting[calls[n].of] \in Words
            BY <1>1, <2>1
          <6>3. QED
            BY <1>1, <5>4, <6>1, <6>2
        <5>5. QED
          BY <2>1, <3>2, <5>1, <5>2, <5>3, <5>4
      <4>2. PICK said \in Words :
               /\ calls' = [calls EXCEPT ![n].served = TRUE, ![n].said = said, ![n].to = 0]
               /\ calls[n].op = "send" =>
                     coming' = [coming EXCEPT ![calls[n].of] = Append(@, calls[n].text)]
               /\ calls[n].op # "send" => coming' = coming
               /\ waiting' \in [Workspace -> Words]
        BY <4>1
      <4>3. calls' = [calls EXCEPT ![n] = Answer(said, 0)]
        <5>1. [calls EXCEPT ![n].served = TRUE, ![n].said = said, ![n].to = 0]
                 = [calls EXCEPT ![n] = Answer(said, 0)]
          <6>1. PICK N \in Nat : DOMAIN calls = 1 .. N
            BY <1>1
          <6>2. QED
            BY <1>1, <2>1, <6>1 DEF DialogCall, Answer
        <5>2. QED
          BY <4>2, <5>1
      <4>4. /\ Answer(said, 0) \in DialogCall /\ Answer(said, 0).op = calls[n].op
            /\ Answer(said, 0).of = calls[n].of /\ Answer(said, 0).text = calls[n].text
        <5>1. 0 \in Nat
          OBVIOUS
        <5>2. QED
          BY <2>2, <5>1
      <4>5. QED
        BY <3>2, <4>2, <4>3, <4>4
    <3>3. QED
      BY <3>1, <3>2
  <2>6. DialogInv'
    BY <2>4, <2>5, CallServed
  <2>7. QED
    BY <2>4, <2>6 DEF MarksFit
<1>6. QED
  BY <1>2, <1>3, <1>4, <1>5

\* An answer that arrives, or a request that fails, preserves the invariant.
LEMMA AnswersArrive ==
    ASSUME DialogInv, MarksFit, NEW n \in DOMAIN calls,
           \/ D!Sent(n) \/ D!Queued(n) \/ D!Cancelled(n) \/ D!QueueKnown(n) \/ D!Loaded(n)
           \/ D!Fails(n)
    PROVE  DialogInv' /\ MarksFit'
<1>1. /\ DialogType /\ calls \in Seq(DialogCall) /\ None \in Words /\ None \notin Workspace
      /\ draft \in Words /\ opened \in Workspace \cup {None}
  BY DialogTypeIs DEF DialogInv, DialogType
<1>2. /\ calls[n] \in DialogCall /\ calls[n].of \in Workspace /\ calls[n].text \in Words
      /\ calls[n].said \in Words /\ D!Rest(n) = Left(calls, n)
  <2>1. calls[n] \in DialogCall /\ D!RemoveAt(calls, n) = Left(calls, n)
    BY <1>1, DialogCalls
  <2>2. QED
    BY <2>1 DEF DialogCall, D!Rest
<1>3. ASSUME D!Sent(n) PROVE DialogInv' /\ MarksFit'
  <2>1. /\ calls[n].op = "send" /\ calls[n].served /\ draft' = None
        /\ UNCHANGED <<log, coming, waiting, opened, frames, switched, unseen, running, queue>>
    BY <1>3 DEF D!Sent, D!logs
  <2>2. MarksFit'
    BY <2>1 DEF MarksFit
  <2>3. CASE opened = None
    <3>1. calls' = Left(calls, n) /\ UNCHANGED <<messages, crossed>>
      BY <1>2, <1>3, <2>3 DEF D!Sent
    <3>2. DialogInv'
      BY <1>1, <2>1, <2>3, <3>1, CallAnswered
    <3>3. QED
      BY <2>2, <3>2
  <2>4. CASE opened # None
    <3>1. /\ messages' = Append(messages, D!Local(opened, calls[n].text))
          /\ D!Load(D!Rest(n), opened)
      BY <1>3, <2>4 DEF D!Sent
    <3>2. calls' = Append(Left(calls, n), NewCall("load", opened, None)) /\ (crossed => crossed')
      BY <1>2, <3>1 DEF D!Load, D!Call, NewCall
    <3>3. \A w \in Workspace :
             /\ NewCall("load", w, None) \in DialogCall /\ NewCall("load", w, None).op = "load"
             /\ NewCall("load", w, None).of = w /\ ~NewCall("load", w, None).served
      BY <1>1 DEF DialogCall, NewCall
    <3>4. PICK c \in DialogCall : /\ c.op = "load" /\ c.of = opened /\ ~c.served
                                  /\ calls' = Append(Left(calls, n), c)
      BY <1>1, <2>4, <3>2, <3>3
    <3>5. DialogInv'
      BY <1>1, <2>1, <2>4, <3>1, <3>2, <3>4, CopyShown
    <3>6. QED
      BY <2>2, <3>5
  <2>5. QED
    BY <2>3, <2>4
<1>4. ASSUME calls[n].op # "load", calls' = Left(calls, n), draft' \in Words,
             queue' \subseteq Workspace,
             UNCHANGED <<log, coming, waiting, opened, messages, frames, switched, crossed,
                         unseen, running>>
      PROVE  DialogInv' /\ MarksFit'
  <2>1. calls[n] \notin LoadsOf(opened)
    BY <1>4 DEF LoadsOf
  <2>2. DialogInv'
    BY <1>4, <2>1, CallAnswered
  <2>3. QED
    BY <1>4, <2>2 DEF MarksFit
<1>5. ASSUME D!Queued(n) PROVE DialogInv' /\ MarksFit'
  <2>1. /\ calls[n].op # "load" /\ calls' = Left(calls, n) /\ draft' = calls[n].text
        /\ queue' = queue \cup ({opened} \ {None})
        /\ UNCHANGED <<log, coming, waiting, opened, messages, frames, switched, crossed,
                       unseen, running>>
    BY <1>2, <1>5 DEF D!Queued, D!logs
  <2>2. queue' \subseteq Workspace
    BY <1>1, <2>1 DEF MarksFit
  <2>3. QED
    BY <1>2, <1>4, <2>1, <2>2
<1>6. ASSUME D!Cancelled(n) PROVE DialogInv' /\ MarksFit'
  <2>1. /\ calls[n].op # "load" /\ calls' = Left(calls, n) /\ queue' = queue \ {opened}
        /\ UNCHANGED <<log, coming, waiting, opened, draft, messages, frames, switched, crossed,
                       unseen, running>>
    BY <1>2, <1>6 DEF D!Cancelled, D!logs
  <2>2. queue' \subseteq Workspace
    BY <2>1 DEF MarksFit
  <2>3. QED
    BY <1>1, <1>4, <2>1, <2>2
<1>7. ASSUME D!QueueKnown(n) PROVE DialogInv' /\ MarksFit'
  <2>1. /\ calls[n].op # "load" /\ calls' = Left(calls, n)
        /\ draft' = calls[n].said \/ draft' = draft
        /\ queue' = queue \ {calls[n].of} \/ queue' = queue \cup {calls[n].of}
        /\ UNCHANGED <<log, coming, waiting, opened, messages, frames, switched, crossed,
                       unseen, running>>
    BY <1>2, <1>7 DEF D!QueueKnown, D!logs
  <2>2. draft' \in Words
    BY <1>1, <1>2, <2>1
  <2>3. queue' \subseteq Workspace
    BY <1>2, <2>1 DEF MarksFit
  <2>4. QED
    BY <1>4, <2>1, <2>2, <2>3
<1>8. ASSUME D!Loaded(n) PROVE DialogInv' /\ MarksFit'
  <2>1. /\ calls[n].op = "load" /\ calls[n].served /\ calls' = Left(calls, n)
        /\ UNCHANGED <<log, coming, waiting, opened, draft, frames, switched, crossed, running,
                       queue>>
    BY <1>2, <1>8 DEF D!Loaded, D!logs, D!marks
  <2>2. MarksFit'
    BY <2>1 DEF MarksFit
  <2>3. CASE calls[n].of = opened
    <3>1. opened # None
      BY <1>1, <1>2, <2>3
    <3>2. messages' = D!WithLocals(messages, D!Entries(opened, calls[n].to))
      BY <1>8, <2>3 DEF D!Loaded
    <3>3. DialogInv'
      BY <2>1, <2>3, <3>1, <3>2, LoadTaken
    <3>4. QED
      BY <2>2, <3>3
  <2>4. CASE calls[n].of # opened
    <3>1. UNCHANGED <<messages, unseen>>
      BY <1>8, <2>4 DEF D!Loaded
    <3>2. calls[n] \notin LoadsOf(opened)
      BY <2>4 DEF LoadsOf
    <3>3. DialogInv'
      BY <1>1, <2>1, <3>1, <3>2, CallAnswered
    <3>4. QED
      BY <2>2, <3>3
  <2>5. QED
    BY <2>3, <2>4
<1>9. ASSUME D!Fails(n) PROVE DialogInv' /\ MarksFit'
  <2>1. /\ calls' = Left(calls, n) /\ crossed' = (crossed \/ calls[n].op = "load")
        /\ UNCHANGED <<log, coming, waiting, opened, draft, messages, frames, switched, unseen,
                       running, queue>>
    BY <1>2, <1>9 DEF D!Fails, D!logs, D!marks
  <2>2. (crossed => crossed') /\ (calls[n] \in LoadsOf(opened) => crossed')
    BY <2>1 DEF LoadsOf
  <2>3. DialogInv'
    BY <1>1, <2>1, <2>2, CallAnswered
  <2>4. QED
    BY <2>1, <2>3 DEF MarksFit
<1>10. QED
  BY <1>3, <1>5, <1>6, <1>7, <1>8, <1>9

\* Every step of the dialog, of the server and of the requests preserves the invariant.
LEMMA NextDialog ==
    DialogInv /\ MarksFit /\ [D!DialogNext]_(D!dialogVars) => DialogInv' /\ MarksFit'
<1> SUFFICES ASSUME DialogInv, MarksFit, [D!DialogNext]_(D!dialogVars)
             PROVE  DialogInv' /\ MarksFit'
  OBVIOUS
<1>1. CASE \/ \E w \in Workspace : D!OpenDialog(w) \/ D!StatusChanges(w)
           \/ D!Refresh \/ D!AskQueue \/ D!CloseDialog \/ D!CancelQueue
           \/ \E y \in Text : D!Type(y) \/ D!ClickButton(y)
           \/ \E mode \in {"send", "queue"} : D!Send(mode)
  BY <1>1, UserActs
<1>2. CASE \/ \E w \in Workspace : D!Persisted(w) \/ D!Replied(w) \/ D!QueueRuns(w)
           \/ \E n \in DOMAIN calls : D!Serve(n)
  BY <1>2, ServerActs
<1>3. CASE \E n \in DOMAIN calls :
              \/ D!Sent(n) \/ D!Queued(n) \/ D!Cancelled(n) \/ D!QueueKnown(n) \/ D!Loaded(n)
              \/ D!Fails(n)
  BY <1>3, AnswersArrive
<1>4. CASE D!FrameArrives
  <2>1. /\ frames # <<>> /\ frames' = Tail(frames)
        /\ messages' = D!Appended(messages, D!Entry(opened, Head(frames)))
        /\ unseen' = (unseen \/ D!Entry(opened, Head(frames))
                                    \notin {messages'[n] : n \in DOMAIN messages'})
        /\ crossed' = (crossed \/ \E n \in D!Loads(opened) : calls[n].served)
        /\ UNCHANGED <<log, coming, waiting, opened, draft, calls, switched, running, queue>>
    BY <1>4 DEF D!FrameArrives, D!logs, D!marks
  <2>2. DialogInv'
    BY <2>1, FrameHandled
  <2>3. QED
    BY <2>1, <2>2 DEF MarksFit
<1>5. CASE UNCHANGED D!dialogVars
  <2>1. UNCHANGED <<log, coming, waiting, opened, draft, messages, frames, calls, switched,
                    crossed, unseen, running, queue>>
    BY <1>5 DEF D!dialogVars, D!logs, D!marks
  <2>2. draft' \in Words
    BY <2>1 DEF DialogInv, DialogType
  <2>3. DialogInv'
    BY <2>1, <2>2, DialogRests
  <2>4. QED
    BY <2>1, <2>3 DEF MarksFit
<1>6. QED
  BY <1>1, <1>2, <1>3, <1>4, <1>5 DEF D!DialogNext

\* A list that is complete up to the end of the log, with nothing to come, is the log.
LEMMA CompleteIsLog ==
    ASSUME DialogType, opened \in Workspace, EntriesFit, opened # None, InOrder(messages),
           coming[opened] = <<>>,
           NEW L \in Nat, L = Len(log[opened]), Complete(messages, L, L)
    PROVE  messages = D!Entries(opened, L)
<1>1. PICK N \in Nat : N = Len(messages) /\ DOMAIN messages = 1 .. N
  BY DEF DialogType
<1>2. messages \in [1 .. N -> Bubble]
  BY <1>1 DEF DialogType
<1>3. ASSUME NEW n \in 1 .. N, messages[n].key = 0 PROVE FALSE
  <2>1. messages[n] \in Bubble
    BY <1>2
  <2>2. messages[n].text \in Words
    BY <2>1 DEF Bubble
  <2> DEFINE x == messages[n].text
  <2>3. messages[n] \in Copies(x)
    BY <1>3, <2>1 DEF Copies
  <2> HIDE DEF x
  <2>4. Number(messages, Copies(x)) # 0
    <3>1. n \in DOMAIN messages /\ messages \in Seq(Bubble)
      BY <1>1 DEF DialogType
    <3>2. QED
      BY <2>3, <3>1, NumberSome
  <2>5. Number(messages, Copies(x))
           <= NumberAfter(log[opened], L, Written(x)) + Number(coming[opened], {x})
    BY <2>2 DEF Complete, x
  <2>6. NumberAfter(log[opened], L, Written(x)) = 0
    <3>1. log[opened] \in Seq(Line) /\ DOMAIN log[opened] = 1 .. L
      BY DEF DialogType
    <3>2. Places(log[opened], L, Written(x)) = {}
      BY <3>1 DEF Places
    <3>3. QED
      BY <3>1, <3>2, NumberIs
  <2>7. Number(coming[opened], {x}) = 0
    <3>1. coming[opened] \in Seq(Words) /\ DOMAIN coming[opened] = {}
      BY DEF DialogType
    <3>2. QED
      BY <3>1, NumberSome
  <2>8. Number(messages, Copies(x)) \in Nat
    BY DialogTypeIs
  <2>9. QED
    BY <2>4, <2>5, <2>6, <2>7, <2>8
<1> DEFINE keys == [n \in 1 .. N |-> messages[n].key]
<1>4. \A n \in 1 .. N : messages[n].key \in 1 .. L
  <2> TAKE n \in 1 .. N
  <2>1. messages[n] \in Bubble
    BY <1>2
  <2>2. messages[n].key \in Nat /\ messages[n].key # 0
    BY <1>3, <2>1 DEF Bubble
  <2>3. messages[n].key <= L
    BY <1>1 DEF Complete
  <2>4. QED
    BY <2>2, <2>3
<1>5. /\ keys \in [1 .. N -> 1 .. L]
      /\ \A n, m \in 1 .. N : n < m => keys[n] < keys[m]
      /\ \A l \in 1 .. L : \E n \in 1 .. N : keys[n] = l
  <2>1. keys \in [1 .. N -> 1 .. L]
    BY <1>4
  <2>2. \A n, m \in 1 .. N : n < m => messages[n].key < messages[m].key
    BY <1>1, <1>3 DEF InOrder
  <2>3. \A l \in 1 .. L : \E n \in 1 .. N : messages[n].key = l
    BY <1>1 DEF Complete
  <2>4. QED
    BY <2>1, <2>2, <2>3
<1>6. N = L /\ \A n \in 1 .. N : messages[n].key = n
  <2>1. \A n \in 1 .. N : keys[n] = messages[n].key
    OBVIOUS
  <2> HIDE DEF keys
  <2>2. N = L /\ \A n \in 1 .. N : keys[n] = n
    <3>1. Growing(keys, N, L)
      BY <1>5 DEF Growing
    <3>2. QED
      BY <3>1, GrowingIs
  <2>3. QED
    BY <2>1, <2>2
<1>7. \A n \in 1 .. L : messages[n] = D!Entry(opened, n)
  <2> TAKE n \in 1 .. L
  <2>1. n \in DOMAIN messages /\ messages[n].key = n /\ n # 0
    BY <1>1, <1>6
  <2>2. QED
    BY <2>1 DEF EntriesFit
<1>8. QED
  BY <1>2, <1>6, <1>7 DEF D!Entries

\* The invariant is what the dialog promises.
LEMMA DialogShows == DialogInv => ShowsItsOwn /\ DialogConverges
<1> SUFFICES ASSUME DialogInv PROVE ShowsItsOwn /\ DialogConverges
  OBVIOUS
<1>1. /\ DialogType /\ CallsFit /\ FramesFit /\ EntriesFit /\ CopiesFit /\ ShownFits
      /\ messages \in Seq(Bubble) /\ opened \in Workspace \cup {None}
      /\ calls \in Seq(DialogCall)
  BY DEF DialogInv, DialogType
<1>2. ASSUME opened # None, ~switched, NEW n \in DOMAIN messages
      PROVE  IF D!IsLocal(messages[n])
             THEN messages[n].text \in D!Texts(log[opened])
                     \cup {coming[opened][l] : l \in DOMAIN coming[opened]}
             ELSE /\ messages[n].key <= Len(log[opened])
                  /\ messages[n] = D!Entry(opened, messages[n].key)
  <2>1. CASE ~D!IsLocal(messages[n])
    BY <1>1, <1>2, <2>1 DEF EntriesFit, D!IsLocal
  <2>2. CASE D!IsLocal(messages[n])
    <3> DEFINE x == messages[n].text
    <3>1. opened \in Workspace
      BY <1>1, <1>2
    <3>2. messages[n] \in Bubble
      BY <1>1
    <3>3. x \in Words /\ messages[n] \in Copies(x)
      BY <2>2, <3>2 DEF Bubble, Copies, D!IsLocal
    <3> HIDE DEF x
    <3>4. Number(messages, Copies(x)) # 0
      BY <1>1, <3>3, NumberSome
    <3>5. Number(messages, Copies(x)) + Number(calls, Taken(x))
             <= Number(log[opened], Written(x)) + Number(coming[opened], {x})
      BY <1>1, <1>2, <3>3 DEF CopiesFit
    <3>6. /\ Number(messages, Copies(x)) \in Nat /\ Number(calls, Taken(x)) \in Nat
          /\ Number(log[opened], Written(x)) \in Nat /\ Number(coming[opened], {x}) \in Nat
      BY <1>1, <3>1, DialogTypeIs
    <3>7. Number(log[opened], Written(x)) # 0 \/ Number(coming[opened], {x}) # 0
      BY <3>4, <3>5, <3>6
    <3>8. log[opened] \in Seq(Line) /\ coming[opened] \in Seq(Words)
      BY <1>1, <3>1, DialogTypeIs
    <3>9. Number(log[opened], Written(x)) # 0 => x \in D!Texts(log[opened])
      <4>1. Number(log[opened], Written(x)) # 0 =>
               \E e \in DOMAIN log[opened] : log[opened][e] \in Written(x)
        BY <3>8, NumberSome
      <4>2. QED
        BY <4>1 DEF Written, D!Texts
    <3>10. Number(coming[opened], {x}) # 0 =>
              x \in {coming[opened][l] : l \in DOMAIN coming[opened]}
      <4>1. Number(coming[opened], {x}) # 0 =>
               \E e \in DOMAIN coming[opened] : coming[opened][e] \in {x}
        BY <3>8, NumberSome
      <4>2. QED
        BY <4>1
    <3>11. QED
      BY <2>2, <3>7, <3>9, <3>10 DEF x
  <2>3. QED
    BY <2>1, <2>2
<1>3. ASSUME opened # None, ~switched, ~crossed, ~unseen, calls = <<>>, frames = <<>>,
             coming[opened] = <<>>
      PROVE  messages = D!Entries(opened, Len(log[opened]))
  <2>1. opened \in Workspace
    BY <1>1, <1>3
  <2>2. PICK L \in Nat : L = Len(log[opened])
    BY <1>1, <2>1, DialogTypeIs
  <2>3. LoadsOf(opened) = {}
    BY <1>3, HeldFew DEF LoadsOf
  <2>4. PICK m \in Nat : InOrder(messages) /\ Complete(messages, m, Handled)
    BY <1>1, <1>3, <2>3 DEF ShownFits
  <2>5. Handled = L
    <3>1. Len(frames) = 0
      BY <1>3
    <3>2. QED
      BY <2>2, <3>1 DEF Handled
  <2>6. m = L
    <3>1. m \in Handled .. L
      BY <2>2, <2>4 DEF Complete
    <3>2. QED
      BY <2>5, <3>1
  <2>7. messages = D!Entries(opened, L)
    BY <1>1, <1>3, <2>1, <2>2, <2>4, <2>5, <2>6, CompleteIsLog
  <2>8. QED
    BY <2>2, <2>7
<1>4. QED
  BY <1>2, <1>3 DEF ShowsItsOwn, DialogConverges, D!ShowsItsOwn, D!DialogConverges

\* However loads, frames, copies and dialogs interleave, a dialog shows entries of its own
\* workspace, and one that waits for nothing the whole log, every entry once and in order
\* (loadWorkspaceMessages, appendRealtimeMessages and mergeOptimisticMessages of the card),
\* for any number of workspaces, entries and requests.
THEOREM DialogShowsLog == D!DialogSpec => [](ShowsItsOwn /\ DialogConverges)
<1>1. D!DialogInit => DialogInv /\ MarksFit
  BY InitDialog
<1>2. DialogInv /\ MarksFit /\ [D!DialogNext]_(D!dialogVars) => DialogInv' /\ MarksFit'
  BY NextDialog
<1>3. DialogInv => ShowsItsOwn /\ DialogConverges
  BY DialogShows
<1>4. QED
  BY <1>1, <1>2, <1>3, PTL DEF D!DialogSpec

\* A dialog shows entries of its own workspace's log and copies of texts that were sent to
\* it, whatever dialogs were open before, unless one was closed over a request other than a
\* load: openWorkspaceDialog, and the copies of appendOptimisticUserMessage.
COROLLARY DialogShowsItsOwn == D!DialogSpec => []ShowsItsOwn
<1>1. ShowsItsOwn /\ DialogConverges => ShowsItsOwn
  OBVIOUS
<1>2. QED
  BY <1>1, DialogShowsLog, PTL

=============================================================================
