-------------------------- MODULE BitstreamProofs --------------------------
(***************************************************************************)
(* Theorem about Bitstream: the decoder gets the parameter sets and the    *)
(* NAL units of the file, for any payloads, lengths and number of units.   *)
(*                                                                         *)
(* The reader, the loop of to_annexb and the concatenation of many units   *)
(* are recursive functions.  That a length written in bytes is read back,  *)
(* and that a turn of the loop reads a unit, is proved by induction over   *)
(* the natural numbers, as the least element of a set of counterexamples.  *)
(***************************************************************************)
EXTENDS Bitstream, WellFoundedInduction, SequenceTheorems, TLAPS

----------------------------------------------------------------------------
(***************************************************************************)
(* Induction, and functions defined by recursion.                          *)
(***************************************************************************)

LEMMA LeastNumber ==
    ASSUME NEW T, T \subseteq Nat, T # {}
    PROVE  \E n \in T : \A k \in T : n <= k
<1> DEFINE R == OpToRel(<, Nat)
<1>1. IsWellFoundedOn(R, Nat)
    BY NatLessThanWellFounded
<1>2. \A j, k \in Nat : j < k => <<j, k>> \in R
    BY DEF OpToRel
<1> HIDE DEF R
<1>3. \E n \in T : \A k \in T : ~(<<k, n>> \in R)
    BY <1>1, WFMin
<1>4. PICK n \in T : \A k \in T : ~(<<k, n>> \in R)
    BY <1>3
<1>5. ASSUME NEW k \in T, k < n PROVE FALSE
    BY <1>2, <1>4, <1>5
<1>6. \A k \in T : k \in Nat
    OBVIOUS
<1> QED BY <1>4, <1>5, <1>6

\* Induction, with a set for what is to be shown.
LEMMA Counting ==
    ASSUME NEW T, 0 \in T, \A n \in Nat : n \in T => n + 1 \in T
    PROVE  \A n \in Nat : n \in T
<1> DEFINE out == Nat \ T
<1>1. SUFFICES ASSUME out # {} PROVE FALSE
    OBVIOUS
<1>2. PICK n \in out : \A k \in out : n <= k
    BY <1>1, LeastNumber
<1>3. n - 1 \in T
    BY <1>2
<1> QED BY <1>2, <1>3

LEMMA CountingTo ==
    ASSUME NEW n \in Nat, NEW T, 0 \in T, \A k \in 1..n : k - 1 \in T => k \in T
    PROVE  \A k \in 0..n : k \in T
<1> DEFINE U == {k \in Nat : k <= n => k \in T}
<1>1. 0 \in U
    OBVIOUS
<1>2. ASSUME NEW k \in Nat, k \in U PROVE k + 1 \in U
  <2>1. SUFFICES ASSUME k + 1 <= n PROVE k + 1 \in T
      OBVIOUS
  <2>2. k + 1 \in 1..n /\ k + 1 - 1 = k /\ k \in T
      BY <1>2, <2>1
  <2> QED BY <2>2
<1> HIDE DEF U
<1>3. \A k \in Nat : k \in U
    BY <1>1, <1>2, Counting
<1>4. \A k \in 0..n : k \in Nat /\ k <= n
    OBVIOUS
<1> QED BY <1>3, <1>4 DEF U

\* Recursion over 1..n in a set X from x by the steps f[i] has a course g.
Steps(n, X) == [1..n -> [X -> X]]
Course(n, X, x, f, g) == /\ g \in [0..n -> X] /\ g[0] = x
                         /\ \A i \in 1..n : g[i] = f[i][g[i - 1]]

LEMMA Recursion ==
    ASSUME NEW n \in Nat, NEW X, NEW x \in X, NEW f \in Steps(n, X)
    PROVE  \E g : Course(n, X, x, f, g)
<1> DEFINE T == {m \in Nat : m <= n => \E g : Course(m, X, x, f, g)}
<1>1. 0 \in T
  <2> DEFINE g == [i \in 0..0 |-> x]
  <2>1. Course(0, X, x, f, g)
      BY DEF Course
  <2> QED BY <2>1
<1>2. ASSUME NEW m \in Nat, m \in T PROVE m + 1 \in T
  <2>1. SUFFICES ASSUME m + 1 <= n PROVE \E g : Course(m + 1, X, x, f, g)
      OBVIOUS
  <2>2. PICK g : Course(m, X, x, f, g)
      BY <1>2, <2>1
  <2>3. m + 1 \in 1..n /\ g[m] \in X
      BY <2>1, <2>2 DEF Course
  <2>4. f[m + 1][g[m]] \in X
      BY <2>3 DEF Steps
  <2> DEFINE h == [i \in 0..m + 1 |-> IF i <= m THEN g[i] ELSE f[m + 1][g[m]]]
  <2>5. h \in [0..m + 1 -> X]
      BY <2>2, <2>4 DEF Course
  <2>6. (\A i \in 0..m : h[i] = g[i]) /\ h[m + 1] = f[m + 1][g[m]]
      OBVIOUS
  <2> HIDE DEF h
  <2>7. ASSUME NEW i \in 1..m + 1 PROVE h[i] = f[i][h[i - 1]]
    <3>1. CASE i \in 1..m
      <4>1. i \in 0..m /\ i - 1 \in 0..m
          BY <3>1
      <4> QED BY <2>2, <2>6, <3>1, <4>1 DEF Course
    <3>2. CASE i = m + 1
        BY <2>6, <3>2
    <3> QED BY <3>1, <3>2
  <2>8. h[0] = x
      BY <2>2, <2>6 DEF Course
  <2>9. Course(m + 1, X, x, f, h)
      BY <2>5, <2>7, <2>8 DEF Course
  <2> QED BY <2>9
<1> HIDE DEF T
<1>3. n \in T
    BY <1>1, <1>2, Counting
<1> QED BY <1>3 DEF T

----------------------------------------------------------------------------
(***************************************************************************)
(* Lengths.                                                                *)
(***************************************************************************)

LEMMA ShiftedStep ==
    ASSUME NEW n \in Nat
    PROVE  /\ Shifted(n, 0) = n
           /\ \A k \in Nat : /\ Shifted(n, k) \in Nat
                             /\ Shifted(n, k + 1) = Shifted(n, k) \div 256
<1> DEFINE Shifts(k, s) == s = [i \in 0..k |-> IF i = 0 THEN n ELSE s[i - 1] \div 256]
<1>1. ASSUME NEW k \in Nat PROVE \E s : Shifts(k, s) /\ Shifted(n, k) = s[k]
  <2> DEFINE f == [i \in 1..k |-> [x \in Nat |-> x \div 256]]
  <2>1. f \in Steps(k, Nat)
      BY DEF Steps
  <2>2. PICK s : Course(k, Nat, n, f, s)
    <3> HIDE DEF f
    <3> QED BY <2>1, Recursion
  <2>3. ASSUME NEW i \in 1..k PROVE s[i] = s[i - 1] \div 256
    <3>1. s[i - 1] \in Nat /\ s[i] = f[i][s[i - 1]]
        BY <2>2 DEF Course
    <3> QED BY <3>1
  <2> HIDE DEF f
  <2>4. Shifts(k, s)
      BY <2>2, <2>3 DEF Course
  <2>5. Shifted(n, k) = (CHOOSE t : Shifts(k, t))[k]
      BY DEF Shifted
  <2> HIDE DEF Shifts
  <2> QED BY <2>4, <2>5
<1>2. ASSUME NEW k \in Nat, NEW s, Shifts(k, s)
      PROVE  /\ s[0] = n /\ \A i \in 0..k : s[i] \in Nat
             /\ \A i \in 1..k : s[i] = s[i - 1] \div 256
  <2>1. s[0] = n /\ \A i \in 1..k : s[i] = s[i - 1] \div 256
      BY <1>2
  <2> DEFINE T == {i \in Nat : i <= k => s[i] \in Nat}
  <2>2. 0 \in T
      BY <2>1
  <2>3. ASSUME NEW i \in Nat, i \in T PROVE i + 1 \in T
      BY <2>1, <2>3
  <2> HIDE DEF T
  <2>4. \A i \in Nat : i \in T
      BY <2>2, <2>3, Counting
  <2>5. \A i \in 0..k : i \in Nat /\ i <= k
      OBVIOUS
  <2> QED BY <2>1, <2>4, <2>5 DEF T
<1> HIDE DEF Shifts
<1>3. ASSUME NEW k \in Nat, NEW m \in Nat, NEW s, NEW t, Shifts(k, s), Shifts(m, t), k <= m
      PROVE  s[k] = t[k]
  <2> DEFINE T == {i \in Nat : i <= k => s[i] = t[i]}
  <2>1. 0 \in T
      BY <1>2, <1>3
  <2>2. ASSUME NEW i \in Nat, i \in T PROVE i + 1 \in T
    <3>1. SUFFICES ASSUME i + 1 <= k PROVE s[i + 1] = t[i + 1]
        OBVIOUS
    <3>2. i + 1 \in 1..k /\ i + 1 \in 1..m /\ s[i] = t[i]
        BY <1>3, <2>2, <3>1
    <3>3. s[i + 1] = s[i] \div 256 /\ t[i + 1] = t[i] \div 256
        BY <1>2, <1>3, <3>2
    <3> QED BY <3>2, <3>3
  <2> HIDE DEF T
  <2>3. k \in T
      BY <2>1, <2>2, Counting
  <2> QED BY <2>3 DEF T
<1>4. Shifted(n, 0) = n
    BY <1>1, <1>2
<1>5. ASSUME NEW k \in Nat PROVE Shifted(n, k) \in Nat
    BY <1>1, <1>2
<1>6. ASSUME NEW k \in Nat PROVE Shifted(n, k + 1) = Shifted(n, k) \div 256
  <2>1. PICK s : Shifts(k, s) /\ Shifted(n, k) = s[k]
      BY <1>1
  <2>2. PICK t : Shifts(k + 1, t) /\ Shifted(n, k + 1) = t[k + 1]
      BY <1>1
  <2>3. t[k + 1] = t[k] \div 256
      BY <1>2, <2>2
  <2>4. s[k] = t[k]
      BY <1>3, <2>1, <2>2
  <2> QED BY <2>1, <2>2, <2>3, <2>4
<1> QED BY <1>4, <1>5, <1>6

\* The bytes of a length, the highest first, are bytes, and give the length back.
LEMMA LengthIsRead ==
    ASSUME NEW n \in Nat, NEW size \in Nat, Shifted(n, size) = 0
    PROVE  /\ BigEndian(n, size) \in Seq(Byte) /\ Len(BigEndian(n, size)) = size
           /\ Value(BigEndian(n, size)) = n
<1> DEFINE b == BigEndian(n, size)
           Folds(v) == v = [i \in 0..size |-> IF i = 0 THEN 0 ELSE v[i - 1] * 256 + b[i]]
<1>1. \A i \in 1..size : size - i \in Nat /\ Shifted(n, size - i) \in Nat
  <2>1. \A i \in 1..size : size - i \in Nat
      OBVIOUS
  <2> QED BY <2>1, ShiftedStep
<1>2. \A i \in 1..size : b[i] = Shifted(n, size - i) % 256 /\ b[i] \in Byte
    BY <1>1 DEF BigEndian, Byte
<1>3. b = [i \in 1..size |-> b[i]]
    BY DEF BigEndian
<1> HIDE DEF b
<1>4. b \in Seq(Byte) /\ Len(b) = size
    BY <1>2, <1>3
<1>5. \E v : Folds(v)
  <2> DEFINE f == [i \in 1..size |-> [x \in Nat |-> x * 256 + b[i]]]
  <2>1. f \in Steps(size, Nat)
    <3>1. \A i \in 1..size : b[i] \in Nat
        BY <1>2 DEF Byte
    <3>2. \A i \in 1..size, x \in Nat : x * 256 + b[i] \in Nat
        BY <3>1
    <3> QED BY <3>2 DEF Steps
  <2>2. PICK v : Course(size, Nat, 0, f, v)
    <3>1. 0 \in Nat
        OBVIOUS
    <3> HIDE DEF f
    <3> QED BY <2>1, <3>1, Recursion
  <2>3. ASSUME NEW i \in 1..size PROVE v[i] = v[i - 1] * 256 + b[i]
    <3>1. v[i - 1] \in Nat /\ v[i] = f[i][v[i - 1]]
      <4> HIDE DEF f
      <4> QED BY <2>2 DEF Course
    <3> QED BY <3>1
  <2>4. v \in [0..size -> Nat] /\ v[0] = 0
    <3> HIDE DEF f
    <3> QED BY <2>2 DEF Course
  <2> HIDE DEF f
  <2>5. Folds(v)
      BY <2>3, <2>4
  <2> QED BY <2>5
<1>6. Value(b) = (CHOOSE v : Folds(v))[size]
    BY <1>4 DEF Value
<1>7. PICK v : Folds(v) /\ Value(b) = v[size]
  <2> HIDE DEF Folds
  <2> QED BY <1>5, <1>6
<1>8. v[0] = 0 /\ \A i \in 1..size : v[i] = v[i - 1] * 256 + b[i]
    BY <1>7
<1> DEFINE T == {i \in Nat : i <= size => v[i] = Shifted(n, size - i)}
<1>9. 0 \in T
    BY <1>8
<1>10. ASSUME NEW i \in Nat, i \in T PROVE i + 1 \in T
  <2>1. SUFFICES ASSUME i + 1 <= size PROVE v[i + 1] = Shifted(n, size - (i + 1))
      OBVIOUS
  <2>2. i + 1 \in 1..size /\ v[i] = Shifted(n, size - i)
      BY <1>10, <2>1
  <2> DEFINE m == Shifted(n, size - (i + 1))
  <2>3. m \in Nat /\ b[i + 1] = m % 256
      BY <1>1, <1>2, <2>2
  <2>4. Shifted(n, size - i) = m \div 256
    <3>1. size - (i + 1) \in Nat /\ size - (i + 1) + 1 = size - i
        BY <2>1
    <3> QED BY <3>1, ShiftedStep
  <2>5. v[i + 1] = v[i] * 256 + b[i + 1]
      BY <1>8, <2>2
  <2> HIDE DEF m
  <2>6. PICK q \in Nat : q = m \div 256 /\ m % 256 = m - 256 * q
    <3>1. m \div 256 \in Nat /\ m % 256 = m - 256 * (m \div 256)
        BY <2>3
    <3> QED BY <3>1
  <2>7. v[i + 1] = q * 256 + (m - 256 * q)
      BY <2>2, <2>3, <2>4, <2>5, <2>6
  <2>8. v[i + 1] = m
      BY <2>3, <2>6, <2>7
  <2> QED BY <2>8 DEF m
<1> HIDE DEF T
<1>11. size \in T
    BY <1>9, <1>10, Counting
<1>12. v[size] = n
  <2>1. v[size] = Shifted(n, size - size) /\ size - size = 0
      BY <1>11 DEF T
  <2> QED BY <2>1, ShiftedStep
<1> QED BY <1>4, <1>7, <1>12 DEF b

----------------------------------------------------------------------------
(***************************************************************************)
(* Sequences of sequences in one.                                          *)
(***************************************************************************)

\* g[i] is the first i of s in one.
Joins(X, n, s, g) == /\ g \in [0..n -> Seq(X)] /\ g[0] = <<>>
                     /\ \A i \in 1..n : g[i] = g[i - 1] \o s[i]

LEMMA Flattened ==
    ASSUME NEW X, NEW n \in Nat, NEW s \in Seq(Seq(X)), Len(s) = n
    PROVE  \E g : Joins(X, n, s, g) /\ FlattenSeq(s) = g[n]
<1> DEFINE Flattens(h) == h = [i \in 1..n |-> IF i = 1 THEN s[i] ELSE h[i - 1] \o s[i]]
           f == [i \in 1..n |-> [x \in Seq(X) |-> x \o s[i]]]
<1>1. \A i \in 1..n : s[i] \in Seq(X)
    OBVIOUS
<1>2. f \in Steps(n, Seq(X))
    BY <1>1 DEF Steps
<1>3. PICK g : Course(n, Seq(X), <<>>, f, g)
  <2>1. <<>> \in Seq(X)
      OBVIOUS
  <2> HIDE DEF f
  <2> QED BY <1>2, <2>1, Recursion
<1>4. g \in [0..n -> Seq(X)] /\ g[0] = <<>> /\ \A i \in 1..n : g[i] = f[i][g[i - 1]]
  <2> HIDE DEF f
  <2> QED BY <1>3 DEF Course
<1>5. ASSUME NEW i \in 1..n PROVE g[i] = g[i - 1] \o s[i] /\ g[i - 1] \in Seq(X) /\ g[i] \in Seq(X)
  <2>1. g[i - 1] \in Seq(X) /\ g[i] = f[i][g[i - 1]] /\ g[i] \in Seq(X)
    <3>1. i - 1 \in 0..n /\ i \in 0..n
        OBVIOUS
    <3> HIDE DEF f
    <3> QED BY <1>4, <3>1
  <2> QED BY <2>1
<1> HIDE DEF f
<1>6. Joins(X, n, s, g)
    BY <1>4, <1>5 DEF Joins
<1>7. CASE n = 0
  <2>1. s = <<>>
      BY <1>7
  <2>2. FlattenSeq(s) = s
      BY <1>7 DEF FlattenSeq
  <2> QED BY <1>4, <1>6, <1>7, <2>1, <2>2
<1>8. CASE n # 0
  <2>1. FlattenSeq(s) = (CHOOSE h : Flattens(h))[n]
      BY <1>8 DEF FlattenSeq
  <2> DEFINE e == [i \in 1..n |-> g[i]]
  <2>2. Flattens(e)
    <3>1. ASSUME NEW i \in 1..n, i # 1 PROVE e[i] = e[i - 1] \o s[i]
      <4>1. i - 1 \in 1..n
          BY <3>1
      <4> QED BY <1>5, <4>1
    <3>2. e[1] = s[1]
      <4>1. 1 \in 1..n /\ 1 - 1 = 0
          BY <1>8
      <4>2. g[1] = <<>> \o s[1]
          BY <1>4, <1>5, <4>1
      <4> QED BY <1>1, <4>1, <4>2
    <3>3. e = [i \in 1..n |-> e[i]]
        OBVIOUS
    <3> HIDE DEF e
    <3> QED BY <3>1, <3>2, <3>3
  <2>3. PICK h : Flattens(h) /\ FlattenSeq(s) = h[n]
    <3> HIDE DEF Flattens, e
    <3> QED BY <2>1, <2>2
  <2>4. \A k \in 1..n : h[k] = IF k = 1 THEN s[k] ELSE h[k - 1] \o s[k]
      BY <2>3
  <2> DEFINE T == {k \in 0..n : k # 0 => h[k] = g[k]}
  <2>5. 0 \in T
      OBVIOUS
  <2>6. ASSUME NEW k \in 1..n, k - 1 \in T PROVE k \in T
    <3>1. CASE k = 1
      <4>1. h[k] = s[k]
          BY <2>4, <3>1
      <4>2. k - 1 = 0 /\ g[k] = g[k - 1] \o s[k]
          BY <1>5, <3>1
      <4>3. <<>> \o s[k] = s[k]
          BY <1>1
      <4>4. g[k] = s[k]
          BY <1>4, <4>2, <4>3
      <4> QED BY <4>1, <4>4
    <3>2. CASE k # 1
      <4>1. h[k] = h[k - 1] \o s[k]
          BY <2>4, <3>2
      <4>2. h[k - 1] = g[k - 1]
          BY <2>6, <3>2
      <4>3. g[k] = g[k - 1] \o s[k]
          BY <1>5
      <4>4. h[k] = g[k]
          BY <4>1, <4>2, <4>3
      <4> QED BY <4>4
    <3> QED BY <3>1, <3>2
  <2> HIDE DEF T, Flattens
  <2>7. n \in T
    <3>1. \A k \in 0..n : k \in T
        BY <2>5, <2>6, CountingTo
    <3>2. n \in 0..n
        OBVIOUS
    <3> QED BY <3>1, <3>2
  <2>8. h[n] = g[n]
      BY <1>8, <2>7 DEF T
  <2> QED BY <1>6, <2>3, <2>8
<1> QED BY <1>7, <1>8

LEMMA FlattenedShort ==
    ASSUME NEW X, NEW a \in Seq(X), NEW b \in Seq(X)
    PROVE  FlattenSeq(<<a>>) = a /\ FlattenSeq(<<a, b>>) = a \o b
<1>1. FlattenSeq(<<a>>) = a
  <2> DEFINE s == <<a>>
  <2>1. s \in Seq(Seq(X)) /\ Len(s) = 1 /\ s[1] = a
      OBVIOUS
  <2> HIDE DEF s
  <2>2. PICK g : Joins(X, 1, s, g) /\ FlattenSeq(s) = g[1]
    <3>1. 1 \in Nat
        OBVIOUS
    <3> QED BY <2>1, <3>1, Flattened
  <2>3. g[1] = <<>> \o a
    <3>1. 1 \in 1..1 /\ 1 - 1 = 0
        OBVIOUS
    <3> QED BY <2>1, <2>2, <3>1 DEF Joins
  <2>4. <<>> \o a = a
      OBVIOUS
  <2> QED BY <2>2, <2>3, <2>4 DEF s
<1>2. FlattenSeq(<<a, b>>) = a \o b
  <2> DEFINE s == <<a, b>>
  <2>1. s \in Seq(Seq(X)) /\ Len(s) = 2 /\ s[1] = a /\ s[2] = b
      OBVIOUS
  <2> HIDE DEF s
  <2>2. PICK g : Joins(X, 2, s, g) /\ FlattenSeq(s) = g[2]
    <3>1. 2 \in Nat
        OBVIOUS
    <3> QED BY <2>1, <3>1, Flattened
  <2>3. g[1] = <<>> \o a /\ g[2] = g[1] \o b
    <3>1. 1 \in 1..2 /\ 1 - 1 = 0 /\ 2 \in 1..2 /\ 2 - 1 = 1
        OBVIOUS
    <3> QED BY <2>1, <2>2, <3>1 DEF Joins
  <2>4. <<>> \o a = a
      OBVIOUS
  <2> QED BY <2>2, <2>3, <2>4 DEF s
<1> QED BY <1>1, <1>2

----------------------------------------------------------------------------
(***************************************************************************)
(* Reading.                                                                *)
(***************************************************************************)

\* w is in buf behind pos.
At(buf, pos, w) == pos + Len(w) <= Len(buf) /\ \A j \in 1..Len(w) : buf[pos + j] = w[j]

LEMMA AtEnd ==
    ASSUME NEW a \in Seq(Byte), NEW w \in Seq(Byte)
    PROVE  At(a \o w, Len(a), w)
<1> QED BY DEF At

LEMMA AtLonger ==
    ASSUME NEW a \in Seq(Byte), NEW b \in Seq(Byte), NEW w \in Seq(Byte), NEW pos \in Nat,
           At(a, pos, w)
    PROVE  At(a \o b, pos, w)
<1>1. \A j \in 1..Len(w) : pos + j \in 1..Len(a)
    BY DEF At
<1>2. \A i \in 1..Len(a) : (a \o b)[i] = a[i]
    OBVIOUS
<1> QED BY <1>1, <1>2 DEF At

LEMMA AtPart ==
    ASSUME NEW buf \in Seq(Byte), NEW pos \in Nat, NEW v \in Seq(Byte), NEW w \in Seq(Byte),
           At(buf, pos, v \o w)
    PROVE  At(buf, pos, v) /\ At(buf, pos + Len(v), w)
<1>1. Len(v \o w) = Len(v) + Len(w) /\ \A j \in 1..Len(v) : (v \o w)[j] = v[j]
    OBVIOUS
<1>2. \A j \in 1..Len(w) : (v \o w)[Len(v) + j] = w[j] /\ Len(v) + j \in 1..Len(v \o w)
    OBVIOUS
<1>3. At(buf, pos, v)
    BY <1>1 DEF At
<1>4. At(buf, pos + Len(v), w)
  <2>1. pos + Len(v) + Len(w) <= Len(buf)
      BY <1>1 DEF At
  <2>2. ASSUME NEW j \in 1..Len(w) PROVE buf[pos + Len(v) + j] = w[j]
    <3>1. pos + Len(v) + j = pos + (Len(v) + j)
        OBVIOUS
    <3> QED BY <1>2, <3>1 DEF At
  <2> QED BY <2>1, <2>2 DEF At
<1> QED BY <1>3, <1>4

LEMMA BytesAt ==
    ASSUME NEW buf \in Seq(Byte), NEW pos \in Nat, NEW w \in Seq(Byte), At(buf, pos, w)
    PROVE  Bytes(buf, pos, Len(w)) = w
<1> DEFINE s == SubSeq(buf, pos + 1, pos + Len(w))
<1>1. Bytes(buf, pos, Len(w)) = s
    BY DEF At, Bytes
<1>2. s \in Seq(Byte) /\ Len(s) = Len(w)
    BY DEF At
<1>3. ASSUME NEW j \in 1..Len(w) PROVE s[j] = w[j]
  <2>1. s[j] = buf[pos + 1 + j - 1]
      BY DEF At
  <2>2. pos + 1 + j - 1 = pos + j
      OBVIOUS
  <2> QED BY <2>1, <2>2 DEF At
<1> HIDE DEF s
<1>4. s = w
    BY <1>2, <1>3
<1> QED BY <1>1, <1>4

LEMMA NoBytesApart ==
    NoBytes \notin Nat /\ (\A w \in Seq(Byte) : w # NoBytes)
<1>1. {Unparsed, NoBytes} \cap (Nat \cup Seq(Byte)) = {}
    BY BitstreamAssumption
<1> QED BY <1>1

LEMMA StoredIs ==
    ASSUME NEW nal \in Seq(Byte), NEW size \in Nat, Fits(nal, size)
    PROVE  /\ BigEndian(Len(nal), size) \in Seq(Byte) /\ Len(BigEndian(Len(nal), size)) = size
           /\ Stored(nal, size) \in Seq(Byte) /\ Len(Stored(nal, size)) = size + Len(nal)
<1> DEFINE b == BigEndian(Len(nal), size)
<1>1. b \in Seq(Byte) /\ Len(b) = size
  <2>1. Len(nal) \in Nat /\ Shifted(Len(nal), size) = 0
      BY DEF Fits
  <2> QED BY <2>1, LengthIsRead
<1>2. Stored(nal, size) = b \o nal
    BY DEF Stored
<1> HIDE DEF b
<1>3. b \o nal \in Seq(Byte) /\ Len(b \o nal) = size + Len(nal)
    BY <1>1
<1> QED BY <1>1, <1>2, <1>3 DEF b

\* What was stored is read, however many bytes its length has.
LEMMA ReadsBack ==
    ASSUME NEW buf \in Seq(Byte), NEW pos \in Nat, NEW nal \in Seq(Byte), NEW size \in Nat,
           Fits(nal, size), At(buf, pos, Stored(nal, size))
    PROVE  Prefixed(buf, pos, size) = [pos |-> pos + size + Len(nal), got |-> nal]
<1> DEFINE b == BigEndian(Len(nal), size)
<1>1. b \in Seq(Byte) /\ Len(b) = size /\ Value(b) = Len(nal)
  <2>1. Len(nal) \in Nat /\ Shifted(Len(nal), size) = 0
      BY DEF Fits
  <2> QED BY <2>1, LengthIsRead
<1>2. Stored(nal, size) = b \o nal
    BY DEF Stored
<1> HIDE DEF b
<1>3. At(buf, pos, b) /\ At(buf, pos + size, nal)
    BY <1>1, <1>2, AtPart
<1>4. Bytes(buf, pos, size) = b
    BY <1>1, <1>3, BytesAt
<1>5. Bytes(buf, pos + size, Len(nal)) = nal
  <2>1. pos + size \in Nat
      OBVIOUS
  <2> QED BY <1>3, <2>1, BytesAt
<1>6. b # NoBytes /\ nal # NoBytes
    BY <1>1, NoBytesApart
<1> QED BY <1>1, <1>4, <1>5, <1>6 DEF Prefixed

Cut(w) == SubSeq(w, 1, Len(w) - 1)

LEMMA LastByteGone ==
    ASSUME NEW w \in Seq(Byte), NEW n \in Nat, Len(w) = n + 1
    PROVE  LET r == Cut(w) IN r \in Seq(Byte) /\ Len(r) = n /\ \A j \in 1..n : r[j] = w[j]
<1> DEFINE r == Cut(w)
<1>1. r = SubSeq(w, 1, n)
    BY DEF Cut
<1>2. \A j \in 1..n : w[j] \in Byte
    OBVIOUS
<1> HIDE DEF r
<1>3. r \in Seq(Byte)
    BY <1>1, <1>2
<1>4. Len(r) = n
    BY <1>1
<1>5. \A j \in 1..n : r[j] = w[j]
    BY <1>1
<1> QED BY <1>3, <1>4, <1>5 DEF r

\* Without its last byte it is not; an empty unit with a length of one byte is
\* then gone altogether.
LEMMA CutShort ==
    ASSUME NEW a \in Seq(Byte), NEW nal \in Seq(Byte), NEW size \in Nat \ {0}, Fits(nal, size),
           NEW rest, rest = Cut(Stored(nal, size))
    PROVE  /\ rest \in Seq(Byte) /\ (rest = <<>> => nal = <<>>)
           /\ Cut(a \o Stored(nal, size)) = a \o rest
           /\ rest # <<>> => Prefixed(a \o rest, Len(a), size).pos = NoBytes
<1> DEFINE w == Stored(nal, size)
           b == BigEndian(Len(nal), size)
           buf == a \o rest
<1>1. w \in Seq(Byte) /\ Len(w) = size + Len(nal) /\ b \in Seq(Byte) /\ Len(b) = size
    BY StoredIs
<1>2. w = b \o nal
    BY DEF Stored
<1>3. rest = Cut(w)
    OBVIOUS
<1>4. Value(b) = Len(nal)
  <2>1. Len(nal) \in Nat /\ Shifted(Len(nal), size) = 0
      BY DEF Fits
  <2> QED BY <2>1, LengthIsRead
<1> HIDE DEF w, b
<1>5. /\ rest \in Seq(Byte) /\ Len(rest) = size + Len(nal) - 1
      /\ \A j \in 1..Len(rest) : rest[j] = w[j]
  <2> DEFINE n == size + Len(nal) - 1
  <2>1. n \in Nat /\ Len(w) = n + 1
      BY <1>1
  <2> HIDE DEF n
  <2>2. rest \in Seq(Byte) /\ Len(rest) = n /\ \A j \in 1..n : rest[j] = w[j]
      BY <1>1, <1>3, <2>1, LastByteGone
  <2> QED BY <2>2 DEF n
<1>6. rest = <<>> => nal = <<>>
  <2>1. SUFFICES ASSUME rest = <<>> PROVE nal = <<>>
      OBVIOUS
  <2>2. Len(rest) = 0
      BY <2>1
  <2>3. Len(nal) = 0
      BY <1>5, <2>2
  <2> QED BY <2>3
<1>7. Cut(a \o w) = buf
  <2> DEFINE s == Cut(a \o w)
             n == Len(a) + Len(rest)
  <2>1. n \in Nat /\ Len(w) = Len(rest) + 1
      BY <1>1, <1>5
  <2>2. a \o w \in Seq(Byte) /\ Len(a \o w) = n + 1
      BY <1>1, <2>1
  <2>3. s \in Seq(Byte) /\ Len(s) = n /\ \A j \in 1..n : s[j] = (a \o w)[j]
    <3> HIDE DEF n
    <3> QED BY <2>1, <2>2, LastByteGone
  <2>4. buf \in Seq(Byte) /\ Len(buf) = n
    <3>1. rest \in Seq(Byte)
        BY <1>5
    <3> QED BY <3>1
  <2>5. ASSUME NEW j \in 1..n PROVE (a \o w)[j] = buf[j]
    <3>1. CASE j <= Len(a)
      <4>1. (a \o w)[j] = a[j]
          BY <1>1, <2>1, <3>1
      <4>2. buf[j] = a[j]
          BY <1>5, <3>1
      <4> QED BY <4>1, <4>2
    <3>2. CASE j > Len(a)
      <4>1. j - Len(a) \in 1..Len(rest)
          BY <1>5, <3>2
      <4>2. (a \o w)[j] = w[j - Len(a)]
          BY <1>1, <2>1, <3>2
      <4>3. buf[j] = rest[j - Len(a)]
          BY <1>5, <3>2
      <4>4. rest[j - Len(a)] = w[j - Len(a)]
          BY <1>5, <4>1
      <4> HIDE DEF buf
      <4> QED BY <4>2, <4>3, <4>4
    <3>3. j <= Len(a) \/ j > Len(a)
        BY <2>1
    <3> QED BY <3>1, <3>2, <3>3
  <2> HIDE DEF s, buf, n
  <2>6. \A j \in 1..n : s[j] = buf[j]
      BY <2>3, <2>5
  <2>7. s = buf
      BY <2>3, <2>4, <2>6, SeqEqual
  <2> QED BY <2>7 DEF s
<1>8. ASSUME rest # <<>> PROVE Prefixed(buf, Len(a), size).pos = NoBytes
  <2>1. buf \in Seq(Byte) /\ Len(buf) = Len(a) + size + Len(nal) - 1
    <3>1. buf \in Seq(Byte) /\ Len(buf) = Len(a) + Len(rest)
      <4>1. rest \in Seq(Byte)
          BY <1>5
      <4> QED BY <4>1
    <3> HIDE DEF buf
    <3> QED BY <1>5, <3>1
  <2>2. CASE nal = <<>>
    <3>1. Len(nal) = 0
        BY <2>2
    <3>2. Bytes(buf, Len(a), size) = NoBytes
        BY <2>1, <3>1 DEF Bytes
    <3> QED BY <3>2 DEF Prefixed
  <2>3. CASE nal # <<>>
    <3>1. Len(nal) >= 1
        BY <2>3
    <3>2. At(buf, Len(a), b)
      <4>1. At(buf, Len(a), rest)
          BY <1>5, AtEnd
      <4>2. \A j \in 1..size : j \in 1..Len(rest) /\ rest[j] = b[j]
        <5>1. \A j \in 1..size : j \in 1..Len(rest) /\ rest[j] = w[j]
          <6>1. size <= Len(rest) /\ Len(rest) \in Nat
              BY <1>5, <3>1
          <6>2. \A j \in 1..size : j \in 1..Len(rest)
              BY <6>1
          <6> QED BY <1>5, <6>2
        <5>2. \A j \in 1..size : w[j] = b[j]
            BY <1>1, <1>2
        <5> QED BY <5>1, <5>2
      <4>3. Len(a) + size <= Len(buf)
          BY <2>1, <3>1
      <4> HIDE DEF buf
      <4> QED BY <1>1, <4>1, <4>2, <4>3 DEF At
    <3>3. Bytes(buf, Len(a), size) = b /\ b # NoBytes
      <4> HIDE DEF buf
      <4> QED BY <1>1, <2>1, <3>2, BytesAt, NoBytesApart
    <3>4. Bytes(buf, Len(a) + size, Len(nal)) = NoBytes
        BY <2>1, <3>1 DEF Bytes
    <3> HIDE DEF buf
    <3> QED BY <1>4, <3>3, <3>4 DEF Prefixed
  <2> QED BY <2>2, <2>3
<1> QED BY <1>5, <1>6, <1>7, <1>8 DEF w, buf

LEMMA JoinsTypes ==
    ASSUME NEW n \in Nat, NEW s, NEW g, Joins(Byte, n, s, g), \A k \in 1..n : s[k] \in Seq(Byte)
    PROVE  /\ \A k \in 0..n : g[k] \in Seq(Byte) /\ Len(g[k]) \in Nat
           /\ \A k \in 1..n : /\ g[k - 1] \in Seq(Byte) /\ g[k] = g[k - 1] \o s[k]
                              /\ Len(g[k]) = Len(g[k - 1]) + Len(s[k])
<1>1. \A k \in 0..n : g[k] \in Seq(Byte) /\ Len(g[k]) \in Nat
    BY DEF Joins
<1>2. ASSUME NEW k \in 1..n
      PROVE  /\ g[k - 1] \in Seq(Byte) /\ g[k] = g[k - 1] \o s[k]
             /\ Len(g[k]) = Len(g[k - 1]) + Len(s[k])
  <2>1. k - 1 \in 0..n
      OBVIOUS
  <2>2. g[k - 1] \in Seq(Byte) /\ s[k] \in Seq(Byte)
      BY <1>1, <2>1
  <2>3. g[k] = g[k - 1] \o s[k]
      BY DEF Joins
  <2> QED BY <2>2, <2>3
<1> QED BY <1>1, <1>2

\* Each piece of a joined sequence is behind those before it.
LEMMA JoinedAt ==
    ASSUME NEW n \in Nat, NEW s, NEW g, Joins(Byte, n, s, g), \A k \in 1..n : s[k] \in Seq(Byte),
           NEW k \in 1..n
    PROVE  At(g[n], Len(g[k - 1]), s[k])
<1> DEFINE T == {j \in 0..n : k <= j => At(g[j], Len(g[k - 1]), s[k])}
<1>1. 0 \in T
    OBVIOUS
<1>2. ASSUME NEW j \in 1..n, j - 1 \in T PROVE j \in T
  <2>1. SUFFICES ASSUME k <= j PROVE At(g[j], Len(g[k - 1]), s[k])
      OBVIOUS
  <2>2. /\ g[j - 1] \in Seq(Byte) /\ g[j] = g[j - 1] \o s[j]
        /\ s[j] \in Seq(Byte) /\ s[k] \in Seq(Byte) /\ Len(g[k - 1]) \in Nat
    <3>1. k - 1 \in 0..n
        OBVIOUS
    <3> QED BY <3>1, JoinsTypes
  <2>3. CASE k = j
      BY <2>2, <2>3, AtEnd
  <2>4. CASE k < j
    <3>1. At(g[j - 1], Len(g[k - 1]), s[k])
        BY <1>2, <2>4
    <3> QED BY <2>2, <3>1, AtLonger
  <2> QED BY <2>1, <2>3, <2>4
<1> HIDE DEF T
<1>3. n \in T
  <2>1. \A j \in 0..n : j \in T
      BY <1>1, <1>2, CountingTo
  <2>2. n \in 0..n
      OBVIOUS
  <2> QED BY <2>1, <2>2
<1> QED BY <1>3 DEF T

----------------------------------------------------------------------------
(***************************************************************************)
(* to_annexb: a turn of the loop a unit.                                   *)
(***************************************************************************)

\* What the decoder gets of a unit.
Piece(u) == IF u = <<>> THEN <<>> ELSE Framed(u)

LEMMA FramedIs ==
    ASSUME NEW u \in Seq(Byte)
    PROVE  Framed(u) \in Seq(Byte) /\ Piece(u) \in Seq(Byte) /\ Len(Framed(u)) = Len(u) + 4
<1>1. StartCode \in Seq(Byte) /\ Len(StartCode) = 4
    BY DEF StartCode, Byte
<1>2. Framed(u) \in Seq(Byte) /\ Len(Framed(u)) = 4 + Len(u)
  <2>1. StartCode \o u \in Seq(Byte) /\ Len(StartCode \o u) = Len(StartCode) + Len(u)
      BY <1>1, ConcatProperties
  <2> QED BY <1>1, <2>1 DEF Framed
<1>3. <<>> \in Seq(Byte)
    OBVIOUS
<1> QED BY <1>2, <1>3 DEF Piece

Place(pos, out) == [pos |-> pos, out |-> out]

LEMMA PlaceIs ==
    ASSUME NEW pos, NEW out
    PROVE  Place(pos, out).pos = pos /\ Place(pos, out).out = out
<1> QED BY DEF Place

\* A turn on a unit.
LEMMA UnitTurn ==
    ASSUME NEW buf \in Seq(Byte), NEW pos \in Nat, NEW out \in Seq(Byte), NEW nal \in Seq(Byte),
           NEW size \in Nat, size # 0, Fits(nal, size), At(buf, pos, Stored(nal, size))
    PROVE  Turn(buf, size, Place(pos, out)) = Place(pos + size + Len(nal), out \o Piece(nal))
<1> DEFINE r == Place(pos, out)
           p == Prefixed(buf, r.pos, size)
<1>1. r.pos = pos /\ r.out = out
    BY PlaceIs
<1> HIDE DEF r
<1>2. p.pos = pos + size + Len(nal) /\ p.got = nal
  <2>1. p = [pos |-> pos + size + Len(nal), got |-> nal]
      BY <1>1, ReadsBack
  <2> HIDE DEF p
  <2> QED BY <2>1
<1>3. pos # Len(buf)
  <2>1. Len(Stored(nal, size)) = size + Len(nal)
      BY StoredIs
  <2>2. pos + Len(Stored(nal, size)) <= Len(buf)
      BY DEF At
  <2>3. Len(nal) \in Nat /\ Len(buf) \in Nat
      OBVIOUS
  <2> QED BY <2>1, <2>2, <2>3
<1>4. r.pos \notin {NoBytes, Len(buf)}
    BY <1>1, <1>3, NoBytesApart
<1>5. p.pos # NoBytes
  <2>1. pos + size + Len(nal) \in Nat
      OBVIOUS
  <2> HIDE DEF p
  <2> QED BY <1>2, <2>1, NoBytesApart
<1>6. Turn(buf, size, r) = [pos |-> p.pos, out |-> IF p.got = <<>> THEN r.out ELSE r.out \o Framed(p.got)]
    BY <1>4, <1>5 DEF Turn
<1> HIDE DEF p
<1>7. (IF nal = <<>> THEN out ELSE out \o Framed(nal)) = out \o Piece(nal)
  <2>1. CASE nal = <<>>
    <3>1. out \o <<>> = out
        OBVIOUS
    <3> QED BY <2>1, <3>1 DEF Piece
  <2>2. CASE nal # <<>>
      BY <2>2 DEF Piece
  <2> QED BY <2>1, <2>2
<1>8. Turn(buf, size, r) = [pos |-> pos + size + Len(nal), out |-> out \o Piece(nal)]
    BY <1>1, <1>2, <1>6, <1>7
<1> QED BY <1>8 DEF r, Place

\* The turns of the loop, one for a byte of the sample.
Turns(sample, size, start, R) ==
    /\ R[0] = Place(0, start)
    /\ \A i \in 1..Len(sample) : R[i] = Turn(sample, size, R[i - 1])

\* What the loop starts with.
Start(c, key) == IF key THEN AnnexB(c.sets) ELSE <<>>

LEMMA LoopEnds ==
    ASSUME NEW sample \in Seq(Byte), NEW c, NEW key,
           NEW R, Turns(sample, c.length, Start(c, key), R)
    PROVE  ToAnnexB(sample, c, key) =
               IF R[Len(sample)].pos = NoBytes THEN NoBytes ELSE R[Len(sample)].out
<1> DEFINE L == Len(sample)
           start == Start(c, key)
           F(r, i) == IF i = 0 THEN Place(0, start) ELSE Turn(sample, c.length, r[i - 1])
           Loop(r) == r = [i \in 0..L |-> F(r, i)]
           Q == [i \in 0..L |-> R[i]]
<1>1. L \in Nat
    OBVIOUS
<1>2. Loop(Q)
  <2>1. ASSUME NEW i \in 0..L PROVE R[i] = F(Q, i)
    <3>1. CASE i = 0
        BY <3>1 DEF Turns
    <3>2. CASE i # 0
      <4>1. i \in 1..L /\ i - 1 \in 0..L
          BY <1>1, <3>2
      <4>2. Q[i - 1] = R[i - 1]
          BY <4>1
      <4> HIDE DEF Q
      <4> QED BY <3>2, <4>1, <4>2 DEF Turns
    <3> QED BY <3>1, <3>2
  <2> HIDE DEF F
  <2> QED BY <2>1
<1>3. ToAnnexB(sample, c, key) = LET end == (CHOOSE r : Loop(r))[L]
                                 IN  IF end.pos = NoBytes THEN NoBytes ELSE end.out
    BY DEF ToAnnexB, Place, Start
<1>4. PICK r : /\ Loop(r)
               /\ ToAnnexB(sample, c, key) = IF r[L].pos = NoBytes THEN NoBytes ELSE r[L].out
  <2> HIDE DEF Loop, L, Q
  <2> QED BY <1>2, <1>3
<1>5. \A i \in 0..L : r[i] = F(r, i)
  <2> HIDE DEF F
  <2> QED BY <1>4
<1> HIDE DEF Loop, Q, L, start
<1>6. r[L] = R[L]
  <2> DEFINE T == {i \in 0..L : r[i] = R[i]}
  <2>1. 0 \in T
      BY <1>1, <1>5 DEF Turns, start
  <2>2. ASSUME NEW i \in 1..L, i - 1 \in T PROVE i \in T
    <3>1. i \in 0..L /\ i # 0 /\ r[i - 1] = R[i - 1]
        BY <1>1, <2>2
    <3>2. r[i] = Turn(sample, c.length, r[i - 1])
        BY <1>5, <3>1
    <3>3. R[i] = Turn(sample, c.length, R[i - 1])
        BY DEF Turns, L
    <3> QED BY <3>1, <3>2, <3>3
  <2> HIDE DEF T, F
  <2>3. \A i \in 0..L : i \in T
      BY <1>1, <2>1, <2>2, CountingTo
  <2>4. L \in 0..L
      BY <1>1
  <2> QED BY <2>3, <2>4 DEF T
<1> QED BY <1>4, <1>6 DEF L

\* What grows by one at least.
LEMMA Growing ==
    ASSUME NEW n \in Nat, NEW l, \A k \in 0..n : l[k] \in Nat,
           \A k \in 1..n : l[k - 1] < l[k]
    PROVE  \A k \in 0..n : k <= l[k] /\ l[k] + (n - k) <= l[n]
<1> DEFINE T == {k \in 0..n : k <= l[k]}
           U == {k \in 0..n : l[n - k] + k <= l[n]}
<1>1. 0 \in T
    OBVIOUS
<1>2. ASSUME NEW k \in 1..n, k - 1 \in T PROVE k \in T
  <2>1. k \in 0..n /\ k - 1 \in 0..n /\ l[k] \in Nat /\ l[k - 1] \in Nat
      OBVIOUS
  <2>2. l[k - 1] < l[k] /\ k - 1 <= l[k - 1]
      BY <1>2
  <2> QED BY <2>1, <2>2
<1>3. 0 \in U
    OBVIOUS
<1>4. ASSUME NEW k \in 1..n, k - 1 \in U PROVE k \in U
  <2>1. n - k \in 0..n /\ n - (k - 1) \in 1..n /\ n - (k - 1) - 1 = n - k
      OBVIOUS
  <2>2. l[n - k] \in Nat /\ l[n - (k - 1)] \in Nat /\ l[n] \in Nat
      BY <2>1
  <2>3. l[n - k] < l[n - (k - 1)]
      BY <2>1
  <2>4. l[n - (k - 1)] + (k - 1) <= l[n]
      BY <1>4
  <2>5. l[n - k] + k <= l[n]
      BY <2>2, <2>3, <2>4
  <2> QED BY <2>5
<1> HIDE DEF T, U
<1>5. \A k \in 0..n : k \in T
    BY <1>1, <1>2, CountingTo
<1>6. \A k \in 0..n : k \in U
    BY <1>3, <1>4, CountingTo
<1>7. ASSUME NEW k \in 0..n PROVE l[k] + (n - k) <= l[n]
  <2>1. n - k \in 0..n /\ n - (n - k) = k
      OBVIOUS
  <2> QED BY <1>6, <2>1 DEF U
<1> QED BY <1>5, <1>7 DEF T

\* The units u, as they are stored and joined in g, and what the decoder gets of
\* them, joined in h.
Coding(n, size, u, s, g, t, h) ==
    /\ \A k \in 1..n : /\ u[k] \in Seq(Byte) /\ Fits(u[k], size)
                       /\ s[k] = Stored(u[k], size) /\ t[k] = Piece(u[k])
    /\ Joins(Byte, n, s, g) /\ Joins(Byte, n, t, h)

\* Nothing more can be read behind a.
Ends(a, rest, size) == rest # <<>> => Prefixed(a \o rest, Len(a), size).pos = NoBytes

LEMMA CodingTypes ==
    ASSUME NEW n \in Nat, NEW size \in Nat, size # 0, NEW u, NEW s, NEW g, NEW t, NEW h,
           Coding(n, size, u, s, g, t, h)
    PROVE  /\ g[0] = <<>> /\ h[0] = <<>>
           /\ \A k \in 0..n : /\ g[k] \in Seq(Byte) /\ h[k] \in Seq(Byte) /\ Len(g[k]) \in Nat
                              /\ k <= Len(g[k]) /\ Len(g[k]) + (n - k) <= Len(g[n])
           /\ \A k \in 1..n : /\ h[k] = h[k - 1] \o Piece(u[k])
                              /\ Len(g[k]) = Len(g[k - 1]) + size + Len(u[k])
                              /\ At(g[n], Len(g[k - 1]), Stored(u[k], size))
<1>1. ASSUME NEW k \in 1..n
      PROVE  /\ u[k] \in Seq(Byte) /\ s[k] = Stored(u[k], size) /\ t[k] = Piece(u[k])
             /\ s[k] \in Seq(Byte) /\ t[k] \in Seq(Byte)
             /\ Len(s[k]) = size + Len(u[k]) /\ Len(u[k]) \in Nat
  <2>1. u[k] \in Seq(Byte) /\ Fits(u[k], size) /\ s[k] = Stored(u[k], size) /\ t[k] = Piece(u[k])
      BY DEF Coding
  <2>2. Len(u[k]) \in Nat
      BY <2>1
  <2> QED BY <2>1, <2>2, StoredIs, FramedIs
<1>2. Joins(Byte, n, s, g) /\ Joins(Byte, n, t, h)
    BY DEF Coding
<1>3. (\A k \in 1..n : s[k] \in Seq(Byte)) /\ (\A k \in 1..n : t[k] \in Seq(Byte))
    BY <1>1
<1>4. /\ \A k \in 0..n : g[k] \in Seq(Byte) /\ Len(g[k]) \in Nat
      /\ \A k \in 1..n : Len(g[k]) = Len(g[k - 1]) + Len(s[k])
    BY <1>2, <1>3, JoinsTypes
<1>5. /\ \A k \in 0..n : h[k] \in Seq(Byte)
      /\ \A k \in 1..n : h[k] = h[k - 1] \o t[k]
    BY <1>2, <1>3, JoinsTypes
<1>6. ASSUME NEW k \in 1..n
      PROVE  Len(g[k]) = Len(g[k - 1]) + size + Len(u[k]) /\ Len(g[k - 1]) < Len(g[k])
  <2>1. k - 1 \in 0..n
      OBVIOUS
  <2>2. Len(g[k - 1]) \in Nat
      BY <1>4, <2>1
  <2>3. Len(g[k]) = Len(g[k - 1]) + (size + Len(u[k])) /\ Len(u[k]) \in Nat
      BY <1>1, <1>4
  <2>4. \A a \in Nat, b \in Nat : a + (size + b) = a + size + b /\ a < a + (size + b)
      OBVIOUS
  <2> QED BY <2>2, <2>3, <2>4
<1>7. ASSUME NEW k \in 1..n PROVE At(g[n], Len(g[k - 1]), s[k])
    BY <1>2, <1>3, JoinedAt
<1>8. \A k \in 0..n : k <= Len(g[k]) /\ Len(g[k]) + (n - k) <= Len(g[n])
  <2> DEFINE l == [k \in 0..n |-> Len(g[k])]
  <2>1. \A k \in 0..n : l[k] \in Nat
      BY <1>4
  <2>2. \A k \in 1..n : l[k - 1] < l[k]
    <3>1. \A k \in 1..n : k \in 0..n /\ k - 1 \in 0..n
        OBVIOUS
    <3> QED BY <1>6, <3>1
  <2>3. n \in 0..n
      OBVIOUS
  <2> HIDE DEF l
  <2>4. \A k \in 0..n : k <= l[k] /\ l[k] + (n - k) <= l[n]
      BY <2>1, <2>2, Growing
  <2> QED BY <2>3, <2>4 DEF l
<1>9. g[0] = <<>> /\ h[0] = <<>>
    BY <1>2 DEF Joins
<1> QED BY <1>1, <1>4, <1>5, <1>6, <1>7, <1>8, <1>9

LEMMA Reassociated ==
    ASSUME NEW a \in Seq(Byte), NEW b \in Seq(Byte), NEW d \in Seq(Byte)
    PROVE  (a \o b) \o d = a \o (b \o d)
<1> QED BY ConcatAssociative

LEMMA UnitRead ==
    ASSUME NEW n \in Nat, NEW size \in Nat, size # 0,
           NEW u, NEW s, NEW g, NEW t, NEW h, Coding(n, size, u, s, g, t, h),
           NEW rest \in Seq(Byte), NEW start \in Seq(Byte), NEW k \in 1..n
    PROVE  Turn(g[n] \o rest, size, Place(Len(g[k - 1]), start \o h[k - 1])) =
               Place(Len(g[k]), start \o h[k])
<1>1. k - 1 \in 0..n /\ n \in 0..n
    OBVIOUS
<1> DEFINE a == g[n]
           pos == Len(g[k - 1])
           out == h[k - 1]
           nal == u[k]
<1>2. a \in Seq(Byte) /\ pos \in Nat /\ out \in Seq(Byte)
    BY <1>1, CodingTypes
<1>3. nal \in Seq(Byte) /\ Fits(nal, size)
    BY DEF Coding
<1>4. At(a, pos, Stored(nal, size)) /\ h[k] = out \o Piece(nal) /\ Len(g[k]) = pos + size + Len(nal)
  <2>1. \A i \in 1..n : /\ h[i] = h[i - 1] \o Piece(u[i])
                        /\ Len(g[i]) = Len(g[i - 1]) + size + Len(u[i])
                        /\ At(g[n], Len(g[i - 1]), Stored(u[i], size))
      BY CodingTypes, Zenon
  <2> QED BY <2>1
<1> DEFINE buf == a \o rest
           o == start \o out
<1>5. buf \in Seq(Byte) /\ o \in Seq(Byte) /\ Piece(nal) \in Seq(Byte)
  <2> HIDE DEF a, out, nal
  <2> QED BY <1>2, <1>3, FramedIs
<1>6. At(buf, pos, Stored(nal, size))
  <2>1. Stored(nal, size) \in Seq(Byte)
      BY <1>3, StoredIs
  <2> HIDE DEF a, pos, nal
  <2> QED BY <1>2, <1>4, <2>1, AtLonger
<1>7. o \o Piece(nal) = start \o h[k]
  <2>1. Piece(nal) \in Seq(Byte) /\ out \in Seq(Byte) /\ start \in Seq(Byte)
      BY <1>2, <1>5
  <2> HIDE DEF out, nal
  <2>2. (start \o out) \o Piece(nal) = start \o (out \o Piece(nal))
      BY <2>1, Reassociated
  <2> QED BY <1>4, <2>2
<1> HIDE DEF a, pos, out, nal, buf, o
<1>8. Turn(buf, size, Place(pos, o)) = Place(pos + size + Len(nal), o \o Piece(nal))
    BY <1>2, <1>3, <1>5, <1>6, UnitTurn
<1> QED BY <1>4, <1>7, <1>8 DEF a, pos, out, buf, o

\* A sample of n units with lengths of so many bytes, and then rest, which is
\* nothing or broken.
LEMMA SampleIsRead ==
    ASSUME NEW n \in Nat, NEW size \in Nat, size # 0,
           NEW u, NEW s, NEW g, NEW t, NEW h, Coding(n, size, u, s, g, t, h),
           NEW rest \in Seq(Byte), Ends(g[n], rest, size),
           NEW c, c.length = size, NEW key, Start(c, key) \in Seq(Byte)
    PROVE  ToAnnexB(g[n] \o rest, c, key) =
               IF rest = <<>> THEN Start(c, key) \o h[n] ELSE NoBytes
<1> DEFINE start == Start(c, key)
           buf == g[n] \o rest
<1>0. start \in Seq(Byte)
    OBVIOUS
<1> HIDE DEF start
<1>1. g[0] = <<>> /\ h[0] = <<>>
    BY DEF Coding, Joins
<1>2. n \in 0..n /\ g[n] \in Seq(Byte) /\ Len(g[n]) \in Nat /\ n <= Len(g[n]) /\ h[n] \in Seq(Byte)
  <2>1. n \in 0..n
      OBVIOUS
  <2> QED BY <2>1, CodingTypes
<1> DEFINE L == Len(buf)
           Read(k) == Place(Len(g[k]), start \o h[k])
           AtLast == Place(IF rest = <<>> THEN L ELSE NoBytes, start \o h[n])
           R == [i \in 0..L |-> IF i <= n THEN Read(i) ELSE AtLast]
<1>3. buf \in Seq(Byte) /\ L \in Nat /\ L = Len(g[n]) + Len(rest)
    BY <1>2
<1> HIDE DEF buf
<1>4. /\ rest = <<>> => L = Len(g[n])
      /\ rest # <<>> => Len(g[n]) < L
  <2>1. Len(rest) \in Nat /\ (rest = <<>> <=> Len(rest) = 0)
      OBVIOUS
  <2> HIDE DEF L
  <2> QED BY <1>2, <1>3, <2>1
<1>5. ASSUME NEW k \in 1..n PROVE Turn(buf, size, Read(k - 1)) = Read(k)
  <2>1. Turn(g[n] \o rest, size, Place(Len(g[k - 1]), start \o h[k - 1])) =
            Place(Len(g[k]), start \o h[k])
      BY <1>0, UnitRead
  <2> QED BY <2>1 DEF buf
<1>6. Turn(buf, size, AtLast) = AtLast
  <2> DEFINE r == AtLast
  <2>1. r.pos \in {NoBytes, Len(buf)}
      BY PlaceIs
  <2> HIDE DEF r
  <2>2. Turn(buf, size, r) = r
      BY <2>1 DEF Turn
  <2> QED BY <2>2 DEF r
<1>7. rest = <<>> => Read(n) = AtLast
    BY <1>4
<1>8. rest # <<>> => Turn(buf, size, Read(n)) = AtLast
  <2>1. SUFFICES ASSUME rest # <<>> PROVE Turn(buf, size, Read(n)) = AtLast
      OBVIOUS
  <2> DEFINE r == Read(n)
             p == Prefixed(buf, r.pos, size)
  <2>2. r.pos = Len(g[n]) /\ r.out = start \o h[n]
      BY PlaceIs
  <2> HIDE DEF r
  <2>3. p.pos = NoBytes
      BY <2>1, <2>2 DEF Ends, buf
  <2>4. r.pos \notin {NoBytes, Len(buf)}
      BY <1>2, <1>4, <2>1, <2>2, NoBytesApart
  <2>5. Turn(buf, size, r) = [pos |-> NoBytes, out |-> r.out]
      BY <2>3, <2>4 DEF Turn
  <2>6. Turn(buf, size, r) = AtLast
      BY <2>1, <2>2, <2>5 DEF Place
  <2> QED BY <2>6 DEF r
<1>9. Read(0) = Place(0, start)
  <2>1. Len(<<>>) = 0 /\ start \o <<>> = start
      OBVIOUS
  <2> QED BY <1>1, <2>1
<1>10. n <= L
  <2>1. Len(rest) \in Nat
      OBVIOUS
  <2> HIDE DEF L
  <2> QED BY <1>2, <1>3, <2>1
<1>11. \A i \in 0..L : R[i] = IF i <= n THEN Read(i) ELSE AtLast
  <2> HIDE DEF Read, AtLast, L
  <2> QED OBVIOUS
<1> HIDE DEF R, Read, AtLast, L
<1>12. ASSUME NEW i \in 1..L PROVE R[i] = Turn(buf, size, R[i - 1])
  <2>1. i \in 0..L /\ i - 1 \in 0..L
      BY <1>3
  <2>2. CASE i <= n
    <3>1. i \in 1..n /\ i - 1 <= n
        BY <1>3, <2>2
    <3>2. R[i] = Read(i) /\ R[i - 1] = Read(i - 1)
        BY <1>11, <2>1, <2>2, <3>1
    <3> QED BY <1>5, <3>1, <3>2
  <2>3. CASE i = n + 1
    <3>1. ~(i <= n) /\ i - 1 = n /\ n <= n
        BY <2>3
    <3>2. R[i] = AtLast /\ R[i - 1] = Read(n)
        BY <1>11, <2>1, <3>1
    <3> QED BY <1>6, <1>7, <1>8, <3>2
  <2>4. CASE i > n + 1
    <3>1. ~(i <= n) /\ ~(i - 1 <= n)
        BY <1>3, <2>4
    <3>2. R[i] = AtLast /\ R[i - 1] = AtLast
        BY <1>11, <2>1, <3>1
    <3> QED BY <1>6, <3>2
  <2>5. i <= n \/ i = n + 1 \/ i > n + 1
      BY <1>3
  <2> QED BY <2>2, <2>3, <2>4, <2>5
<1>13. R[0] = Place(0, start)
  <2>1. 0 \in 0..L /\ 0 <= n
      BY <1>3
  <2> QED BY <1>9, <1>11, <2>1
<1>14. R[L] = AtLast
  <2>1. L \in 0..L
      BY <1>3
  <2>2. CASE L = n
    <3>1. rest = <<>>
        BY <1>2, <1>3, <1>4, <2>2
    <3>2. n <= n
        OBVIOUS
    <3> QED BY <1>7, <1>11, <2>1, <2>2, <3>1, <3>2
  <2>3. CASE L # n
    <3>1. ~(L <= n)
        BY <1>3, <1>10, <2>3
    <3> QED BY <1>11, <2>1, <3>1
  <2> QED BY <2>2, <2>3
<1>15. Turns(buf, size, start, R)
    BY <1>12, <1>13 DEF Turns, L
<1>16. ToAnnexB(buf, c, key) = IF R[L].pos = NoBytes THEN NoBytes ELSE R[L].out
  <2>1. Turns(buf, c.length, Start(c, key), R) /\ buf \in Seq(Byte)
      BY <1>3, <1>15 DEF start
  <2> HIDE DEF L
  <2>2. ToAnnexB(buf, c, key) = IF R[Len(buf)].pos = NoBytes THEN NoBytes ELSE R[Len(buf)].out
      BY <2>1, LoopEnds
  <2> QED BY <2>2 DEF L
<1>17. R[L].pos = (IF rest = <<>> THEN L ELSE NoBytes) /\ R[L].out = start \o h[n]
  <2> DEFINE p == IF rest = <<>> THEN L ELSE NoBytes
             o == start \o h[n]
  <2>1. R[L] = Place(p, o)
      BY <1>14 DEF AtLast
  <2> HIDE DEF p, o
  <2>2. R[L].pos = p /\ R[L].out = o
      BY <2>1, PlaceIs
  <2> QED BY <2>2 DEF p, o
<1>18. L # NoBytes
    BY <1>3, NoBytesApart
<1>19. ToAnnexB(buf, c, key) = IF rest = <<>> THEN start \o h[n] ELSE NoBytes
    BY <1>16, <1>17, <1>18
<1> QED BY <1>19 DEF start, buf

----------------------------------------------------------------------------
(***************************************************************************)
(* clamp_sps_level lowers the level of an SPS and touches nothing else.    *)
(***************************************************************************)

LevelAt(d, i) == /\ i > 6 /\ d[i - 6] = 0 /\ d[i - 5] = 0 /\ d[i - 4] = 1
                 /\ d[i - 3] % 32 = 7 /\ d[i] > 52

LEMMA ThreeBytes ==
    ASSUME NEW d \in Seq(Byte), NEW i \in 3..Len(d)
    PROVE  SubSeq(d, i - 2, i) = <<0, 0, 1>> <=> d[i - 2] = 0 /\ d[i - 1] = 0 /\ d[i] = 1
<1> DEFINE v == SubSeq(d, i - 2, i)
<1>1. v \in Seq(Byte) /\ Len(v) = 3 /\ v[1] = d[i - 2] /\ v[2] = d[i - 1] /\ v[3] = d[i]
  <2>1. \A k \in 1..Len(d) : d[k] \in Byte
      OBVIOUS
  <2>2. i - 2 \in 1..Len(d) /\ i - 1 \in 1..Len(d) /\ i \in 1..Len(d)
      OBVIOUS
  <2>3. v \in Seq(Byte) /\ Len(v) = 3
      BY <2>1, <2>2
  <2>4. \A k \in 1..3 : v[k] = d[i - 2 + k - 1]
      BY <2>2
  <2>5. 1 \in 1..3 /\ 2 \in 1..3 /\ 3 \in 1..3
      OBVIOUS
  <2>6. i - 2 + 1 - 1 = i - 2 /\ i - 2 + 2 - 1 = i - 1 /\ i - 2 + 3 - 1 = i
      OBVIOUS
  <2> HIDE DEF v
  <2> QED BY <2>3, <2>4, <2>5, <2>6
<1> HIDE DEF v
<1> DEFINE w == <<0, 0, 1>>
<1>2. w \in Seq(Byte) /\ Len(w) = 3 /\ w[1] = 0 /\ w[2] = 0 /\ w[3] = 1
    BY DEF Byte
<1>3. ASSUME d[i - 2] = 0, d[i - 1] = 0, d[i] = 1 PROVE v = w
  <2> HIDE DEF w
  <2>1. \A k \in 1..3 : k = 1 \/ k = 2 \/ k = 3
      OBVIOUS
  <2>2. \A k \in 1..Len(v) : v[k] = w[k]
      BY <1>1, <1>2, <1>3, <2>1
  <2> QED BY <1>1, <1>2, <2>2, SeqEqual
<1>4. ASSUME v = w PROVE d[i - 2] = 0 /\ d[i - 1] = 0 /\ d[i] = 1
  <2> HIDE DEF w
  <2> QED BY <1>1, <1>2, <1>4
<1> QED BY <1>3, <1>4 DEF v, w

LEMMA LevelIs ==
    ASSUME NEW d \in Seq(Byte), NEW i \in 1..Len(d)
    PROVE  ClampSpsLevel(d)[i] = IF LevelAt(d, i) THEN 52 ELSE d[i]
<1>1. ClampSpsLevel(d)[i] = IF IsLevel(d, i) THEN 52 ELSE d[i]
    BY DEF ClampSpsLevel, MaxLevel
<1>2. CASE i > 6
  <2>1. i - 4 \in 3..Len(d) /\ (i - 4) - 2 = i - 6 /\ (i - 4) - 1 = i - 5
      BY <1>2
  <2>2. SubSeq(d, i - 6, i - 4) = <<0, 0, 1>> <=> d[i - 6] = 0 /\ d[i - 5] = 0 /\ d[i - 4] = 1
    <3> DEFINE k == i - 4
    <3>1. k \in 3..Len(d) /\ k - 2 = i - 6 /\ k - 1 = i - 5
        BY <2>1
    <3> HIDE DEF k
    <3>2. SubSeq(d, k - 2, k) = <<0, 0, 1>> <=> d[k - 2] = 0 /\ d[k - 1] = 0 /\ d[k] = 1
        BY <3>1, ThreeBytes
    <3> QED BY <3>1, <3>2 DEF k
  <2>3. IsLevel(d, i) <=> LevelAt(d, i)
      BY <2>2 DEF IsLevel, LevelAt, MaxLevel
  <2> QED BY <1>1, <2>3
<1>3. CASE ~(i > 6)
    BY <1>1, <1>3 DEF IsLevel, LevelAt
<1> QED BY <1>2, <1>3

LEMMA Clamped ==
    ASSUME NEW d \in Seq(Byte)
    PROVE  ClampSpsLevel(d) \in Seq(Byte) /\ Len(ClampSpsLevel(d)) = Len(d)
<1>1. \A i \in 1..Len(d) : (IF IsLevel(d, i) THEN MaxLevel ELSE d[i]) \in Byte
  <2>1. MaxLevel \in Byte
      BY DEF MaxLevel, Byte
  <2> QED BY <2>1
<1> QED BY <1>1 DEF ClampSpsLevel

Lower(nal) == IF Len(nal) >= 4 /\ nal[1] % 32 = 7 /\ nal[4] > 52 THEN [nal EXCEPT ![4] = 52] ELSE nal

LEMMA LowerIs ==
    ASSUME NEW nal \in Seq(Byte)
    PROVE  /\ Lower(nal) \in Seq(Byte) /\ Len(Lower(nal)) = Len(nal)
           /\ (Lower(nal) = <<>> <=> nal = <<>>)
           /\ \A j \in 1..Len(nal) :
                 Lower(nal)[j] = IF j = 4 /\ nal[1] % 32 = 7 /\ nal[4] > 52 THEN 52 ELSE nal[j]
<1> DEFINE l == [nal EXCEPT ![4] = 52]
<1>1. l \in Seq(Byte) /\ Len(l) = Len(nal) /\ \A j \in 1..Len(nal) : l[j] = IF j = 4 THEN 52 ELSE nal[j]
  <2>1. 52 \in Byte
      BY DEF Byte
  <2> DEFINE q == [i \in 1..Len(nal) |-> IF i = 4 THEN 52 ELSE nal[i]]
  <2>2. \A i \in 1..Len(nal) : (IF i = 4 THEN 52 ELSE nal[i]) \in Byte
      BY <2>1
  <2>3. q \in Seq(Byte) /\ Len(q) = Len(nal)
      BY <2>2
  <2>4. l = q
      OBVIOUS
  <2>5. \A j \in 1..Len(nal) : q[j] = IF j = 4 THEN 52 ELSE nal[j]
      OBVIOUS
  <2> HIDE DEF l, q
  <2> QED BY <2>3, <2>4, <2>5
<1> HIDE DEF l
<1>2. Lower(nal) = IF Len(nal) >= 4 /\ nal[1] % 32 = 7 /\ nal[4] > 52 THEN l ELSE nal
    BY DEF Lower, l
<1>3. Lower(nal) \in Seq(Byte) /\ Len(Lower(nal)) = Len(nal)
    BY <1>1, <1>2
<1>4. \A j \in 1..Len(nal) :
          Lower(nal)[j] = IF j = 4 /\ nal[1] % 32 = 7 /\ nal[4] > 52 THEN 52 ELSE nal[j]
  <2>1. CASE Len(nal) >= 4 /\ nal[1] % 32 = 7 /\ nal[4] > 52
      BY <1>1, <1>2, <2>1
  <2>2. CASE ~(Len(nal) >= 4 /\ nal[1] % 32 = 7 /\ nal[4] > 52)
    <3>1. Lower(nal) = nal
        BY <1>2, <2>2
    <3>2. \A j \in 1..Len(nal) : ~(j = 4 /\ nal[1] % 32 = 7 /\ nal[4] > 52)
        BY <2>2
    <3> QED BY <3>1, <3>2
  <2> QED BY <2>1, <2>2
<1>5. Lower(nal) = <<>> <=> nal = <<>>
  <2>1. \A w \in Seq(Byte) : w = <<>> <=> Len(w) = 0
      OBVIOUS
  <2> QED BY <1>3, <2>1
<1> QED BY <1>3, <1>4, <1>5

LEMMA JoinedIs ==
    ASSUME NEW a \in Seq(Byte), NEW b \in Seq(Byte)
    PROVE  /\ a \o b \in Seq(Byte) /\ Len(a \o b) = Len(a) + Len(b)
           /\ \A i \in 1..Len(a) : (a \o b)[i] = a[i]
           /\ \A j \in 1..Len(b) : (a \o b)[Len(a) + j] = b[j]
<1> QED OBVIOUS

\* What is where in a framed unit behind a.
LEMMA FramedAt ==
    ASSUME NEW a \in Seq(Byte), NEW nal \in Seq(Byte)
    PROVE  LET m == Len(a)
               d == a \o Framed(nal)
           IN  /\ d \in Seq(Byte) /\ Len(d) = m + 4 + Len(nal)
               /\ \A i \in 1..m : d[i] = a[i]
               /\ d[m + 1] = 0 /\ d[m + 2] = 0 /\ d[m + 3] = 0 /\ d[m + 4] = 1
               /\ \A j \in 1..Len(nal) : d[m + 4 + j] = nal[j]
<1> DEFINE m == Len(a)
           f == Framed(nal)
           d == a \o f
<1>1. f \in Seq(Byte) /\ Len(f) = 4 + Len(nal)
    BY FramedIs
<1>2. f[1] = 0 /\ f[2] = 0 /\ f[3] = 0 /\ f[4] = 1 /\ \A j \in 1..Len(nal) : f[4 + j] = nal[j]
  <2> DEFINE z == <<0, 0, 0, 1>>
  <2>1. z \in Seq(Byte) /\ Len(z) = 4 /\ z[1] = 0 /\ z[2] = 0 /\ z[3] = 0 /\ z[4] = 1
      BY DEF Byte
  <2>2. f = z \o nal
      BY DEF Framed, StartCode
  <2> HIDE DEF z, f
  <2>3. (\A j \in 1..Len(z) : f[j] = z[j]) /\ (\A j \in 1..Len(nal) : f[Len(z) + j] = nal[j])
      BY <2>1, <2>2, JoinedIs
  <2>4. (\A j \in 1..4 : f[j] = z[j]) /\ (\A j \in 1..Len(nal) : f[4 + j] = nal[j])
      BY <2>1, <2>3
  <2>5. 1 \in 1..4 /\ 2 \in 1..4 /\ 3 \in 1..4 /\ 4 \in 1..4
      OBVIOUS
  <2> QED BY <2>1, <2>4, <2>5
<1> HIDE DEF f
<1>3. d \in Seq(Byte) /\ Len(d) = m + (4 + Len(nal)) /\ (\A i \in 1..m : d[i] = a[i])
      /\ \A i \in 1..(4 + Len(nal)) : d[m + i] = f[i]
    BY <1>1
<1>4. 1 \in 1..(4 + Len(nal)) /\ 2 \in 1..(4 + Len(nal)) /\ 3 \in 1..(4 + Len(nal)) /\ 4 \in 1..(4 + Len(nal))
    OBVIOUS
<1>5. m \in Nat /\ Len(nal) \in Nat
    OBVIOUS
<1> HIDE DEF d, m
<1>6. d[m + 1] = 0 /\ d[m + 2] = 0 /\ d[m + 3] = 0 /\ d[m + 4] = 1
    BY <1>2, <1>3, <1>4
<1>7. ASSUME NEW j \in 1..Len(nal) PROVE d[m + 4 + j] = nal[j]
  <2>1. 4 + j \in 1..(4 + Len(nal)) /\ m + (4 + j) = m + 4 + j
      BY <1>5
  <2> QED BY <1>2, <1>3, <2>1
<1>8. Len(d) = m + 4 + Len(nal)
    BY <1>3, <1>5
<1> QED BY <1>3, <1>6, <1>7, <1>8 DEF d, m, f

LEMMA NoStartCodeAt ==
    ASSUME NEW nal \in Seq(Byte), NoStartCode(nal), NEW i \in 3..Len(nal)
    PROVE  ~(nal[i - 2] = 0 /\ nal[i - 1] = 0 /\ nal[i] = 1)
<1>1. SubSeq(nal, i - 2, i) # <<0, 0, 1>>
    BY DEF NoStartCode
<1> QED BY <1>1, ThreeBytes

\* The only level in a unit is the fourth byte of an SPS.
LEMMA LevelInUnit ==
    ASSUME NEW a \in Seq(Byte), NEW nal \in Seq(Byte), NoStartCode(nal), NEW j \in 1..Len(nal)
    PROVE  LevelAt(a \o Framed(nal), Len(a) + 4 + j) <=> j = 4 /\ nal[1] % 32 = 7 /\ nal[4] > 52
<1> DEFINE m == Len(a)
           d == a \o Framed(nal)
           i == m + 4 + j
<1>1. /\ d[m + 1] = 0 /\ d[m + 2] = 0 /\ d[m + 3] = 0 /\ d[m + 4] = 1
      /\ \A k \in 1..Len(nal) : d[m + 4 + k] = nal[k]
    BY FramedAt
<1>2. m \in Nat
    OBVIOUS
<1> HIDE DEF m, d
<1>3. d[i] = nal[j]
    BY <1>1
<1>4. CASE j < 4
  <2>1. d[i - 4] = 0
    <3>1. j = 1 \/ j = 2 \/ j = 3
        BY <1>4
    <3>2. i - 4 = m + j
        BY <1>2
    <3> QED BY <1>1, <3>1, <3>2
  <2>2. ~LevelAt(d, i)
      BY <2>1 DEF LevelAt
  <2> QED BY <1>4, <2>2 DEF d, m
<1>5. CASE j = 4
  <2>1. i - 6 = m + 2 /\ i - 5 = m + 3 /\ i - 4 = m + 4 /\ i - 3 = m + 4 + 1 /\ i > 6
      BY <1>2, <1>5
  <2>2. d[i - 3] = nal[1]
    <3>1. 1 \in 1..Len(nal)
        BY <1>5
    <3> QED BY <1>1, <2>1, <3>1
  <2>3. LevelAt(d, i) <=> nal[1] % 32 = 7 /\ nal[4] > 52
    <3>1. d[i - 6] = 0 /\ d[i - 5] = 0 /\ d[i - 4] = 1 /\ i > 6
        BY <1>1, <2>1
    <3> HIDE DEF i
    <3>2. LevelAt(d, i) <=> d[i - 3] % 32 = 7 /\ d[i] > 52
        BY <3>1 DEF LevelAt
    <3> QED BY <1>3, <1>5, <2>2, <3>2
  <2> QED BY <1>5, <2>3 DEF d, m
<1>6. CASE j = 5 \/ j = 6
  <2>1. i - 5 = m + 4 \/ i - 6 = m + 4
      BY <1>2, <1>6
  <2>2. ~(d[i - 6] = 0 /\ d[i - 5] = 0)
      BY <1>1, <2>1
  <2>3. ~LevelAt(d, i)
      BY <2>2 DEF LevelAt
  <2> QED BY <1>6, <2>3 DEF d, m
<1>7. CASE j > 6
  <2>1. i - 6 = m + 4 + (j - 6) /\ i - 5 = m + 4 + (j - 5) /\ i - 4 = m + 4 + (j - 4)
      BY <1>2, <1>7
  <2>2. j - 6 \in 1..Len(nal) /\ j - 5 \in 1..Len(nal) /\ j - 4 \in 3..Len(nal) /\ j - 4 \in 1..Len(nal)
      BY <1>7
  <2>3. d[i - 6] = nal[j - 6] /\ d[i - 5] = nal[j - 5] /\ d[i - 4] = nal[j - 4]
      BY <1>1, <2>1, <2>2
  <2>4. ~(nal[j - 6] = 0 /\ nal[j - 5] = 0 /\ nal[j - 4] = 1)
    <3> DEFINE k == j - 4
    <3>1. k \in 3..Len(nal) /\ k - 2 = j - 6 /\ k - 1 = j - 5
        BY <2>2
    <3> HIDE DEF k
    <3>2. ~(nal[k - 2] = 0 /\ nal[k - 1] = 0 /\ nal[k] = 1)
        BY <3>1, NoStartCodeAt
    <3> QED BY <3>1, <3>2 DEF k
  <2>5. ~LevelAt(d, i)
      BY <2>3, <2>4 DEF LevelAt
  <2> QED BY <1>7, <2>5 DEF d, m
<1>8. j < 4 \/ j = 4 \/ j = 5 \/ j = 6 \/ j > 6
    OBVIOUS
<1> QED BY <1>4, <1>5, <1>6, <1>7, <1>8

LEMMA ClampsUnit ==
    ASSUME NEW a \in Seq(Byte), NEW nal \in Seq(Byte), NoStartCode(nal)
    PROVE  ClampSpsLevel(a \o Framed(nal)) = ClampSpsLevel(a) \o Framed(Lower(nal))
<1> DEFINE m == Len(a)
           d == a \o Framed(nal)
           c == ClampSpsLevel(d)
           b == ClampSpsLevel(a)
           l == Lower(nal)
           e == b \o Framed(l)
<1>1. /\ d \in Seq(Byte) /\ Len(d) = m + 4 + Len(nal)
      /\ \A i \in 1..m : d[i] = a[i]
      /\ d[m + 1] = 0 /\ d[m + 2] = 0 /\ d[m + 3] = 0 /\ d[m + 4] = 1
      /\ \A j \in 1..Len(nal) : d[m + 4 + j] = nal[j]
    BY FramedAt
<1>2. b \in Seq(Byte) /\ Len(b) = m
    BY Clamped
<1>3. l \in Seq(Byte) /\ Len(l) = Len(nal)
    BY LowerIs
<1>4. /\ e \in Seq(Byte) /\ Len(e) = m + 4 + Len(nal)
      /\ \A i \in 1..m : e[i] = b[i]
      /\ e[m + 1] = 0 /\ e[m + 2] = 0 /\ e[m + 3] = 0 /\ e[m + 4] = 1
      /\ \A j \in 1..Len(nal) : e[m + 4 + j] = l[j]
  <2> HIDE DEF b, l, m, e
  <2>1. /\ e \in Seq(Byte) /\ Len(e) = Len(b) + 4 + Len(l)
        /\ \A i \in 1..Len(b) : e[i] = b[i]
        /\ e[Len(b) + 1] = 0 /\ e[Len(b) + 2] = 0 /\ e[Len(b) + 3] = 0 /\ e[Len(b) + 4] = 1
        /\ \A j \in 1..Len(l) : e[Len(b) + 4 + j] = l[j]
    <3>1. b \in Seq(Byte) /\ l \in Seq(Byte)
        BY <1>2, <1>3
    <3> QED BY <3>1, FramedAt DEF e
  <2> QED BY <1>2, <1>3, <2>1
<1>5. m \in Nat /\ Len(nal) \in Nat
    OBVIOUS
<1>6. c \in Seq(Byte) /\ Len(c) = Len(d)
  <2> HIDE DEF d
  <2> QED BY <1>1, Clamped
<1>7. \A i \in 1..Len(d) : c[i] = IF LevelAt(d, i) THEN 52 ELSE d[i]
  <2> HIDE DEF d
  <2> QED BY <1>1, LevelIs
<1>8. \A i \in 1..m : b[i] = IF LevelAt(a, i) THEN 52 ELSE a[i]
    BY LevelIs
<1>9. \A j \in 1..Len(nal) : LevelAt(d, m + 4 + j) <=> j = 4 /\ nal[1] % 32 = 7 /\ nal[4] > 52
    BY LevelInUnit
<1>10. \A j \in 1..Len(nal) : l[j] = IF j = 4 /\ nal[1] % 32 = 7 /\ nal[4] > 52 THEN 52 ELSE nal[j]
    BY LowerIs
<1> HIDE DEF m, d, c, b, l, e
<1>11. ASSUME NEW i \in 1..Len(d) PROVE c[i] = e[i]
  <2>1. CASE i <= m
    <3>1. i \in 1..m
        BY <1>5, <2>1
    <3>2. LevelAt(d, i) <=> LevelAt(a, i)
      <4>1. CASE i > 6
        <5>1. i - 6 \in 1..m /\ i - 5 \in 1..m /\ i - 4 \in 1..m /\ i - 3 \in 1..m
            BY <3>1, <4>1, <1>5
        <5>2. d[i - 6] = a[i - 6] /\ d[i - 5] = a[i - 5] /\ d[i - 4] = a[i - 4] /\ d[i - 3] = a[i - 3]
              /\ d[i] = a[i]
            BY <1>1, <3>1, <5>1
        <5> QED BY <5>2 DEF LevelAt
      <4>2. CASE ~(i > 6)
          BY <4>2 DEF LevelAt
      <4> QED BY <4>1, <4>2
    <3>3. d[i] = a[i] /\ e[i] = b[i]
        BY <1>1, <1>4, <3>1
    <3> QED BY <1>7, <1>8, <3>1, <3>2, <3>3
  <2>2. CASE i > m /\ i <= m + 4
    <3>1. i = m + 1 \/ i = m + 2 \/ i = m + 3 \/ i = m + 4
        BY <1>5, <2>2
    <3>2. d[i] = e[i] /\ (d[i] = 0 \/ d[i] = 1)
        BY <1>1, <1>4, <3>1
    <3>3. ~LevelAt(d, i)
        BY <3>2 DEF LevelAt
    <3> QED BY <1>7, <3>2, <3>3
  <2>3. CASE i > m + 4
    <3>1. PICK j \in 1..Len(nal) : i = m + 4 + j
      <4>1. i - (m + 4) \in 1..Len(nal) /\ i = m + 4 + (i - (m + 4))
          BY <1>1, <1>5, <2>3
      <4> QED BY <4>1
    <3>2. d[i] = nal[j] /\ e[i] = l[j]
        BY <1>1, <1>4, <3>1
    <3>3. LevelAt(d, i) <=> j = 4 /\ nal[1] % 32 = 7 /\ nal[4] > 52
        BY <1>9, <3>1
    <3> QED BY <1>7, <1>10, <3>2, <3>3
  <2>4. i <= m \/ (i > m /\ i <= m + 4) \/ i > m + 4
      BY <1>5
  <2> QED BY <2>1, <2>2, <2>3, <2>4
<1>12. c = e
  <2>1. Len(c) = Len(e)
      BY <1>1, <1>4, <1>6
  <2>2. \A i \in 1..Len(c) : c[i] = e[i]
      BY <1>6, <1>11
  <2> QED BY <1>4, <1>6, <2>1, <2>2, SeqEqual
<1> QED BY <1>12 DEF c, e, d, b, l

LEMMA ClampsNothing == ClampSpsLevel(<<>>) = <<>>
<1>1. <<>> \in Seq(Byte) /\ Len(<<>>) = 0
    OBVIOUS
<1>2. ClampSpsLevel(<<>>) \in Seq(Byte) /\ Len(ClampSpsLevel(<<>>)) = 0
    BY <1>1, Clamped
<1> QED BY <1>2

\* What the decoder gets of the units u, in t, and of them lowered, in w.
Lowering(n, u, t, w) == \A i \in 1..n : /\ u[i] \in Seq(Byte) /\ NoStartCode(u[i])
                                        /\ t[i] = Piece(u[i]) /\ w[i] = Piece(Lower(u[i]))

\* Joined in k: what the decoder gets of the units once their levels are lowered.
LEMMA ClampsUnits ==
    ASSUME NEW n \in Nat, NEW u, NEW t, NEW h, NEW w, NEW k,
           Lowering(n, u, t, w),
           Joins(Byte, n, t, h), Joins(Byte, n, w, k), NEW a \in Seq(Byte)
    PROVE  ClampSpsLevel(a \o h[n]) = ClampSpsLevel(a) \o k[n]
<1>0. \A i \in 1..n : /\ u[i] \in Seq(Byte) /\ NoStartCode(u[i])
                      /\ t[i] = Piece(u[i]) /\ w[i] = Piece(Lower(u[i]))
    BY DEF Lowering
<1>1. ASSUME NEW i \in 1..n
      PROVE  t[i] \in Seq(Byte) /\ w[i] \in Seq(Byte)
    BY <1>0, LowerIs, FramedIs
<1>2. /\ \A i \in 0..n : h[i] \in Seq(Byte)
      /\ \A i \in 1..n : h[i] = h[i - 1] \o t[i]
    BY <1>1, JoinsTypes
<1>3. /\ \A i \in 0..n : k[i] \in Seq(Byte)
      /\ \A i \in 1..n : k[i] = k[i - 1] \o w[i]
    BY <1>1, JoinsTypes
<1> DEFINE T == {i \in 0..n : ClampSpsLevel(a \o h[i]) = ClampSpsLevel(a) \o k[i]}
<1>4. ClampSpsLevel(a) \in Seq(Byte)
    BY Clamped
<1>5. 0 \in T
  <2>1. h[0] = <<>> /\ k[0] = <<>>
      BY DEF Joins
  <2>2. a \o <<>> = a /\ ClampSpsLevel(a) \o <<>> = ClampSpsLevel(a)
      BY <1>4
  <2>3. ClampSpsLevel(a \o h[0]) = ClampSpsLevel(a) \o k[0]
      BY <2>1, <2>2
  <2>4. 0 \in 0..n
      OBVIOUS
  <2> QED BY <2>3, <2>4
<1>6. ASSUME NEW i \in 1..n, i - 1 \in T PROVE i \in T
  <2>1. i \in 0..n /\ i - 1 \in 0..n
      OBVIOUS
  <2> DEFINE x == h[i - 1]
             y == k[i - 1]
             v == u[i]
             b == ClampSpsLevel(a)
  <2>2. x \in Seq(Byte) /\ y \in Seq(Byte) /\ v \in Seq(Byte) /\ NoStartCode(v)
      BY <1>0, <1>2, <1>3, <2>1
  <2>3. h[i] = x \o Piece(v) /\ k[i] = y \o Piece(Lower(v))
      BY <1>0, <1>2, <1>3
  <2>4. ClampSpsLevel(a \o x) = b \o y
      BY <1>6
  <2>5. b \in Seq(Byte)
      BY <1>4
  <2> HIDE DEF x, y, v, b
  <2>6. Lower(v) \in Seq(Byte) /\ (Lower(v) = <<>> <=> v = <<>>)
      BY <2>2, LowerIs
  <2>7. CASE v = <<>>
    <3>1. h[i] = x \o <<>> /\ k[i] = y \o <<>>
        BY <2>3, <2>6, <2>7 DEF Piece
    <3>2. h[i] = x /\ k[i] = y
        BY <2>2, <3>1
    <3> QED BY <2>1, <2>4, <3>2 DEF b
  <2>8. CASE v # <<>>
    <3>1. h[i] = x \o Framed(v) /\ k[i] = y \o Framed(Lower(v))
        BY <2>3, <2>6, <2>8 DEF Piece
    <3>2. Framed(v) \in Seq(Byte) /\ Framed(Lower(v)) \in Seq(Byte)
        BY <2>2, <2>6, FramedIs
    <3>3. a \o h[i] = (a \o x) \o Framed(v)
      <4>1. (a \o x) \o Framed(v) = a \o (x \o Framed(v))
        <5>1. x \in Seq(Byte) /\ Framed(v) \in Seq(Byte)
            BY <2>2, <3>2
        <5> QED BY <5>1, Reassociated
      <4> QED BY <3>1, <4>1
    <3>4. a \o x \in Seq(Byte)
        BY <2>2
    <3>5. ClampSpsLevel((a \o x) \o Framed(v)) = ClampSpsLevel(a \o x) \o Framed(Lower(v))
        BY <2>2, <3>4, ClampsUnit
    <3>6. (b \o y) \o Framed(Lower(v)) = b \o k[i]
      <4>1. (b \o y) \o Framed(Lower(v)) = b \o (y \o Framed(Lower(v)))
        <5>1. y \in Seq(Byte) /\ b \in Seq(Byte) /\ Framed(Lower(v)) \in Seq(Byte)
            BY <2>2, <2>5, <3>2
        <5> QED BY <5>1, Reassociated
      <4> QED BY <3>1, <4>1
    <3>7. ClampSpsLevel(a \o h[i]) = b \o k[i]
        BY <2>4, <3>3, <3>5, <3>6
    <3> QED BY <2>1, <3>7 DEF b
  <2> QED BY <2>7, <2>8
<1> HIDE DEF T
<1>7. n \in T
  <2>1. \A i \in 0..n : i \in T
      BY <1>5, <1>6, CountingTo
  <2>2. n \in 0..n
      OBVIOUS
  <2> QED BY <2>1, <2>2
<1> QED BY <1>7 DEF T

----------------------------------------------------------------------------
(***************************************************************************)
(* avcC and hvcC: what was written is parsed.                              *)
(***************************************************************************)

Found(pos, list) == [pos |-> pos, sets |-> list]

LEMMA FoundIs ==
    ASSUME NEW pos, NEW list
    PROVE  Found(pos, list).pos = pos /\ Found(pos, list).sets = list
<1> QED BY DEF Found

\* A turn of Several.
Another(buf, skip, q) ==
    IF q.pos = NoBytes \/ q.pos + skip > Len(buf) THEN [pos |-> NoBytes, sets |-> <<>>]
    ELSE LET p == Prefixed(buf, q.pos + skip, 2)
         IN [pos |-> p.pos, sets |-> Append(q.sets, p.got)]

LEMMA AnotherIs ==
    ASSUME NEW buf \in Seq(Byte), NEW pos \in Nat, NEW skip \in Nat, NEW list,
           NEW nal \in Seq(Byte), Fits(nal, 2), At(buf, pos + skip, Stored(nal, 2))
    PROVE  Another(buf, skip, Found(pos, list)) = Found(pos + skip + 2 + Len(nal), Append(list, nal))
<1> DEFINE q == Found(pos, list)
           p == Prefixed(buf, q.pos + skip, 2)
<1>1. q.pos = pos /\ q.sets = list
    BY FoundIs
<1> HIDE DEF q
<1>2. p.pos = pos + skip + 2 + Len(nal) /\ p.got = nal
  <2>1. pos + skip \in Nat /\ 2 \in Nat
      OBVIOUS
  <2>2. p = [pos |-> pos + skip + 2 + Len(nal), got |-> nal]
      BY <1>1, <2>1, ReadsBack
  <2> HIDE DEF p
  <2> QED BY <2>2
<1>3. ~(q.pos = NoBytes \/ q.pos + skip > Len(buf))
  <2>1. pos # NoBytes
      BY NoBytesApart
  <2>2. pos + skip <= Len(buf)
    <3>1. Len(Stored(nal, 2)) = 2 + Len(nal)
        BY StoredIs
    <3>2. pos + skip + Len(Stored(nal, 2)) <= Len(buf)
        BY DEF At
    <3>3. Len(nal) \in Nat /\ Len(buf) \in Nat
        OBVIOUS
    <3> QED BY <3>1, <3>2, <3>3
  <2>3. Len(buf) \in Nat
      OBVIOUS
  <2> QED BY <1>1, <2>1, <2>2, <2>3
<1>4. Another(buf, skip, q) = [pos |-> p.pos, sets |-> Append(q.sets, p.got)]
    BY <1>3 DEF Another
<1> HIDE DEF p
<1> QED BY <1>1, <1>2, <1>4 DEF q, Found

Others(buf, start, count, skip, R) ==
    /\ R[0] = Found(start, <<>>)
    /\ \A i \in 1..count : R[i] = Another(buf, skip, R[i - 1])

LEMMA SeveralIs ==
    ASSUME NEW buf, NEW start, NEW count \in Nat, NEW skip, NEW R,
           Others(buf, start, count, skip, R)
    PROVE  Several(buf, start, count, skip) = R[count]
<1> DEFINE F(r, i) == IF i = 0 THEN Found(start, <<>>) ELSE Another(buf, skip, r[i - 1])
           Loop(r) == r = [i \in 0..count |-> F(r, i)]
           Q == [i \in 0..count |-> R[i]]
<1>0. R[0] = Found(start, <<>>) /\ \A i \in 1..count : R[i] = Another(buf, skip, R[i - 1])
    BY DEF Others
<1>1. Loop(Q)
  <2>1. ASSUME NEW i \in 0..count PROVE R[i] = F(Q, i)
    <3>1. CASE i = 0
        BY <1>0, <3>1
    <3>2. CASE i # 0
      <4>1. i \in 1..count /\ i - 1 \in 0..count
          BY <3>2
      <4>2. Q[i - 1] = R[i - 1]
          BY <4>1
      <4> HIDE DEF Q
      <4> QED BY <1>0, <3>2, <4>1, <4>2
    <3> QED BY <3>1, <3>2
  <2> HIDE DEF F
  <2> QED BY <2>1
<1>2. Several(buf, start, count, skip) = (CHOOSE r : Loop(r))[count]
    BY DEF Several, Found, Another
<1>3. PICK r : Loop(r) /\ Several(buf, start, count, skip) = r[count]
  <2> HIDE DEF Loop, Q
  <2> QED BY <1>1, <1>2
<1>4. \A i \in 0..count : r[i] = F(r, i)
  <2> HIDE DEF F
  <2> QED BY <1>3
<1> HIDE DEF Loop, Q
<1> DEFINE T == {i \in 0..count : r[i] = R[i]}
<1>5. 0 \in T
    BY <1>0, <1>4
<1>6. ASSUME NEW i \in 1..count, i - 1 \in T PROVE i \in T
  <2>1. i \in 0..count /\ i # 0 /\ r[i - 1] = R[i - 1]
      BY <1>6
  <2>2. r[i] = Another(buf, skip, r[i - 1])
      BY <1>4, <2>1
  <2>3. R[i] = Another(buf, skip, R[i - 1])
      BY <1>0
  <2> QED BY <2>1, <2>2, <2>3
<1> HIDE DEF T, F
<1>7. count \in T
  <2>1. \A i \in 0..count : i \in T
      BY <1>5, <1>6, CountingTo
  <2>2. count \in 0..count
      OBVIOUS
  <2> QED BY <2>1, <2>2
<1> QED BY <1>3, <1>7 DEF T

One(x) == <<x>>
Two(x, y) == <<x, y>>

LEMMA SeveralOne ==
    ASSUME NEW buf \in Seq(Byte), NEW start \in Nat, NEW skip \in Nat,
           NEW nal \in Seq(Byte), Fits(nal, 2), At(buf, start + skip, Stored(nal, 2)),
           NEW n, n = 1
    PROVE  Several(buf, start, n, skip) = Found(start + skip + 2 + Len(nal), One(nal))
<1> DEFINE e == <<>>
           a == Found(start, e)
           b == Found(start + skip + 2 + Len(nal), Append(e, nal))
           R == [i \in {0, n} |-> IF i = 0 THEN a ELSE b]
<1>1. Append(e, nal) = One(nal)
    BY DEF One
<1> HIDE DEF e
<1>2. Another(buf, skip, a) = b
    BY AnotherIs
<1> HIDE DEF a, b
<1>3. R[0] = a /\ R[n] = b
    OBVIOUS
<1> HIDE DEF R
<1>4. \A i \in 1..n : R[i] = Another(buf, skip, R[i - 1])
  <2>1. \A i \in 1..n : i = n /\ i - 1 = 0
      OBVIOUS
  <2> QED BY <1>2, <1>3, <2>1
<1>5. n \in Nat /\ Others(buf, start, n, skip, R)
    BY <1>3, <1>4 DEF a, e, Others
<1>6. Several(buf, start, n, skip) = R[n]
    BY <1>5, SeveralIs
<1> QED BY <1>1, <1>3, <1>6 DEF b

LEMMA Pair ==
    ASSUME NEW X, NEW x \in X, NEW y \in X
    PROVE  Append(<<x>>, y) = <<x, y>>
<1> DEFINE p == <<x>>
           q == Append(p, y)
           w == <<x, y>>
<1>1. p \in Seq(X) /\ Len(p) = 1 /\ p[1] = x
    OBVIOUS
<1>2. w \in Seq(X) /\ Len(w) = 2 /\ w[1] = x /\ w[2] = y
    OBVIOUS
<1> HIDE DEF p, w
<1>3. /\ q \in Seq(X) /\ Len(q) = Len(p) + 1 /\ q[Len(p) + 1] = y
      /\ \A i \in 1..Len(p) : q[i] = p[i]
  <2>1. p \in Seq(X)
      BY <1>1
  <2> QED BY <2>1, AppendProperties
<1> HIDE DEF q
<1>6. \A i \in 1..2 : i = 1 \/ i = 2
    OBVIOUS
<1>7. Len(q) = 2 /\ q[1] = x /\ q[2] = y
  <2>1. 1 \in 1..Len(p) /\ Len(p) + 1 = 2
      BY <1>1
  <2> QED BY <1>1, <1>3, <2>1
<1>8. \A i \in 1..Len(q) : q[i] = w[i]
    BY <1>2, <1>6, <1>7
<1>9. q = w
    BY <1>2, <1>3, <1>7, <1>8, SeqEqual
<1> QED BY <1>9 DEF p, q, w

LEMMA PairJoined ==
    ASSUME NEW X, NEW x \in X, NEW y \in X
    PROVE  <<x>> \o <<y>> = <<x, y>>
<1> DEFINE p == <<x>>
<1>1. p \in Seq(X)
    OBVIOUS
<1>2. Append(p, y) = <<x, y>>
    BY Pair
<1> HIDE DEF p
<1>3. Append(p, y) = p \o <<y>>
    BY <1>1, AppendIsConcat
<1>4. p \o <<y>> = <<x, y>>
    BY <1>2, <1>3
<1> QED BY <1>4 DEF p

LEMMA SeveralTwo ==
    ASSUME NEW buf \in Seq(Byte), NEW start \in Nat, NEW skip \in Nat,
           NEW x \in Seq(Byte), Fits(x, 2), NEW y \in Seq(Byte), Fits(y, 2),
           NEW first, first = start + skip, At(buf, first, Stored(x, 2)),
           NEW second, second = start + skip + 2 + Len(x) + skip, At(buf, second, Stored(y, 2)),
           NEW end, end = second + 2 + Len(y), NEW n, n = 2
    PROVE  Several(buf, start, n, skip) = Found(end, Two(x, y))
<1> DEFINE mid == start + skip + 2 + Len(x)
           e == <<>>
           f == Append(e, x)
           h == Append(f, y)
           a == Found(start, e)
           b == Found(mid, f)
           c == Found(end, h)
           R == [i \in {0, 1, n} |-> IF i = 0 THEN a ELSE IF i = 1 THEN b ELSE c]
<1>1. h = Two(x, y)
  <2>1. f = <<x>>
      OBVIOUS
  <2>2. Append(<<x>>, y) = <<x, y>>
      BY Pair
  <2> HIDE DEF f
  <2> QED BY <2>1, <2>2 DEF Two
<1>2. mid \in Nat
    OBVIOUS
<1> HIDE DEF e
<1>3. Another(buf, skip, a) = b
  <2>1. Another(buf, skip, Found(start, e)) = Found(start + skip + 2 + Len(x), Append(e, x))
      BY AnotherIs
  <2> QED BY <2>1
<1> HIDE DEF f
<1>4. Another(buf, skip, b) = c
  <2>1. At(buf, mid + skip, Stored(y, 2)) /\ end = mid + skip + 2 + Len(y)
      OBVIOUS
  <2> HIDE DEF mid
  <2>2. Another(buf, skip, Found(mid, f)) = Found(mid + skip + 2 + Len(y), Append(f, y))
      BY <1>2, <2>1, AnotherIs
  <2> QED BY <2>1, <2>2
<1> HIDE DEF a, b, c, h
<1>5. R[0] = a /\ R[1] = b /\ R[n] = c
    OBVIOUS
<1> HIDE DEF R
<1>6. \A i \in 1..n : R[i] = Another(buf, skip, R[i - 1])
  <2>1. \A i \in 1..n : (i = 1 /\ i - 1 = 0) \/ (i = n /\ i - 1 = 1)
      OBVIOUS
  <2> QED BY <1>3, <1>4, <1>5, <2>1
<1>7. n \in Nat /\ Others(buf, start, n, skip, R)
    BY <1>5, <1>6 DEF a, e, Others
<1>8. Several(buf, start, n, skip) = R[n]
    BY <1>7, SeveralIs
<1> QED BY <1>1, <1>5, <1>8 DEF c

LEMMA ZerosIs ==
    ASSUME NEW n \in Nat
    PROVE  Zeros(n) \in Seq(Byte) /\ Len(Zeros(n)) = n
<1>1. 0 \in Byte
    BY DEF Byte
<1> QED BY <1>1 DEF Zeros

LEMMA StoredOne ==
    ASSUME NEW x \in Seq(Byte), Fits(x, 2)
    PROVE  StoredAll(<<x>>, 2) = Stored(x, 2)
<1> DEFINE s == <<x>>
           q == Stored(x, 2)
<1>1. DOMAIN s = 1..1 /\ s[1] = x
    OBVIOUS
<1>2. q \in Seq(Byte)
    BY StoredIs
<1> HIDE DEF q
<1>3. [i \in 1..1 |-> q] = <<q>>
    OBVIOUS
<1>4. [i \in DOMAIN s |-> Stored(s[i], 2)] = [i \in 1..1 |-> q]
  <2>1. \A i \in 1..1 : i = 1
      OBVIOUS
  <2> HIDE DEF s
  <2> QED BY <1>1, <2>1 DEF q
<1>5. FlattenSeq(<<q>>) = q
    BY <1>2, FlattenedShort
<1>6. StoredAll(s, 2) = FlattenSeq([i \in DOMAIN s |-> Stored(s[i], 2)])
    BY DEF StoredAll
<1> HIDE DEF s
<1>7. StoredAll(s, 2) = q
    BY <1>3, <1>4, <1>5, <1>6
<1> QED BY <1>7 DEF s, q

\* The first bytes of avcC.
LEMMA AvcHead ==
    ASSUME NEW size \in 1..4
    PROVE  LET head == <<1>> \o Zeros(3) \o <<252 + size - 1, 225>>
           IN  /\ head \in Seq(Byte) /\ Len(head) = 6
               /\ head[1] = 1 /\ head[5] % 4 = size - 1 /\ head[6] % 32 = 1
<1> DEFINE one == <<1>>
           z == Zeros(3)
           l == <<252 + size - 1, 225>>
           a == one \o z
           head == a \o l
<1>1. one \in Seq(Byte) /\ Len(one) = 1 /\ one[1] = 1
    BY DEF Byte
<1>2. z \in Seq(Byte) /\ Len(z) = 3
  <2>1. 3 \in Nat
      OBVIOUS
  <2> QED BY <2>1, ZerosIs
<1>3. l \in Seq(Byte) /\ Len(l) = 2 /\ l[1] = 251 + size /\ l[2] = 225
    BY DEF Byte
<1> HIDE DEF one, z, l
<1>4. a \in Seq(Byte) /\ Len(a) = 4 /\ a[1] = 1
  <2>1. a \in Seq(Byte) /\ Len(a) = Len(one) + Len(z) /\ \A i \in 1..Len(one) : a[i] = one[i]
      BY <1>1, <1>2, JoinedIs
  <2>2. 1 \in 1..Len(one)
      BY <1>1
  <2> QED BY <1>1, <1>2, <2>1, <2>2
<1> HIDE DEF a
<1>5. /\ head \in Seq(Byte) /\ Len(head) = Len(a) + Len(l)
      /\ \A i \in 1..Len(a) : head[i] = a[i]
      /\ \A j \in 1..Len(l) : head[Len(a) + j] = l[j]
  <2>1. a \in Seq(Byte) /\ l \in Seq(Byte)
      BY <1>3, <1>4
  <2> QED BY <2>1, JoinedIs
<1> HIDE DEF head
<1>6. Len(head) = 6 /\ head[1] = 1 /\ head[5] = 251 + size /\ head[6] = 225
  <2>1. 1 \in 1..Len(a) /\ 1 \in 1..Len(l) /\ 2 \in 1..Len(l) /\ Len(a) + 1 = 5 /\ Len(a) + 2 = 6
      BY <1>3, <1>4
  <2> QED BY <1>3, <1>4, <1>5, <2>1
<1>7. (251 + size) % 4 = size - 1 /\ 225 % 32 = 1
    OBVIOUS
<1> QED BY <1>5, <1>6, <1>7 DEF head, a, one, z, l

\* for_codec, h264: the length of a length, the SPS and the PPS are read.
LEMMA AvcParsed ==
    ASSUME NEW size \in 1..4, NEW x \in Seq(Byte), Fits(x, 2), NEW y \in Seq(Byte), Fits(y, 2)
    PROVE  ParseAvcc(AvcC(<<x>>, <<y>>, size)) =
               IF size = 3 THEN NoBytes ELSE [length |-> size, sets |-> <<x, y>>]
<1> DEFINE head == <<1>> \o Zeros(3) \o <<252 + size - 1, 225>>
           s == Stored(x, 2)
           p == Stored(y, 2)
           one == <<1>>
           a == head \o s
           b == a \o one
           raw == b \o p
<1>1. /\ head \in Seq(Byte) /\ Len(head) = 6
      /\ head[1] = 1 /\ head[5] % 4 = size - 1 /\ head[6] % 32 = 1
    BY AvcHead
<1>2. /\ s \in Seq(Byte) /\ Len(s) = 2 + Len(x) /\ p \in Seq(Byte) /\ Len(p) = 2 + Len(y)
      /\ Len(x) \in Nat /\ Len(y) \in Nat
    BY StoredIs
<1>3. one \in Seq(Byte) /\ Len(one) = 1 /\ one[1] = 1
    BY DEF Byte
<1>4. AvcC(<<x>>, <<y>>, size) = raw
  <2>1. StoredAll(<<x>>, 2) = s /\ StoredAll(<<y>>, 2) = p
      BY StoredOne
  <2>2. Len(<<x>>) = 1 /\ Len(<<y>>) = 1
      OBVIOUS
  <2>3. 224 + 1 = 225
      OBVIOUS
  <2> HIDE DEF s, p
  <2> QED BY <2>1, <2>2, <2>3 DEF AvcC
<1> HIDE DEF head, s, p, one
<1>5. /\ a \in Seq(Byte) /\ Len(a) = Len(head) + Len(s)
      /\ \A i \in 1..Len(head) : a[i] = head[i]
    BY <1>1, <1>2, JoinedIs
<1>6. At(a, Len(head), s)
    BY <1>1, <1>2, AtEnd
<1> HIDE DEF a
<1>7. /\ b \in Seq(Byte) /\ Len(b) = Len(a) + Len(one)
      /\ \A i \in 1..Len(a) : b[i] = a[i]
      /\ \A j \in 1..Len(one) : b[Len(a) + j] = one[j]
    BY <1>3, <1>5, JoinedIs
<1>8. At(b, Len(head), s)
  <2>1. Len(head) \in Nat /\ s \in Seq(Byte) /\ a \in Seq(Byte) /\ one \in Seq(Byte)
      BY <1>1, <1>2, <1>3, <1>5
  <2> QED BY <1>6, <2>1, AtLonger
<1> HIDE DEF b
<1>9. /\ raw \in Seq(Byte) /\ Len(raw) = Len(b) + Len(p)
      /\ \A i \in 1..Len(b) : raw[i] = b[i]
  <2>1. b \in Seq(Byte) /\ p \in Seq(Byte)
      BY <1>2, <1>7
  <2> QED BY <2>1, JoinedIs
<1>10. At(raw, Len(head), s) /\ At(raw, Len(b), p)
  <2>1. Len(head) \in Nat /\ s \in Seq(Byte) /\ b \in Seq(Byte) /\ p \in Seq(Byte)
      BY <1>1, <1>2, <1>7
  <2>2. At(b \o p, Len(head), s)
      BY <1>8, <2>1, AtLonger
  <2>3. At(b \o p, Len(b), p)
      BY <2>1, AtEnd
  <2> QED BY <2>2, <2>3
<1> HIDE DEF raw
<1> DEFINE pos == 6 + 0 + 2 + Len(x)
<1>11. /\ Len(a) = pos /\ Len(b) = pos + 1 /\ Len(raw) = pos + 1 + 2 + Len(y) /\ pos \in Nat
       /\ pos > 7
    BY <1>1, <1>2, <1>3, <1>5, <1>7, <1>9
<1>12. raw[1] = 1 /\ raw[5] % 4 = size - 1 /\ raw[6] % 32 = 1
  <2>1. \A i \in 1..6 : raw[i] = head[i]
    <3>1. \A i \in 1..6 : i \in 1..Len(head) /\ i \in 1..Len(a) /\ i \in 1..Len(b)
      <4> HIDE DEF pos
      <4> QED BY <1>1, <1>11
    <3> QED BY <1>5, <1>7, <1>9, <3>1
  <2>2. 1 \in 1..6 /\ 5 \in 1..6 /\ 6 \in 1..6
      OBVIOUS
  <2> QED BY <1>1, <2>1, <2>2
<1>13. raw[pos + 1] = 1
  <2>1. pos + 1 \in 1..Len(b) /\ 1 \in 1..Len(one)
      BY <1>3, <1>11
  <2>2. b[pos + 1] = one[1]
      BY <1>7, <1>11, <2>1
  <2> QED BY <1>3, <1>9, <2>1, <2>2
<1> DEFINE sps == Several(raw, 6, raw[6] % 32, 0)
           pps == Several(raw, pos + 1, raw[pos + 1], 0)
<1>14. sps = Found(pos, One(x))
  <2>1. 6 \in Nat /\ 0 \in Nat /\ 6 + 0 = 6
      OBVIOUS
  <2>2. At(raw, 6 + 0, Stored(x, 2))
      BY <1>1, <1>10, <2>1 DEF s
  <2> DEFINE n == raw[6] % 32
  <2>3. n = 1
      BY <1>12
  <2> HIDE DEF n
  <2>4. Several(raw, 6, n, 0) = Found(6 + 0 + 2 + Len(x), One(x))
      BY <1>9, <2>1, <2>2, <2>3, SeveralOne
  <2> QED BY <2>4 DEF n
<1>15. pps = Found(pos + 1 + 0 + 2 + Len(y), One(y))
  <2> DEFINE n == raw[pos + 1]
             q == pos + 1
             z == 0
  <2>1. q \in Nat /\ z \in Nat /\ q + z = q /\ Len(b) = q
      BY <1>11
  <2>2. n = 1
      BY <1>13
  <2> HIDE DEF n, q, z
  <2>3. At(raw, q + z, Stored(y, 2))
      BY <1>10, <2>1 DEF p
  <2>4. Several(raw, q, n, z) = Found(q + z + 2 + Len(y), One(y))
    <3>1. raw \in Seq(Byte) /\ q \in Nat /\ z \in Nat
        BY <1>9, <2>1
    <3> QED BY <2>2, <2>3, <3>1, SeveralOne
  <2> QED BY <2>4 DEF n, q, z
<1> HIDE DEF sps, pps
<1>16. sps.pos = pos /\ sps.sets = One(x) /\ pps.pos \in Nat /\ pps.sets = One(y)
       /\ pps = [pos |-> pps.pos, sets |-> pps.sets]
  <2>1. sps.pos = pos /\ sps.sets = One(x)
    <3> HIDE DEF pos
    <3> QED BY <1>14, FoundIs
  <2> DEFINE end == pos + 1 + 0 + 2 + Len(y)
  <2>2. end \in Nat
      BY <1>2, <1>11
  <2> HIDE DEF end
  <2>3. pps = Found(end, One(y))
      BY <1>15 DEF end
  <2>4. pps.pos = end /\ pps.sets = One(y)
      BY <2>3, FoundIs
  <2>5. pps = [pos |-> pps.pos, sets |-> pps.sets]
      BY <2>3, <2>4 DEF Found
  <2> QED BY <2>1, <2>2, <2>4, <2>5
<1> HIDE DEF pos
<1>17. pos # NoBytes /\ pps.pos # NoBytes /\ ~(pos >= Len(raw)) /\ ~(Len(raw) < 6)
  <2>1. pos < Len(raw) /\ Len(raw) >= 6 /\ Len(raw) \in Nat
      BY <1>2, <1>11
  <2> QED BY <1>11, <1>16, <2>1, NoBytesApart
<1> DEFINE both == [pps EXCEPT !.sets = sps.sets \o @]
<1>18. both.pos = pps.pos /\ both.sets = <<x, y>>
  <2>1. both.pos = pps.pos /\ both.sets = sps.sets \o pps.sets
      BY <1>16
  <2>2. One(x) \o One(y) = <<x, y>>
      BY PairJoined DEF One
  <2> HIDE DEF both
  <2> QED BY <1>16, <2>1, <2>2
<1>19. ParseAvcc(raw) = Config((raw[5] % 4) + 1, both)
  <2>1. sps = Several(raw, 6, raw[6] % 32, 0) /\ pps = Several(raw, pos + 1, raw[pos + 1], 0)
      BY DEF sps, pps
  <2>2. raw[1] = 1
      BY <1>12
  <2>3. ParseAvcc(raw) = Config((raw[5] % 4) + 1,
            [Several(raw, sps.pos + 1, raw[sps.pos + 1], 0) EXCEPT !.sets = sps.sets \o @])
      BY <1>16, <1>17, <2>1, <2>2 DEF ParseAvcc
  <2> QED BY <1>16, <2>1, <2>3
<1> HIDE DEF both
<1>20. Config((raw[5] % 4) + 1, both) =
           IF size = 3 THEN NoBytes ELSE [length |-> size, sets |-> <<x, y>>]
  <2>1. (raw[5] % 4) + 1 = size
      BY <1>12
  <2> QED BY <1>17, <1>18, <2>1 DEF Config
<1> QED BY <1>4, <1>19, <1>20

\* The first bytes of hvcC.
LEMMA HvcHead ==
    ASSUME NEW size \in 1..4
    PROVE  LET head == <<1>> \o Zeros(20) \o <<12 + size - 1, 2>>
           IN  /\ head \in Seq(Byte) /\ Len(head) = 23
               /\ head[1] = 1 /\ head[22] % 4 = size - 1 /\ head[23] = 2
<1> DEFINE one == <<1>>
           z == Zeros(20)
           l == <<12 + size - 1, 2>>
           a == one \o z
           head == a \o l
<1>1. one \in Seq(Byte) /\ Len(one) = 1 /\ one[1] = 1
    BY DEF Byte
<1>2. z \in Seq(Byte) /\ Len(z) = 20
  <2>1. 20 \in Nat
      OBVIOUS
  <2> QED BY <2>1, ZerosIs
<1>3. l \in Seq(Byte) /\ Len(l) = 2 /\ l[1] = 11 + size /\ l[2] = 2
    BY DEF Byte
<1> HIDE DEF one, z, l
<1>4. a \in Seq(Byte) /\ Len(a) = 21 /\ a[1] = 1
  <2>1. a \in Seq(Byte) /\ Len(a) = Len(one) + Len(z) /\ \A i \in 1..Len(one) : a[i] = one[i]
      BY <1>1, <1>2, JoinedIs
  <2>2. 1 \in 1..Len(one)
      BY <1>1
  <2> QED BY <1>1, <1>2, <2>1, <2>2
<1> HIDE DEF a
<1>5. /\ head \in Seq(Byte) /\ Len(head) = Len(a) + Len(l)
      /\ \A i \in 1..Len(a) : head[i] = a[i]
      /\ \A j \in 1..Len(l) : head[Len(a) + j] = l[j]
  <2>1. a \in Seq(Byte) /\ l \in Seq(Byte)
      BY <1>3, <1>4
  <2> QED BY <2>1, JoinedIs
<1> HIDE DEF head
<1>6. Len(head) = 23 /\ head[1] = 1 /\ head[22] = 11 + size /\ head[23] = 2
  <2>1. 1 \in 1..Len(a) /\ 1 \in 1..Len(l) /\ 2 \in 1..Len(l) /\ Len(a) + 1 = 22 /\ Len(a) + 2 = 23
      BY <1>3, <1>4
  <2> QED BY <1>3, <1>4, <1>5, <2>1
<1>7. (11 + size) % 4 = size - 1
    OBVIOUS
<1> QED BY <1>5, <1>6, <1>7 DEF head, a, one, z, l

\* An array of hvcC with one set.
Array(x) == <<32>> \o BigEndian(1, 2) \o Stored(x, 2)

LEMMA ArrayIs ==
    ASSUME NEW x \in Seq(Byte), Fits(x, 2)
    PROVE  /\ Array(x) \in Seq(Byte) /\ Len(Array(x)) = 3 + 2 + Len(x)
           /\ \A buf \in Seq(Byte), pos \in Nat :
                 At(buf, pos, Array(x)) => At(buf, pos + 3, Stored(x, 2))
<1> DEFINE one == <<32>>
           b == BigEndian(1, 2)
           h == one \o b
           s == Stored(x, 2)
<1>1. one \in Seq(Byte) /\ Len(one) = 1
    BY DEF Byte
<1>2. b \in Seq(Byte) /\ Len(b) = 2
  <2>1. Shifted(1, 2) = 0
    <3>1. Shifted(1, 0) = 1 /\ Shifted(1, 0 + 1) = Shifted(1, 0) \div 256
          /\ Shifted(1, 1 + 1) = Shifted(1, 1) \div 256
        BY ShiftedStep
    <3>2. 1 \div 256 = 0 /\ 0 \div 256 = 0 /\ 0 + 1 = 1 /\ 1 + 1 = 2
        OBVIOUS
    <3> QED BY <3>1, <3>2
  <2>2. 1 \in Nat /\ 2 \in Nat
      OBVIOUS
  <2> QED BY <2>1, <2>2, LengthIsRead
<1>3. s \in Seq(Byte) /\ Len(s) = 2 + Len(x) /\ Len(x) \in Nat
    BY StoredIs
<1> HIDE DEF one, b, s
<1>4. h \in Seq(Byte) /\ Len(h) = 3
  <2>1. h \in Seq(Byte) /\ Len(h) = Len(one) + Len(b)
      BY <1>1, <1>2, JoinedIs
  <2> QED BY <1>1, <1>2, <2>1
<1> HIDE DEF h
<1>5. Array(x) = h \o s
    BY DEF Array, h, one, b, s
<1>6. h \o s \in Seq(Byte) /\ Len(h \o s) = Len(h) + Len(s)
  <2>1. h \in Seq(Byte) /\ s \in Seq(Byte)
      BY <1>3, <1>4
  <2> QED BY <2>1, JoinedIs
<1>7. ASSUME NEW buf \in Seq(Byte), NEW pos \in Nat, At(buf, pos, Array(x))
      PROVE  At(buf, pos + 3, s)
  <2>1. At(buf, pos, h \o s) /\ h \in Seq(Byte) /\ s \in Seq(Byte)
      BY <1>3, <1>4, <1>5, <1>7
  <2>2. At(buf, pos + Len(h), s)
      BY <2>1, AtPart
  <2> QED BY <1>4, <2>2
<1>8. Len(Array(x)) = 3 + 2 + Len(x)
    BY <1>3, <1>4, <1>5, <1>6
<1> QED BY <1>5, <1>6, <1>7, <1>8 DEF s

\* for_codec, hevc: the length of a length and the sets of the arrays are read.
LEMMA HvcParsed ==
    ASSUME NEW size \in 1..4, NEW x \in Seq(Byte), Fits(x, 2), NEW y \in Seq(Byte), Fits(y, 2),
           NEW all, all = <<x, y>>
    PROVE  ParseHvcc(HvcC(all, size)) =
               IF size = 3 THEN NoBytes ELSE [length |-> size, sets |-> all]
<1> DEFINE head == <<1>> \o Zeros(20) \o <<12 + size - 1, 2>>
           s == Array(x)
           p == Array(y)
           w == s \o p
           raw == head \o w
<1>1. /\ head \in Seq(Byte) /\ Len(head) = 23
      /\ head[1] = 1 /\ head[22] % 4 = size - 1 /\ head[23] = 2
    BY HvcHead
<1>2. /\ s \in Seq(Byte) /\ Len(s) = 5 + Len(x) /\ p \in Seq(Byte) /\ Len(p) = 5 + Len(y)
      /\ Len(x) \in Nat /\ Len(y) \in Nat
  <2>1. /\ s \in Seq(Byte) /\ Len(s) = 3 + 2 + Len(x)
        /\ p \in Seq(Byte) /\ Len(p) = 3 + 2 + Len(y)
      BY ArrayIs
  <2>2. Len(x) \in Nat /\ Len(y) \in Nat
      OBVIOUS
  <2> HIDE DEF s, p
  <2> QED BY <2>1, <2>2
<1>3. HvcC(all, size) = raw
  <2> DEFINE m == [i \in DOMAIN all |-> Array(all[i])]
  <2>1. DOMAIN all = 1..2 /\ all[1] = x /\ all[2] = y /\ Len(all) = 2
      OBVIOUS
  <2>2. m = <<s, p>>
    <3>1. m = [i \in 1..2 |-> IF i = 1 THEN s ELSE p]
      <4>1. \A i \in 1..2 : Array(all[i]) = IF i = 1 THEN s ELSE p
        <5>1. \A i \in 1..2 : i = 1 \/ i = 2
            OBVIOUS
        <5> QED BY <2>1, <5>1
      <4> HIDE DEF s, p
      <4> QED BY <2>1, <4>1
    <3>2. [i \in 1..2 |-> IF i = 1 THEN s ELSE p] = <<s, p>>
      <4> HIDE DEF s, p
      <4> QED OBVIOUS
    <3> QED BY <3>1, <3>2
  <2>3. FlattenSeq(<<s, p>>) = w
    <3> HIDE DEF s, p
    <3> QED BY <1>2, FlattenedShort
  <2>4. HvcC(all, size) = <<1>> \o Zeros(20) \o <<12 + size - 1, Len(all)>> \o FlattenSeq(m)
      BY DEF HvcC, Array
  <2> HIDE DEF m, w, s, p
  <2> QED BY <2>1, <2>2, <2>3, <2>4
<1> HIDE DEF head
<1>4. At(raw, 26, Stored(x, 2)) /\ At(raw, 23 + Len(s) + 3, Stored(y, 2)) /\ raw \in Seq(Byte)
      /\ Len(raw) >= 23
  <2>1. head \in Seq(Byte) /\ Len(head) = 23 /\ s \in Seq(Byte) /\ p \in Seq(Byte)
      BY <1>1, <1>2
  <2> HIDE DEF s, p
  <2>2. w \in Seq(Byte)
      BY <2>1
  <2> HIDE DEF w
  <2>3. raw \in Seq(Byte) /\ Len(raw) = Len(head) + Len(w)
      BY <2>1, <2>2, JoinedIs
  <2>4. At(raw, Len(head), w)
      BY <2>1, <2>2, AtEnd
  <2>5. Len(raw) >= 23 /\ Len(head) \in Nat
      BY <2>1, <2>2, <2>3
  <2> HIDE DEF raw
  <2>6. At(raw, Len(head), s) /\ At(raw, Len(head) + Len(s), p)
    <3>1. raw \in Seq(Byte) /\ s \in Seq(Byte) /\ p \in Seq(Byte) /\ Len(head) \in Nat
        BY <2>1, <2>3, <2>5
    <3>2. At(raw, Len(head), s \o p)
        BY <2>4 DEF w
    <3> QED BY <3>1, <3>2, AtPart
  <2>7. At(raw, 23 + 3, Stored(x, 2))
    <3>1. At(raw, 23, Array(x)) /\ 23 \in Nat /\ raw \in Seq(Byte)
        BY <2>1, <2>3, <2>6 DEF s
    <3> QED BY <3>1, ArrayIs
  <2>8. At(raw, 23 + Len(s) + 3, Stored(y, 2))
    <3> DEFINE q == 23 + Len(s)
    <3>1. At(raw, q, Array(y)) /\ raw \in Seq(Byte)
        BY <2>1, <2>3, <2>6 DEF p
    <3>2. q \in Nat
        BY <2>1
    <3> HIDE DEF q
    <3>3. At(raw, q + 3, Stored(y, 2))
        BY <3>1, <3>2, ArrayIs
    <3> QED BY <3>3 DEF q
  <2>9. 23 + 3 = 26
      OBVIOUS
  <2> QED BY <2>3, <2>5, <2>7, <2>8, <2>9
<1>5. \A i \in 1..23 : raw[i] = head[i]
  <2>1. head \in Seq(Byte) /\ w \in Seq(Byte)
      BY <1>1, <1>2
  <2> HIDE DEF w
  <2>2. \A i \in 1..Len(head) : raw[i] = head[i]
      BY <2>1, JoinedIs
  <2> HIDE DEF raw
  <2> QED BY <1>1, <2>2
<1> HIDE DEF raw, w, s, p
<1>6. raw[1] = 1 /\ raw[22] % 4 = size - 1 /\ raw[23] = 2
  <2>1. 1 \in 1..23 /\ 22 \in 1..23 /\ 23 \in 1..23
      OBVIOUS
  <2> QED BY <1>1, <1>5, <2>1
<1> DEFINE got == Several(raw, 23, raw[23], 3)
           start == 23
           skip == 3
           n == raw[23]
           first == 26
           second == 23 + Len(s) + 3
           end == second + 2 + Len(y)
<1>7. got = Found(end, Two(x, y)) /\ end \in Nat
  <2>1. start \in Nat /\ skip \in Nat /\ raw \in Seq(Byte) /\ end \in Nat
      BY <1>2, <1>4
  <2>2. n = 2
      BY <1>6
  <2>3. first = start + skip /\ second = start + skip + 2 + Len(x) + skip
      BY <1>2
  <2>4. At(raw, first, Stored(x, 2)) /\ At(raw, second, Stored(y, 2))
      BY <1>4
  <2>5. got = Several(raw, start, n, skip) /\ end = second + 2 + Len(y)
      OBVIOUS
  <2> HIDE DEF start, skip, n, got, first, second, end
  <2>6. Several(raw, start, n, skip) = Found(end, Two(x, y))
      BY <2>1, <2>2, <2>3, <2>4, <2>5, SeveralTwo
  <2> QED BY <2>1, <2>5, <2>6
<1> HIDE DEF end, got
<1>8. got.pos # NoBytes /\ got.sets = all
    BY <1>7, FoundIs, NoBytesApart DEF Two
<1>9. ParseHvcc(raw) = Config((raw[22] % 4) + 1, got)
    BY <1>4, <1>6 DEF ParseHvcc, got
<1>10. Config((raw[22] % 4) + 1, got) =
           IF size = 3 THEN NoBytes ELSE [length |-> size, sets |-> all]
  <2>1. (raw[22] % 4) + 1 = size
      BY <1>6
  <2> QED BY <1>8, <2>1 DEF Config
<1> QED BY <1>3, <1>9, <1>10

----------------------------------------------------------------------------
(***************************************************************************)
(* A sample, whole or cut, and what the decoder gets of it.                *)
(***************************************************************************)

Pieces(us) == FlattenSeq([i \in DOMAIN us |-> Piece(us[i])])

\* The units of a sample that fit their lengths.
Sample(us, size) == /\ us \in Seq(Seq(Byte)) /\ us # <<>>
                    /\ \A i \in 1..Len(us) : Fits(us[i], size) /\ NoStartCode(us[i])

\* The first m of s in one.
JoinsTo(X, m, s, w) == \E k : Joins(X, m, s, k) /\ k[m] = w

LEMMA JoinsShort ==
    ASSUME NEW X, NEW n \in Nat, NEW m \in Nat, m <= n, NEW s, NEW g, Joins(X, n, s, g)
    PROVE  JoinsTo(X, m, s, g[m])
<1> DEFINE k == [i \in 0..m |-> g[i]]
<1>1. \A i \in 0..m : i \in 0..n /\ g[i] \in Seq(X)
    BY DEF Joins
<1>2. k \in [0..m -> Seq(X)]
    BY <1>1
<1>3. k[0] = <<>> /\ k[m] = g[m]
    BY DEF Joins
<1>4. ASSUME NEW i \in 1..m PROVE k[i] = k[i - 1] \o s[i]
  <2>1. i \in 0..m /\ i - 1 \in 0..m /\ i \in 1..n
      OBVIOUS
  <2>2. k[i] = g[i] /\ k[i - 1] = g[i - 1]
      BY <2>1
  <2>3. g[i] = g[i - 1] \o s[i]
      BY <2>1 DEF Joins
  <2> HIDE DEF k
  <2> QED BY <2>2, <2>3
<1> HIDE DEF k
<1>5. Joins(X, m, s, k)
    BY <1>2, <1>3, <1>4 DEF Joins
<1> QED BY <1>3, <1>5 DEF JoinsTo

\* How a sample is stored, joined unit by unit.
LEMMA SampleCoded ==
    ASSUME NEW size \in Nat, NEW us, Sample(us, size)
    PROVE  \E s, g, t, h : /\ Coding(Len(us), size, us, s, g, t, h)
                           /\ StoredAll(us, size) = g[Len(us)] /\ Pieces(us) = h[Len(us)]
<1> DEFINE n == Len(us)
           s == [i \in DOMAIN us |-> Stored(us[i], size)]
           t == [i \in DOMAIN us |-> Piece(us[i])]
<1>1. n \in Nat /\ DOMAIN us = 1..n /\ \A i \in 1..n : us[i] \in Seq(Byte) /\ Fits(us[i], size)
    BY DEF Sample
<1> HIDE DEF n
<1>2. \A i \in 1..n : Stored(us[i], size) \in Seq(Byte) /\ Piece(us[i]) \in Seq(Byte)
    BY <1>1, StoredIs, FramedIs
<1>3. s \in Seq(Seq(Byte)) /\ Len(s) = n /\ \A i \in 1..n : s[i] = Stored(us[i], size)
    BY <1>1, <1>2
<1>4. t \in Seq(Seq(Byte)) /\ Len(t) = n /\ \A i \in 1..n : t[i] = Piece(us[i])
    BY <1>1, <1>2
<1>5. StoredAll(us, size) = FlattenSeq(s) /\ Pieces(us) = FlattenSeq(t)
    BY DEF StoredAll, Pieces
<1> HIDE DEF s, t
<1>6. PICK g : Joins(Byte, n, s, g) /\ FlattenSeq(s) = g[n]
    BY <1>1, <1>3, Flattened
<1>7. PICK h : Joins(Byte, n, t, h) /\ FlattenSeq(t) = h[n]
    BY <1>1, <1>4, Flattened
<1>8. Coding(n, size, us, s, g, t, h)
    BY <1>1, <1>3, <1>4, <1>6, <1>7 DEF Coding
<1>9. StoredAll(us, size) = g[n] /\ Pieces(us) = h[n]
    BY <1>5, <1>6, <1>7
<1> QED BY <1>8, <1>9 DEF n

LEMMA WholeSample ==
    ASSUME NEW size \in Nat, size # 0, NEW us, Sample(us, size),
           NEW c, c.length = size, NEW key, Start(c, key) \in Seq(Byte)
    PROVE  ToAnnexB(StoredAll(us, size), c, key) = Start(c, key) \o Pieces(us)
<1> DEFINE n == Len(us)
<1>1. PICK s, g, t, h : /\ Coding(n, size, us, s, g, t, h)
                        /\ StoredAll(us, size) = g[n] /\ Pieces(us) = h[n]
    BY SampleCoded
<1>2. n \in Nat
    BY DEF Sample
<1> HIDE DEF n
<1> DEFINE rest == <<>>
<1>3. rest \in Seq(Byte) /\ rest = <<>>
    OBVIOUS
<1>4. g[n] \in Seq(Byte)
  <2>1. n \in 0..n
      BY <1>2
  <2> QED BY <1>1, <1>2, <2>1, CodingTypes
<1>5. g[n] \o rest = g[n]
    BY <1>4
<1> HIDE DEF rest
<1>6. Ends(g[n], rest, size)
    BY <1>3 DEF Ends
<1>7. ToAnnexB(g[n] \o rest, c, key) = IF rest = <<>> THEN Start(c, key) \o h[n] ELSE NoBytes
  <2>1. rest \in Seq(Byte) /\ n \in Nat /\ Coding(n, size, us, s, g, t, h)
      BY <1>1, <1>2, <1>3
  <2> QED BY <1>6, <2>1, SampleIsRead
<1> QED BY <1>1, <1>3, <1>5, <1>7

LEMMA CutSample ==
    ASSUME NEW size \in Nat, size # 0, NEW us, Sample(us, size),
           NEW c, c.length = size, NEW key, Start(c, key) \in Seq(Byte)
    PROVE  ToAnnexB(Cut(StoredAll(us, size)), c, key) \in {NoBytes, Start(c, key) \o Pieces(us)}
<1> DEFINE n == Len(us)
           m == n - 1
<1>1. PICK s, g, t, h : /\ Coding(n, size, us, s, g, t, h)
                        /\ StoredAll(us, size) = g[n] /\ Pieces(us) = h[n]
    BY SampleCoded
<1>2. n \in Nat /\ m \in Nat /\ m <= n /\ n \in 1..n /\ m \in 0..n
  <2>1. n \in Nat /\ n # 0
      BY DEF Sample
  <2> QED BY <2>1
<1> HIDE DEF n
<1> DEFINE last == us[n]
           a == g[m]
           rest == Cut(Stored(last, size))
<1>3. /\ \A k \in 1..n : /\ us[k] \in Seq(Byte) /\ Fits(us[k], size)
                         /\ s[k] = Stored(us[k], size) /\ t[k] = Piece(us[k])
      /\ Joins(Byte, n, s, g) /\ Joins(Byte, n, t, h)
    BY <1>1 DEF Coding
<1>4. last \in Seq(Byte) /\ Fits(last, size) /\ s[n] = Stored(last, size) /\ t[n] = Piece(last)
    BY <1>2, <1>3
<1>5. a \in Seq(Byte) /\ h[m] \in Seq(Byte)
    BY <1>1, <1>2, CodingTypes
<1>6. g[n] = a \o Stored(last, size) /\ h[n] = h[m] \o Piece(last)
    BY <1>2, <1>3, <1>4 DEF Joins
<1> HIDE DEF m
<1>7. PICK x : Joins(Byte, m, s, x) /\ x[m] = a
  <2>1. n \in Nat /\ m \in Nat /\ m <= n /\ Joins(Byte, n, s, g)
      BY <1>2, <1>3
  <2>2. JoinsTo(Byte, m, s, g[m])
      BY <2>1, JoinsShort
  <2> QED BY <2>2 DEF JoinsTo
<1>8. PICK y : Joins(Byte, m, t, y) /\ y[m] = h[m]
  <2>1. n \in Nat /\ m \in Nat /\ m <= n /\ Joins(Byte, n, t, h)
      BY <1>2, <1>3
  <2>2. JoinsTo(Byte, m, t, h[m])
      BY <2>1, JoinsShort
  <2> QED BY <2>2 DEF JoinsTo
<1>9. Coding(m, size, us, s, x, t, y)
  <2>1. \A k \in 1..m : k \in 1..n
      BY <1>2
  <2> QED BY <1>3, <1>7, <1>8, <2>1 DEF Coding
<1> HIDE DEF last, a
<1>10. /\ rest \in Seq(Byte) /\ (rest = <<>> => last = <<>>)
       /\ Cut(a \o Stored(last, size)) = a \o rest
       /\ rest # <<>> => Prefixed(a \o rest, Len(a), size).pos = NoBytes
  <2>1. size \in Nat \ {0}
      OBVIOUS
  <2> QED BY <1>4, <1>5, <2>1, CutShort
<1> HIDE DEF rest
<1>11. Ends(x[m], rest, size)
    BY <1>7, <1>10 DEF Ends
<1>12. ToAnnexB(x[m] \o rest, c, key) = IF rest = <<>> THEN Start(c, key) \o y[m] ELSE NoBytes
    BY <1>2, <1>9, <1>10, <1>11, SampleIsRead
<1>13. Cut(StoredAll(us, size)) = x[m] \o rest
    BY <1>1, <1>6, <1>7, <1>10
<1>14. rest = <<>> => y[m] = Pieces(us)
  <2>1. SUFFICES ASSUME rest = <<>> PROVE y[m] = Pieces(us)
      OBVIOUS
  <2>2. Piece(last) = <<>>
      BY <1>10, <2>1 DEF Piece
  <2>3. h[m] \o <<>> = h[m]
      BY <1>5
  <2> QED BY <1>1, <1>6, <1>8, <2>2, <2>3
<1> QED BY <1>12, <1>13, <1>14

LEMMA AnnexBTwo ==
    ASSUME NEW x \in Seq(Byte), NEW y \in Seq(Byte), NEW all,
           DOMAIN all = 1..2, all[1] = x, all[2] = y
    PROVE  AnnexB(all) = Framed(x) \o Framed(y)
<1> DEFINE p == Framed(x)
           q == Framed(y)
           m == [i \in DOMAIN all |-> Framed(all[i])]
<1>1. p \in Seq(Byte) /\ q \in Seq(Byte)
    BY FramedIs
<1>2. m = <<p, q>>
  <2>1. m = [i \in 1..2 |-> IF i = 1 THEN p ELSE q]
    <3>1. \A i \in 1..2 : Framed(all[i]) = IF i = 1 THEN p ELSE q
      <4>1. \A i \in 1..2 : i = 1 \/ i = 2
          OBVIOUS
      <4> QED BY <4>1
    <3> HIDE DEF p, q
    <3> QED BY <3>1
  <2>2. [i \in 1..2 |-> IF i = 1 THEN p ELSE q] = <<p, q>>
    <3> HIDE DEF p, q
    <3> QED OBVIOUS
  <2> HIDE DEF p, q
  <2> QED BY <2>1, <2>2
<1>3. FlattenSeq(<<p, q>>) = p \o q
  <2> HIDE DEF p, q
  <2> QED BY <1>1, FlattenedShort
<1>4. AnnexB(all) = FlattenSeq(m)
    BY DEF AnnexB
<1> HIDE DEF p, q, m
<1>5. AnnexB(all) = p \o q
    BY <1>2, <1>3, <1>4
<1> QED BY <1>5 DEF p, q

LoweredPieces(us) == FlattenSeq([i \in DOMAIN us |-> Piece(Lower(us[i]))])

LEMMA PiecesAre ==
    ASSUME NEW size \in Nat, NEW us, Sample(us, size), NEW a \in Seq(Byte)
    PROVE  Pieces(us) \in Seq(Byte)
           /\ ClampSpsLevel(a \o Pieces(us)) = ClampSpsLevel(a) \o LoweredPieces(us)
<1> DEFINE n == Len(us)
           t == [i \in DOMAIN us |-> Piece(us[i])]
           w == [i \in DOMAIN us |-> Piece(Lower(us[i]))]
<1>1. n \in Nat /\ DOMAIN us = 1..n /\ \A i \in 1..n : us[i] \in Seq(Byte) /\ NoStartCode(us[i])
    BY DEF Sample
<1> HIDE DEF n
<1>2. \A i \in 1..n : Piece(us[i]) \in Seq(Byte) /\ Piece(Lower(us[i])) \in Seq(Byte)
    BY <1>1, FramedIs, LowerIs
<1>3. t \in Seq(Seq(Byte)) /\ Len(t) = n /\ \A i \in 1..n : t[i] = Piece(us[i])
    BY <1>1, <1>2
<1>4. w \in Seq(Seq(Byte)) /\ Len(w) = n /\ \A i \in 1..n : w[i] = Piece(Lower(us[i]))
    BY <1>1, <1>2
<1>5. Pieces(us) = FlattenSeq(t) /\ LoweredPieces(us) = FlattenSeq(w)
    BY DEF Pieces, LoweredPieces
<1> HIDE DEF t, w
<1>6. PICK h : Joins(Byte, n, t, h) /\ FlattenSeq(t) = h[n]
    BY <1>1, <1>3, Flattened
<1>7. PICK k : Joins(Byte, n, w, k) /\ FlattenSeq(w) = k[n]
    BY <1>1, <1>4, Flattened
<1>8. h[n] \in Seq(Byte)
  <2>1. n \in 0..n
      BY <1>1
  <2> QED BY <1>6, <2>1 DEF Joins
<1>9. Lowering(n, us, t, w)
    BY <1>1, <1>3, <1>4 DEF Lowering
<1>10. ClampSpsLevel(a \o h[n]) = ClampSpsLevel(a) \o k[n]
  <2>1. n \in Nat /\ Joins(Byte, n, t, h) /\ Joins(Byte, n, w, k)
      BY <1>1, <1>6, <1>7
  <2> QED BY <1>9, <2>1, ClampsUnits
<1> QED BY <1>5, <1>6, <1>7, <1>8, <1>10

LEMMA ClampsSets ==
    ASSUME NEW x \in Seq(Byte), NoStartCode(x), NEW y \in Seq(Byte), NoStartCode(y)
    PROVE  /\ Framed(x) \o Framed(y) \in Seq(Byte)
           /\ ClampSpsLevel(Framed(x) \o Framed(y)) = Framed(Lower(x)) \o Framed(Lower(y))
<1> DEFINE e == <<>>
           p == Framed(x)
           l == Framed(Lower(x))
<1>1. p \in Seq(Byte) /\ Framed(y) \in Seq(Byte) /\ l \in Seq(Byte)
    BY FramedIs, LowerIs
<1>2. p \o Framed(y) \in Seq(Byte)
    BY <1>1
<1>3. ClampSpsLevel(p) = l
  <2>1. e \in Seq(Byte)
      OBVIOUS
  <2>2. ClampSpsLevel(e) = e
      BY ClampsNothing
  <2>3. e \o p = p /\ e \o l = l
    <3> HIDE DEF p, l
    <3> QED BY <1>1
  <2> HIDE DEF e
  <2>4. ClampSpsLevel(e \o Framed(x)) = ClampSpsLevel(e) \o Framed(Lower(x))
      BY <2>1, ClampsUnit
  <2> QED BY <2>2, <2>3, <2>4
<1>4. ClampSpsLevel(p \o Framed(y)) = ClampSpsLevel(p) \o Framed(Lower(y))
  <2> HIDE DEF p
  <2> QED BY <1>1, ClampsUnit
<1> HIDE DEF p, l
<1>5. ClampSpsLevel(p \o Framed(y)) = l \o Framed(Lower(y))
    BY <1>3, <1>4
<1> QED BY <1>2, <1>5 DEF p, l

----------------------------------------------------------------------------
(***************************************************************************)
(* The specification.                                                      *)
(***************************************************************************)

\* What a file holds does not change, and a sample is read once it is open.
BitsInv ==
    /\ codecOf \in {"h264", "hevc"} /\ sets \in ParameterSets \X ParameterSets
    /\ lengthSize \in 1..4 /\ keyframe \in BOOLEAN
    /\ \/ cfg = Unparsed
       \/ lengthSize = 3 /\ cfg = NoBytes
       \/ lengthSize # 3 /\ cfg = [length |-> lengthSize, sets |-> sets]
    /\ cfg \in {Unparsed, NoBytes} => units = <<>>
    /\ units = <<>> => data = NoBytes

LEMMA SetsAre ==
    ASSUME NEW two \in ParameterSets \X ParameterSets
    PROVE  /\ two = <<two[1], two[2]>> /\ DOMAIN two = 1..2
           /\ two[1] \in Seq(Byte) /\ two[2] \in Seq(Byte)
           /\ Fits(two[1], 2) /\ Fits(two[2], 2) /\ NoStartCode(two[1]) /\ NoStartCode(two[2])
<1>1. two[1] \in ParameterSets /\ two[2] \in ParameterSets
    OBVIOUS
<1>2. two = <<two[1], two[2]>> /\ DOMAIN two = 1..2
    OBVIOUS
<1>3. \A set \in ParameterSets : set \in Seq(Byte) /\ Fits(set, 2) /\ NoStartCode(set)
    BY BitstreamAssumption
<1> QED BY <1>1, <1>2, <1>3

LEMMA ConfigApart ==
    ASSUME NEW size \in 1..4, NEW two \in ParameterSets \X ParameterSets
    PROVE  [length |-> size, sets |-> two] \notin {Unparsed, NoBytes}
<1>1. two \in Seq(Seq(Byte))
  <2> DEFINE x == two[1]
             y == two[2]
  <2>1. two = <<x, y>> /\ x \in Seq(Byte) /\ y \in Seq(Byte)
      BY SetsAre
  <2> HIDE DEF x, y
  <2> QED BY <2>1
<1>2. [length |-> size, sets |-> two] \in [length : 1..4, sets : Seq(Seq(Byte))]
    BY <1>1
<1>3. {Unparsed, NoBytes} \cap [length : 1..4, sets : Seq(Seq(Byte))] = {}
    BY BitstreamAssumption
<1> QED BY <1>2, <1>3

LoweredIn(codec, key, nal) ==
    IF codec = "h264" /\ key /\ Len(nal) >= 4 /\ nal[1] % 32 = 7 /\ nal[4] > 52
    THEN [nal EXCEPT ![4] = 52] ELSE nal

\* What the decoder is due: NalsKept says that it gets it.
Due(codec, key, two, us) ==
    (IF key THEN AnnexB([i \in DOMAIN two |-> LoweredIn(codec, key, two[i])]) ELSE <<>>)
    \o FlattenSeq([i \in DOMAIN us |->
                     IF us[i] = <<>> THEN <<>> ELSE Framed(LoweredIn(codec, key, us[i]))])

\* openh264's own copy of a keyframe.
Clamping(codec, key, annexb) ==
    IF annexb = NoBytes \/ codec # "h264" \/ ~key THEN annexb ELSE ClampSpsLevel(annexb)

LEMMA Delivered ==
    ASSUME NEW codec \in {"h264", "hevc"}, NEW key \in BOOLEAN,
           NEW two \in ParameterSets \X ParameterSets, NEW c, c.sets = two,
           NEW size \in Nat, NEW us, Sample(us, size)
    PROVE  /\ Start(c, key) \in Seq(Byte)
           /\ Clamping(codec, key, Start(c, key) \o Pieces(us)) = Due(codec, key, two, us)
           /\ Due(codec, key, two, us) # NoBytes
<1> DEFINE start == Start(c, key)
           x == two[1]
           y == two[2]
           first == IF key THEN AnnexB([i \in DOMAIN two |-> LoweredIn(codec, key, two[i])])
                    ELSE <<>>
           then == FlattenSeq([i \in DOMAIN us |->
                     IF us[i] = <<>> THEN <<>> ELSE Framed(LoweredIn(codec, key, us[i]))])
<1>1. /\ two = <<x, y>> /\ DOMAIN two = 1..2
      /\ x \in Seq(Byte) /\ y \in Seq(Byte) /\ NoStartCode(x) /\ NoStartCode(y)
    BY SetsAre
<1>2. Pieces(us) \in Seq(Byte)
  <2>1. <<>> \in Seq(Byte)
      OBVIOUS
  <2> QED BY <2>1, PiecesAre
<1>3. DOMAIN us = 1..Len(us) /\ \A i \in 1..Len(us) : us[i] \in Seq(Byte)
    BY DEF Sample
<1>4. Framed(x) \o Framed(y) \in Seq(Byte) /\ AnnexB(two) = Framed(x) \o Framed(y)
  <2>1. AnnexB(two) = Framed(x) \o Framed(y)
      BY <1>1, AnnexBTwo
  <2>2. Framed(x) \o Framed(y) \in Seq(Byte)
      BY <1>1, ClampsSets
  <2> QED BY <2>1, <2>2
<1>5. start = (IF key THEN AnnexB(two) ELSE <<>>) /\ start \in Seq(Byte)
  <2>1. start = IF key THEN AnnexB(two) ELSE <<>>
      BY DEF Start
  <2>2. <<>> \in Seq(Byte)
      OBVIOUS
  <2> HIDE DEF start
  <2> QED BY <1>4, <2>1, <2>2
<1>6. Due(codec, key, two, us) = first \o then
    BY DEF Due
<1>7. CASE ~(codec = "h264" /\ key)
  <2>1. \A nal : LoweredIn(codec, key, nal) = nal
      BY <1>7 DEF LoweredIn
  <2>2. first = start
    <3>1. [i \in DOMAIN two |-> LoweredIn(codec, key, two[i])] = two
        BY <1>1, <2>1
    <3> HIDE DEF start
    <3> QED BY <1>5, <3>1
  <2>3. then = Pieces(us)
    <3>1. [i \in DOMAIN us |-> IF us[i] = <<>> THEN <<>> ELSE Framed(LoweredIn(codec, key, us[i]))]
          = [i \in DOMAIN us |-> Piece(us[i])]
      <4>1. \A i \in DOMAIN us : (IF us[i] = <<>> THEN <<>> ELSE Framed(LoweredIn(codec, key, us[i])))
                                 = Piece(us[i])
          BY <2>1 DEF Piece
      <4> QED BY <4>1
    <3> QED BY <3>1 DEF Pieces
  <2>4. Clamping(codec, key, start \o Pieces(us)) = start \o Pieces(us)
      BY <1>7 DEF Clamping
  <2>5. start \o Pieces(us) # NoBytes
    <3>1. start \o Pieces(us) \in Seq(Byte)
      <4> HIDE DEF start
      <4> QED BY <1>2, <1>5
    <3> QED BY <3>1, NoBytesApart
  <2> HIDE DEF start, first, then
  <2>6. /\ Clamping(codec, key, start \o Pieces(us)) = Due(codec, key, two, us)
        /\ Due(codec, key, two, us) # NoBytes
      BY <1>6, <2>2, <2>3, <2>4, <2>5
  <2> QED BY <1>5, <2>6 DEF start
<1>8. CASE codec = "h264" /\ key
  <2>1. \A nal : LoweredIn(codec, key, nal) = Lower(nal)
      BY <1>8 DEF LoweredIn, Lower
  <2> DEFINE low == [i \in DOMAIN two |-> LoweredIn(codec, key, two[i])]
  <2>2. DOMAIN low = 1..2 /\ low[1] = Lower(x) /\ low[2] = Lower(y)
    <3>1. 1 \in DOMAIN two /\ 2 \in DOMAIN two
        BY <1>1
    <3> QED BY <1>1, <2>1, <3>1
  <2>3. first = AnnexB(low)
      BY <1>8
  <2> HIDE DEF low, first, start, x, y
  <2>4. Lower(x) \in Seq(Byte) /\ Lower(y) \in Seq(Byte)
      BY <1>1, LowerIs
  <2>5. AnnexB(low) = Framed(Lower(x)) \o Framed(Lower(y))
      BY <2>2, <2>4, AnnexBTwo
  <2>6. start = Framed(x) \o Framed(y)
      BY <1>4, <1>5, <1>8
  <2>7. ClampSpsLevel(Framed(x) \o Framed(y)) = Framed(Lower(x)) \o Framed(Lower(y))
      BY <1>1, ClampsSets
  <2>8. ClampSpsLevel(start) = first
      BY <2>3, <2>5, <2>6, <2>7
  <2>9. then = LoweredPieces(us)
    <3>1. [i \in DOMAIN us |-> IF us[i] = <<>> THEN <<>> ELSE Framed(LoweredIn(codec, key, us[i]))]
          = [i \in DOMAIN us |-> Piece(Lower(us[i]))]
      <4>1. \A i \in DOMAIN us : (IF us[i] = <<>> THEN <<>> ELSE Framed(LoweredIn(codec, key, us[i])))
                                 = Piece(Lower(us[i]))
        <5>1. ASSUME NEW i \in DOMAIN us
              PROVE  (IF us[i] = <<>> THEN <<>> ELSE Framed(Lower(us[i]))) = Piece(Lower(us[i]))
          <6>1. Lower(us[i]) = <<>> <=> us[i] = <<>>
              BY <1>3, LowerIs
          <6> QED BY <6>1 DEF Piece
        <5> QED BY <2>1, <5>1
      <4> QED BY <4>1
    <3> QED BY <3>1 DEF LoweredPieces
  <2> HIDE DEF then
  <2>10. start \in Seq(Byte)
      BY <1>5
  <2>11. ClampSpsLevel(start \o Pieces(us)) = ClampSpsLevel(start) \o LoweredPieces(us)
      BY <2>10, PiecesAre
  <2>12. start \o Pieces(us) \in Seq(Byte)
      BY <1>2, <2>10
  <2>13. start \o Pieces(us) # NoBytes /\ ClampSpsLevel(start \o Pieces(us)) # NoBytes
    <3> DEFINE d == start \o Pieces(us)
    <3>1. d \in Seq(Byte)
        BY <2>12
    <3> HIDE DEF d
    <3>2. d # NoBytes /\ ClampSpsLevel(d) # NoBytes
        BY <3>1, Clamped, NoBytesApart
    <3> QED BY <3>2 DEF d
  <2>14. Clamping(codec, key, start \o Pieces(us)) = ClampSpsLevel(start \o Pieces(us))
      BY <1>8, <2>13 DEF Clamping
  <2>15. /\ Clamping(codec, key, start \o Pieces(us)) = Due(codec, key, two, us)
         /\ Due(codec, key, two, us) # NoBytes
      BY <1>6, <2>8, <2>9, <2>11, <2>13, <2>14
  <2> QED BY <2>10, <2>15 DEF start
<1> QED BY <1>7, <1>8

\* The loop over a sample that may have lost its last byte.
LEMMA Annexed ==
    ASSUME NEW size \in Nat, size # 0, NEW us, Sample(us, size),
           NEW c, c.length = size, NEW key, Start(c, key) \in Seq(Byte), NEW lost \in {0, 1},
           NEW stored, stored = StoredAll(us, size),
           NEW annexb, annexb = ToAnnexB(SubSeq(stored, 1, Len(stored) - lost), c, key)
    PROVE  /\ annexb \in {NoBytes, Start(c, key) \o Pieces(us)}
           /\ lost = 0 => annexb = Start(c, key) \o Pieces(us)
<1>1. CASE lost = 0
  <2>1. SubSeq(stored, 1, Len(stored) - lost) = stored
    <3>1. stored \in Seq(Byte)
      <4>1. PICK s, g, t, h : Coding(Len(us), size, us, s, g, t, h) /\ stored = g[Len(us)]
          BY SampleCoded
      <4>2. Len(us) \in Nat
          BY DEF Sample
      <4>3. Len(us) \in 0..Len(us)
          BY <4>2
      <4>4. Coding(Len(us), size, us, s, g, t, h)
          BY <4>1
      <4>5. g[Len(us)] \in Seq(Byte)
          BY <4>2, <4>3, <4>4, CodingTypes
      <4> QED BY <4>1, <4>5
    <3>2. SubSeq(stored, 1, Len(stored)) = stored
        BY <3>1
    <3> QED BY <1>1, <3>1, <3>2
  <2>2. ToAnnexB(stored, c, key) = Start(c, key) \o Pieces(us)
      BY WholeSample
  <2> QED BY <2>1, <2>2
<1>2. CASE lost = 1
  <2>1. SubSeq(stored, 1, Len(stored) - lost) = Cut(stored)
      BY <1>2 DEF Cut
  <2>2. ToAnnexB(Cut(stored), c, key) \in {NoBytes, Start(c, key) \o Pieces(us)}
      BY CutSample
  <2>3. annexb = ToAnnexB(Cut(stored), c, key)
      BY <2>1
  <2>4. ~(lost = 0)
      BY <1>2
  <2> QED BY <2>2, <2>3, <2>4
<1> QED BY <1>1, <1>2

BitsKept == BitsInv /\ NalsKept

LEMMA BitsAtFirst == BitstreamInit => BitsKept
<1> SUFFICES ASSUME BitstreamInit PROVE BitsKept
    OBVIOUS
<1>1. cfg = Unparsed /\ units = <<>> /\ data = NoBytes /\ Unparsed # NoBytes
    BY BitstreamAssumption DEF BitstreamInit
<1>2. BitsInv
  <2>1. lengthSize \in 1..4
    <3>1. lengthSize = 1 \/ lengthSize = 2 \/ lengthSize = 3 \/ lengthSize = 4
        BY DEF BitstreamInit
    <3> QED BY <3>1
  <2>2. /\ codecOf \in {"h264", "hevc"} /\ sets \in ParameterSets \X ParameterSets
        /\ keyframe \in BOOLEAN
      BY DEF BitstreamInit
  <2> QED BY <1>1, <2>1, <2>2 DEF BitsInv
<1>3. NalsKept
    BY <1>1 DEF NalsKept
<1> QED BY <1>2, <1>3 DEF BitsKept

LEMMA TrackOpened == BitsKept /\ OpenTrack => BitsKept'
<1> SUFFICES ASSUME BitsKept, OpenTrack PROVE BitsKept'
    OBVIOUS
<1>1. /\ codecOf \in {"h264", "hevc"} /\ sets \in ParameterSets \X ParameterSets
      /\ lengthSize \in 1..4 /\ keyframe \in BOOLEAN
    BY DEF BitsKept, BitsInv
<1>2. units = <<>> /\ data = NoBytes
    BY DEF BitsKept, BitsInv, OpenTrack
<1>3. /\ codecOf' = codecOf /\ sets' = sets /\ lengthSize' = lengthSize
      /\ units' = units /\ keyframe' = keyframe /\ data' = data
    BY DEF OpenTrack
<1>4. cfg' = IF lengthSize = 3 THEN NoBytes ELSE [length |-> lengthSize, sets |-> sets]
  <2> DEFINE x == sets[1]
             y == sets[2]
  <2>1. x \in Seq(Byte) /\ y \in Seq(Byte) /\ Fits(x, 2) /\ Fits(y, 2) /\ sets = <<x, y>>
      BY <1>1, SetsAre
  <2>2. CASE codecOf = "h264"
    <3>1. cfg' = ParseAvcc(AvcC(<<x>>, <<y>>, lengthSize))
        BY <2>2 DEF OpenTrack
    <3> HIDE DEF x, y
    <3>2. ParseAvcc(AvcC(<<x>>, <<y>>, lengthSize)) =
              IF lengthSize = 3 THEN NoBytes ELSE [length |-> lengthSize, sets |-> <<x, y>>]
        BY <1>1, <2>1, AvcParsed
    <3> QED BY <2>1, <3>1, <3>2
  <2>3. CASE codecOf # "h264"
    <3>1. cfg' = ParseHvcc(HvcC(sets, lengthSize))
        BY <2>3 DEF OpenTrack
    <3> HIDE DEF x, y
    <3>2. ParseHvcc(HvcC(sets, lengthSize)) =
              IF lengthSize = 3 THEN NoBytes ELSE [length |-> lengthSize, sets |-> sets]
        BY <1>1, <2>1, HvcParsed
    <3> QED BY <3>1, <3>2
  <2> QED BY <2>2, <2>3
<1>5. [length |-> lengthSize, sets |-> sets] \notin {Unparsed, NoBytes}
    BY <1>1, ConfigApart
<1>6. BitsInv'
    BY <1>1, <1>2, <1>3, <1>4 DEF BitsInv
<1>7. NalsKept'
  <2>1. cfg' \notin {Unparsed, NoBytes} => cfg' = [length |-> lengthSize', sets |-> sets']
      BY <1>3, <1>4
  <2>2. cfg' = NoBytes => lengthSize' = 3
      BY <1>3, <1>4, <1>5
  <2>3. data' = NoBytes /\ units' = <<>>
      BY <1>2, <1>3
  <2> QED BY <2>1, <2>2, <2>3 DEF NalsKept
<1> QED BY <1>6, <1>7 DEF BitsKept

LEMMA UnitsRead == BitsKept /\ NextUnits => BitsKept'
<1> SUFFICES ASSUME BitsKept, NextUnits PROVE BitsKept'
    OBVIOUS
<1> DEFINE two == sets
           size == lengthSize
           us == units'
           key == keyframe'
           lost == cut'
           c == cfg
<1>1. /\ codecOf \in {"h264", "hevc"} /\ two \in ParameterSets \X ParameterSets
      /\ size \in 1..4 /\ cfg \notin {Unparsed, NoBytes}
      /\ size # 3 /\ c = [length |-> size, sets |-> two]
    BY DEF BitsKept, BitsInv, NextUnits
<1>2. /\ codecOf' = codecOf /\ sets' = sets /\ lengthSize' = lengthSize /\ cfg' = cfg
      /\ us \in SeqOf(Nals, SampleNals) \ {<<>>} /\ key \in BOOLEAN /\ lost \in {0, 1}
      /\ \A i \in DOMAIN us : Fits(us[i], size)
    BY DEF NextUnits
<1>3. PICK stored, annexb :
        /\ stored = StoredAll(us, size)
        /\ annexb = ToAnnexB(SubSeq(stored, 1, Len(stored) - lost), c, key)
        /\ data' = IF annexb = NoBytes \/ codecOf # "h264" \/ ~key THEN annexb
                   ELSE ClampSpsLevel(annexb)
    BY DEF NextUnits
<1>4. Sample(us, size) /\ us # <<>>
  <2>1. PICK m \in 0..SampleNals : us \in [1..m -> Nals]
      BY <1>2 DEF SeqOf
  <2>2. m \in Nat
      BY BitstreamAssumption
  <2>3. \A nal \in Nals : nal \in Seq(Byte) /\ NoStartCode(nal)
      BY BitstreamAssumption
  <2>4. us \in Seq(Seq(Byte)) /\ DOMAIN us = 1..m /\ Len(us) = m
    <3>1. \A i \in 1..m : us[i] \in Seq(Byte)
        BY <2>1, <2>3
    <3> HIDE DEF us
    <3> QED BY <2>1, <2>2, <3>1
  <2>5. \A i \in 1..m : Fits(us[i], size) /\ NoStartCode(us[i])
      BY <1>2, <2>1, <2>3, <2>4
  <2>6. us # <<>>
      BY <1>2
  <2> HIDE DEF us, size
  <2> QED BY <2>4, <2>5, <2>6 DEF Sample
<1>5. size \in Nat /\ size # 0 /\ c.length = size /\ c.sets = two
    BY <1>1
<1>6. Clamping(codecOf, key, annexb) = data'
    BY <1>3 DEF Clamping
<1> HIDE DEF two, size, us, key, lost, c
<1>7. /\ Start(c, key) \in Seq(Byte)
      /\ Clamping(codecOf, key, Start(c, key) \o Pieces(us)) = Due(codecOf, key, two, us)
      /\ Due(codecOf, key, two, us) # NoBytes
    BY <1>1, <1>2, <1>4, <1>5, Delivered
<1>8. /\ annexb \in {NoBytes, Start(c, key) \o Pieces(us)}
      /\ lost = 0 => annexb = Start(c, key) \o Pieces(us)
    BY <1>2, <1>3, <1>4, <1>5, <1>7, Annexed
<1>9. /\ data' \in {NoBytes, Due(codecOf, key, two, us)}
      /\ lost = 0 => data' = Due(codecOf, key, two, us)
  <2>1. Clamping(codecOf, key, NoBytes) = NoBytes
      BY DEF Clamping
  <2> QED BY <1>6, <1>7, <1>8, <2>1
<1>10. BitsInv'
    BY <1>1, <1>2, <1>4 DEF BitsInv, two, size, us, key, c
<1>11. NalsKept'
  <2>1. cfg' = [length |-> lengthSize', sets |-> sets'] /\ cfg' # NoBytes
      BY <1>1, <1>2 DEF c, size, two
  <2>2. Due(codecOf', keyframe', sets', units') = Due(codecOf, key, two, us)
      BY <1>2 DEF key, two, us
  <2>3. data' # NoBytes => data' = Due(codecOf', keyframe', sets', units')
      BY <1>9, <2>2
  <2>4. cut' = 0 /\ units' # <<>> => data' # NoBytes
      BY <1>7, <1>9 DEF lost
  <2>5. data' # NoBytes =>
         data' = (IF keyframe' THEN AnnexB([i \in DOMAIN sets' |-> LoweredIn(codecOf', keyframe', sets'[i])])
                  ELSE <<>>)
                 \o FlattenSeq([i \in DOMAIN units' |->
                      IF units'[i] = <<>> THEN <<>> ELSE Framed(LoweredIn(codecOf', keyframe', units'[i]))])
      BY <2>3 DEF Due
  <2> QED BY <2>1, <2>4, <2>5 DEF NalsKept, Lowered, LoweredIn
<1> QED BY <1>10, <1>11 DEF BitsKept

LEMMA NothingRead == BitsKept /\ UNCHANGED bitstreamVars => BitsKept'
<1> SUFFICES ASSUME BitsKept, UNCHANGED bitstreamVars PROVE BitsKept'
    OBVIOUS
<1>1. BitsInv'
    BY DEF BitsKept, BitsInv, bitstreamVars
<1>2. NalsKept'
    BY DEF BitsKept, NalsKept, Lowered, bitstreamVars
<1> QED BY <1>1, <1>2 DEF BitsKept

\* NalsKept: whatever lengths and NAL units a file holds, the decoder gets the sets
\* it was written with and every unit of the sample in order, an SPS level above
\* 5.2 lowered in a keyframe for openh264, and nothing of a damaged sample
\* (bitstream.rs, decode/h264.rs).
THEOREM NalsKeptCorrect == BitstreamSpec => []NalsKept
<1>1. BitstreamInit => BitsKept
    BY BitsAtFirst
<1>2. BitsKept /\ [BitstreamNext]_bitstreamVars => BitsKept'
  <2> SUFFICES ASSUME BitsKept, [BitstreamNext]_bitstreamVars PROVE BitsKept'
      OBVIOUS
  <2>1. CASE OpenTrack
      BY <2>1, TrackOpened
  <2>2. CASE NextUnits
      BY <2>2, UnitsRead
  <2>3. CASE UNCHANGED bitstreamVars
      BY <2>3, NothingRead
  <2> QED BY <2>1, <2>2, <2>3 DEF BitstreamNext
<1>3. BitsKept => NalsKept
    BY DEF BitsKept
<1> QED BY <1>1, <1>2, <1>3, PTL DEF BitstreamSpec
=============================================================================
