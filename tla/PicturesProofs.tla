--------------------------- MODULE PicturesProofs ---------------------------
(***************************************************************************)
(* Theorems about a picture on its way to the screen: what the caller of a *)
(* still or animated image shows is what the file says is seen at the      *)
(* clock's position (Images), and no decoder's picture, of any size,       *)
(* padding and depth, makes to_bgra read past a plane, whatever the number *)
(* of threads (Planes).                                                    *)
(*                                                                         *)
(* The composition and the end of a frame are recursive functions.  That   *)
(* they have the values their equations say is proved by induction over    *)
(* the natural numbers, as the least element of a set of counterexamples.  *)
(***************************************************************************)
EXTENDS Images, Planes, FiniteSetTheorems, WellFoundedInduction, TLAPS

(* Induction over the natural numbers *)

LEMMA LeastNumber ==
    ASSUME NEW T, T \subseteq Nat, T # {}
    PROVE  \E n \in T : \A k \in T : n <= k
<1> DEFINE R == OpToRel(<, Nat)
<1>1. IsWellFoundedOn(R, Nat)
    BY NatLessThanWellFounded
<1>2. \A j, k \in Nat : j < k => <<j, k>> \in R
    BY DEF OpToRel
<1> HIDE DEF R
<1>3. \E n \in T : \A k \in T : ~(<<k, n>> \in R)
    BY <1>1, WFMin
<1>4. PICK n \in T : \A k \in T : ~(<<k, n>> \in R)
    BY <1>3
<1>5. ASSUME NEW k \in T, k < n PROVE FALSE
    BY <1>2, <1>4, <1>5
<1>6. \A k \in T : k \in Nat
    OBVIOUS
<1> QED BY <1>4, <1>5, <1>6

\* Induction, with a set for what is to be shown.
LEMMA Counting ==
    ASSUME NEW T, 0 \in T, \A n \in Nat : n \in T => n + 1 \in T
    PROVE  \A n \in Nat : n \in T
<1> DEFINE out == Nat \ T
<1>1. SUFFICES ASSUME out # {} PROVE FALSE
    OBVIOUS
<1>2. PICK n \in out : \A k \in out : n <= k
    BY <1>1, LeastNumber
<1>3. n - 1 \in T
    BY <1>2
<1> QED BY <1>2, <1>3

\* The frames are a sequence.
LEMMA FramesAre ==
    ASSUME NEW f \in ImageFiles
    PROVE  /\ DOMAIN f.frames = 1..Len(f.frames) /\ Len(f.frames) \in Nat
           /\ f.frames # <<>> => Len(f.frames) > 0
<1>1. PICK S : f.frames \in Seq(S)
    BY ImagesAssumption
<1>2. DOMAIN f.frames = 1..Len(f.frames) /\ Len(f.frames) \in Nat
    BY <1>1
<1>3. f.frames # <<>> => Len(f.frames) > 0
    BY <1>1, <1>2
<1> QED BY <1>2, <1>3

----------------------------------------------------------------------------
(***************************************************************************)
(* The clock: when a frame ends, and which frame a position is in.         *)
(***************************************************************************)

LEMMA EndOfStep ==
    ASSUME NEW f \in ImageFiles
    PROVE  /\ EndOf(f, 0) = 0
           /\ \A i \in 0..Len(f.frames) : EndOf(f, i) \in Nat
           /\ \A i \in 1..Len(f.frames) : EndOf(f, i) = EndOf(f, i - 1) + f.frames[i].delay
<1> DEFINE n == Len(f.frames)
           d(k) == f.frames[k].delay
           Sums(i, g) == g = [k \in 0..i |-> IF k = 0 THEN 0 ELSE g[k - 1] + d(k)]
<1>1. n \in Nat /\ \A k \in 1..n : d(k) \in Nat
    BY FramesAre, ImagesAssumption
<1> HIDE DEF n, d
<1>2. \A i \in Nat : \E g : Sums(i, g)
  <2> DEFINE T == {i \in Nat : \E g : Sums(i, g)}
  <2>1. 0 \in T
    <3> DEFINE g == [k \in 0..0 |-> 0]
    <3>1. Sums(0, g)
        OBVIOUS
    <3> QED BY <3>1
  <2>2. ASSUME NEW i \in Nat, i \in T PROVE i + 1 \in T
    <3>1. PICK g : Sums(i, g)
        BY <2>2
    <3> DEFINE h == [k \in 0..i + 1 |-> IF k <= i THEN g[k] ELSE g[i] + d(i + 1)]
    <3>2. \A k \in 0..i : h[k] = g[k]
        OBVIOUS
    <3>3. \A k \in 0..i : g[k] = IF k = 0 THEN 0 ELSE g[k - 1] + d(k)
        BY <3>1
    <3>4. h[i + 1] = h[i] + d(i + 1)
        BY <3>2
    <3>5. \A k \in 0..i + 1 : h[k] = IF k = 0 THEN 0 ELSE h[k - 1] + d(k)
      <4>1. ASSUME NEW k \in 0..i + 1, k <= i PROVE h[k] = IF k = 0 THEN 0 ELSE h[k - 1] + d(k)
        <5>1. k \in 0..i /\ (k # 0 => k - 1 \in 0..i)
            BY <4>1
        <5> HIDE DEF h
        <5> QED BY <3>2, <3>3, <5>1
      <4> HIDE DEF h
      <4>2. \A k \in 0..i + 1 : k <= i \/ k = i + 1
          OBVIOUS
      <4> QED BY <3>4, <4>1, <4>2
    <3>6. Sums(i + 1, h)
      <4>1. h = [k \in 0..i + 1 |-> h[k]]
          OBVIOUS
      <4> HIDE DEF h
      <4> QED BY <3>5, <4>1
    <3> HIDE DEF Sums, h
    <3> QED BY <3>6
  <2> HIDE DEF T
  <2>3. \A i \in Nat : i \in T
      BY <2>1, <2>2, Counting
  <2> QED BY <2>3 DEF T
<1>3. ASSUME NEW i \in Nat, NEW g, NEW j \in Nat, NEW h, Sums(i, g), Sums(j, h), i <= j, j <= n
      PROVE  \A k \in 0..i : g[k] = h[k] /\ g[k] \in Nat
  <2> DEFINE T == {k \in Nat : k <= i => g[k] = h[k] /\ g[k] \in Nat}
  <2>1. 0 \in T
      BY <1>3
  <2>2. ASSUME NEW k \in Nat, k \in T PROVE k + 1 \in T
    <3>1. SUFFICES ASSUME k + 1 <= i PROVE g[k + 1] = h[k + 1] /\ g[k + 1] \in Nat
        OBVIOUS
    <3>2. g[k + 1] = g[k] + d(k + 1) /\ h[k + 1] = h[k] + d(k + 1)
        BY <1>3, <3>1
    <3> QED BY <1>1, <1>3, <2>2, <3>1, <3>2
  <2> HIDE DEF T
  <2>3. \A k \in Nat : k \in T
      BY <2>1, <2>2, Counting
  <2> HIDE DEF Sums
  <2>4. \A k \in 0..i : k \in Nat /\ k <= i
      OBVIOUS
  <2> QED BY <2>3, <2>4 DEF T
<1>4. ASSUME NEW i \in 0..n PROVE \E g : Sums(i, g) /\ EndOf(f, i) = g[i]
  <2>1. EndOf(f, i) = (CHOOSE g : Sums(i, g))[i]
      BY DEF EndOf, d
  <2> HIDE DEF Sums
  <2>2. \E g : Sums(i, g)
      BY <1>1, <1>2
  <2> QED BY <2>1, <2>2
<1> HIDE DEF Sums
<1>5. EndOf(f, 0) = 0
  <2>1. PICK g : Sums(0, g) /\ EndOf(f, 0) = g[0]
      BY <1>1, <1>4
  <2> QED BY <2>1 DEF Sums
<1>6. ASSUME NEW i \in 0..n PROVE EndOf(f, i) \in Nat
  <2>1. PICK g : Sums(i, g) /\ EndOf(f, i) = g[i]
      BY <1>4
  <2> QED BY <1>1, <1>3, <2>1
<1>7. ASSUME NEW i \in 1..n PROVE EndOf(f, i) = EndOf(f, i - 1) + d(i)
  <2>1. PICK h : Sums(i, h) /\ EndOf(f, i) = h[i]
      BY <1>1, <1>4
  <2>2. i - 1 \in 0..n
      BY <1>1
  <2>3. PICK g : Sums(i - 1, g) /\ EndOf(f, i - 1) = g[i - 1]
      BY <1>4, <2>2
  <2>4. g[i - 1] = h[i - 1]
      BY <1>1, <1>3, <2>1, <2>2, <2>3
  <2>5. h[i] = h[i - 1] + d(i)
      BY <1>1, <2>1 DEF Sums
  <2> QED BY <2>1, <2>3, <2>4, <2>5
<1> QED BY <1>5, <1>6, <1>7 DEF n, d

\* The frame of a position is the one that begins before it and ends after it.
LEMMA FrameAtPosition ==
    ASSUME NEW f \in ImageFiles, NEW pos \in Nat, pos < Total(f)
    PROVE  LET i == FrameAt(f, pos)
           IN  i \in 1..Len(f.frames) /\ EndOf(f, i - 1) <= pos /\ pos < EndOf(f, i)
<1> DEFINE after == {i \in DOMAIN f.frames : pos < EndOf(f, i)}
           i == FrameAt(f, pos)
<1>1. DOMAIN f.frames = 1..Len(f.frames) /\ Len(f.frames) \in Nat
    BY FramesAre
<1>2. EndOf(f, 0) = 0 /\ \A j \in 0..Len(f.frames) : EndOf(f, j) \in Nat
    BY EndOfStep
<1>3. after # {}
  <2>1. Len(f.frames) # 0
      BY <1>2 DEF Total
  <2>2. Len(f.frames) \in DOMAIN f.frames
      BY <1>1, <2>1
  <2> QED BY <2>2 DEF Total
<1>4. after \subseteq Nat /\ after \subseteq 1..Len(f.frames)
    BY <1>1
<1>5. \E k \in after : \A j \in after : k <= j
  <2> HIDE DEF after
  <2> QED BY <1>3, <1>4, LeastNumber
<1>6. i = CHOOSE k \in after : \A j \in after : k <= j
    BY <1>3 DEF FrameAt
<1>7. i \in after /\ \A j \in after : i <= j
  <2> HIDE DEF after, i
  <2> QED BY <1>5, <1>6
<1> HIDE DEF i
<1>8. i \in 1..Len(f.frames) /\ pos < EndOf(f, i)
    BY <1>4, <1>7
<1>9. CASE i = 1
    BY <1>2, <1>8, <1>9 DEF i
<1>10. CASE i # 1
  <2>1. i - 1 \in 1..Len(f.frames) /\ i - 1 \in 0..Len(f.frames) /\ i - 1 < i
      BY <1>1, <1>8, <1>10
  <2>2. i - 1 \notin after
      BY <1>4, <1>7, <2>1
  <2>3. ~(pos < EndOf(f, i - 1))
      BY <1>1, <2>1, <2>2
  <2> QED BY <1>2, <1>8, <2>1, <2>3 DEF i
<1> QED BY <1>9, <1>10

\* The clock is always in the file.
LEMMA PositionInside ==
    ASSUME NEW start \in Nat, NEW at \in Nat, start <= at, NEW total \in Nat \ {0},
           looped \in BOOLEAN, speed \in {1, 2}
    PROVE  Position(start, at, total) \in Nat /\ Position(start, at, total) < total
<1>1. PICK raw \in Nat : raw = (at - start) * speed
  <2>1. CASE speed = 1
      BY <2>1
  <2>2. CASE speed = 2
      BY <2>2
  <2> QED BY <2>1, <2>2
<1>2. raw % total \in 0..total - 1
    OBVIOUS
<1> QED BY <1>1, <1>2 DEF Position

LEMMA TotalIsPositive ==
    ASSUME NEW f \in ImageFiles, f.frames # <<>>
    PROVE  Total(f) \in Nat \ {0}
<1>1. DOMAIN f.frames = 1..Len(f.frames) /\ Len(f.frames) \in Nat
    BY FramesAre
<1>2. Len(f.frames) > 0
    BY FramesAre
<1>3. Len(f.frames) \in 1..Len(f.frames) /\ Len(f.frames) - 1 \in 0..Len(f.frames)
    BY <1>1, <1>2
<1>4. f.frames[Len(f.frames)].delay \in Nat \ {0}
    BY <1>1, <1>3, ImagesAssumption
<1>5. /\ EndOf(f, Len(f.frames) - 1) \in Nat
      /\ Total(f) = EndOf(f, Len(f.frames) - 1) + f.frames[Len(f.frames)].delay
    BY <1>3, EndOfStep DEF Total
<1> QED BY <1>4, <1>5

----------------------------------------------------------------------------
(***************************************************************************)
(* Composition.                                                            *)
(***************************************************************************)

Canvases(f) == [Pixels(f.w, f.h) -> Colours(f)]

\* What frame k leaves behind on c.
Behind(f, k, c) ==
    LET g == f.frames[k] IN
    CASE g.dispose = "previous" -> c
      [] g.dispose = "background" -> FillRect(Blit(c, g), g, f.bg)
      [] OTHER -> Blit(c, g)

LEMMA DrawingFits ==
    ASSUME NEW f \in ImageFiles, NEW k \in 1..Len(f.frames), NEW c \in Canvases(f)
    PROVE  /\ Blit(c, f.frames[k]) \in Canvases(f)
           /\ FillRect(c, f.frames[k], f.bg) \in Canvases(f)
           /\ Background(f) \in Canvases(f)
           /\ Behind(f, k, c) \in Canvases(f)
<1> DEFINE g == f.frames[k]
<1>1. /\ k \in DOMAIN f.frames
      /\ g.left \in Nat /\ g.top \in Nat /\ g.w \in Nat /\ g.h \in Nat
      /\ DOMAIN g.rgba = Pixels(g.w, g.h)
    BY FramesAre, ImagesAssumption
<1>2. f.bg \in Colours(f) /\ \A q \in DOMAIN g.rgba : g.rgba[q] \in Colours(f)
    BY <1>1 DEF Colours
<1> HIDE DEF g
<1>3. ASSUME NEW d \in Canvases(f) PROVE Blit(d, g) \in Canvases(f)
  <2>1. ASSUME NEW p \in Pixels(f.w, f.h), Covers(g, p)
        PROVE  g.rgba[<<p[1] - g.left, p[2] - g.top>>] \in Colours(f)
    <3> DEFINE x == p[1]  y == p[2]  l == g.left  t == g.top  w == g.w  h == g.h
    <3>1. l \in Nat /\ t \in Nat /\ w \in Nat /\ h \in Nat
        BY <1>1
    <3>2. x \in l..l + w - 1 /\ y \in t..t + h - 1
        BY <2>1 DEF Covers
    <3> HIDE DEF x, y, l, t, w, h
    <3>3. x - l \in 0..w - 1 /\ y - t \in 0..h - 1
        BY <3>1, <3>2
    <3> QED BY <1>1, <1>2, <3>3 DEF Pixels, x, y, l, t, w, h
  <2> QED BY <2>1 DEF Blit, Canvases
<1>4. ASSUME NEW d \in Canvases(f) PROVE FillRect(d, g, f.bg) \in Canvases(f)
    BY <1>2 DEF FillRect, Canvases
<1>5. Background(f) \in Canvases(f)
    BY <1>2 DEF Background, Canvases
<1>6. Behind(f, k, c) \in Canvases(f)
    BY <1>3, <1>4 DEF Behind, g
<1> QED BY <1>3, <1>4, <1>5, <1>6 DEF g

\* What a frame leaves behind, from what the one before it left.
LEMMA LeavesStep ==
    ASSUME NEW f \in ImageFiles
    PROVE  /\ Leaves(f, 0) = Background(f)
           /\ \A i \in 1..Len(f.frames) : Leaves(f, i) = Behind(f, i, Leaves(f, i - 1))
<1> DEFINE z == Background(f)
           b(k, c) == Behind(f, k, c)
           Built(i, g) == g = [k \in 0..i |-> IF k = 0 THEN z ELSE b(k, g[k - 1])]
<1>1. ASSUME NEW i \in 0..Len(f.frames)
      PROVE  Leaves(f, i) = (CHOOSE g : Built(i, g))[i]
    BY DEF Leaves, Behind
<1> HIDE DEF z, b
<1>2. \A i \in Nat : \E g : Built(i, g)
  <2> DEFINE T == {i \in Nat : \E g : Built(i, g)}
  <2>1. 0 \in T
    <3> DEFINE g == [k \in 0..0 |-> z]
    <3>1. Built(0, g)
        OBVIOUS
    <3> QED BY <3>1
  <2>2. ASSUME NEW i \in Nat, i \in T PROVE i + 1 \in T
    <3>1. PICK g : Built(i, g)
        BY <2>2
    <3> DEFINE h == [k \in 0..i + 1 |-> IF k <= i THEN g[k] ELSE b(i + 1, g[i])]
    <3>2. \A k \in 0..i : h[k] = g[k]
        OBVIOUS
    <3>3. \A k \in 0..i : g[k] = IF k = 0 THEN z ELSE b(k, g[k - 1])
        BY <3>1
    <3>4. h[i + 1] = b(i + 1, h[i])
        BY <3>2
    <3>5. \A k \in 0..i + 1 : h[k] = IF k = 0 THEN z ELSE b(k, h[k - 1])
      <4>1. ASSUME NEW k \in 0..i + 1, k <= i PROVE h[k] = IF k = 0 THEN z ELSE b(k, h[k - 1])
        <5>1. k \in 0..i /\ (k # 0 => k - 1 \in 0..i)
            BY <4>1
        <5> HIDE DEF h
        <5> QED BY <3>2, <3>3, <5>1
      <4> HIDE DEF h
      <4>2. \A k \in 0..i + 1 : k <= i \/ k = i + 1
          OBVIOUS
      <4> QED BY <3>4, <4>1, <4>2
    <3>6. Built(i + 1, h)
      <4>1. h = [k \in 0..i + 1 |-> h[k]]
          OBVIOUS
      <4> HIDE DEF h
      <4> QED BY <3>5, <4>1
    <3> HIDE DEF Built, h
    <3> QED BY <3>6
  <2> HIDE DEF T
  <2>3. \A i \in Nat : i \in T
      BY <2>1, <2>2, Counting
  <2> QED BY <2>3 DEF T
<1>3. ASSUME NEW i \in Nat, NEW g, NEW j \in Nat, NEW h, Built(i, g), Built(j, h), i <= j
      PROVE  \A k \in 0..i : g[k] = h[k]
  <2> DEFINE T == {k \in Nat : k <= i => g[k] = h[k]}
  <2>1. 0 \in T
      BY <1>3
  <2>2. ASSUME NEW k \in Nat, k \in T PROVE k + 1 \in T
    <3>1. SUFFICES ASSUME k + 1 <= i PROVE g[k + 1] = h[k + 1]
        OBVIOUS
    <3>2. g[k + 1] = b(k + 1, g[k]) /\ h[k + 1] = b(k + 1, h[k])
        BY <1>3, <3>1
    <3> QED BY <1>3, <2>2, <3>1, <3>2
  <2> HIDE DEF T
  <2>3. \A k \in Nat : k \in T
      BY <2>1, <2>2, Counting
  <2> HIDE DEF Built
  <2>4. \A k \in 0..i : k \in Nat /\ k <= i
      OBVIOUS
  <2> QED BY <2>3, <2>4 DEF T
<1>4. Len(f.frames) \in Nat
    BY FramesAre
<1>5. ASSUME NEW i \in 0..Len(f.frames) PROVE \E g : Built(i, g) /\ Leaves(f, i) = g[i]
  <2>1. Leaves(f, i) = (CHOOSE g : Built(i, g))[i]
      BY <1>1
  <2> HIDE DEF Built
  <2>2. \E g : Built(i, g)
      BY <1>2, <1>4
  <2> QED BY <2>1, <2>2
<1> HIDE DEF Built
<1>6. Leaves(f, 0) = z
  <2>1. PICK g : Built(0, g) /\ Leaves(f, 0) = g[0]
      BY <1>4, <1>5
  <2> QED BY <2>1 DEF Built
<1>7. ASSUME NEW i \in 1..Len(f.frames) PROVE Leaves(f, i) = b(i, Leaves(f, i - 1))
  <2>1. PICK h : Built(i, h) /\ Leaves(f, i) = h[i]
      BY <1>4, <1>5
  <2>2. i - 1 \in 0..Len(f.frames)
      BY <1>4
  <2>3. PICK g : Built(i - 1, g) /\ Leaves(f, i - 1) = g[i - 1]
      BY <1>5, <2>2
  <2>4. g[i - 1] = h[i - 1]
      BY <1>3, <1>4, <2>1, <2>2, <2>3
  <2>5. h[i] = b(i, h[i - 1])
      BY <1>4, <2>1 DEF Built
  <2> QED BY <2>1, <2>3, <2>4, <2>5
<1> QED BY <1>6, <1>7 DEF z, b

\* A canvas that shows a frame: what the format says of it, and a backup of what
\* was there before if the frame asks for it back.
Seen(f, i) == IF i = 0 THEN Background(f) ELSE Visible(f, i)

Composed(f, s) ==
    /\ s.shown \in 0..Len(f.frames)
    /\ s.canvas = Seen(f, s.shown)
    /\ s.shown > 0 /\ f.frames[s.shown].dispose = "previous" => s.backup = Leaves(f, s.shown - 1)

LEMMA LeavesFit ==
    ASSUME NEW f \in ImageFiles, f.frames # <<>>
    PROVE  \A i \in 0..Len(f.frames) : Leaves(f, i) \in Canvases(f)
<1> DEFINE T == {i \in Nat : i <= Len(f.frames) => Leaves(f, i) \in Canvases(f)}
<1>1. Len(f.frames) \in Nat /\ Len(f.frames) > 0 /\ 1 \in 1..Len(f.frames)
    BY FramesAre
<1>2. 0 \in T
  <2>1. f.bg \in Colours(f)
      BY DEF Colours
  <2> QED BY <2>1, LeavesStep DEF Background, Canvases
<1>3. ASSUME NEW i \in Nat, i \in T PROVE i + 1 \in T
  <2>1. SUFFICES ASSUME i + 1 <= Len(f.frames) PROVE Leaves(f, i + 1) \in Canvases(f)
      OBVIOUS
  <2>2. i + 1 \in 1..Len(f.frames) /\ Leaves(f, i) \in Canvases(f) /\ (i + 1) - 1 = i
      BY <1>1, <1>3, <2>1
  <2>3. Leaves(f, i + 1) = Behind(f, i + 1, Leaves(f, i))
      BY <2>2, LeavesStep
  <2> QED BY <2>2, <2>3, DrawingFits
<1> HIDE DEF T
<1>4. \A i \in Nat : i \in T
    BY <1>2, <1>3, Counting
<1> QED BY <1>1, <1>4 DEF T

\* One step forward shows the next frame as the format says (step in gif.rs).
LEMMA StepGifComposes ==
    ASSUME NEW f \in ImageFiles, NEW s, Composed(f, s), s.shown + 1 \in 1..Len(f.frames)
    PROVE  Composed(f, StepGif(f, s)) /\ StepGif(f, s).shown = s.shown + 1
<1> DEFINE k == s.shown
           next == s.shown + 1
           g == f.frames[s.shown]
           restores == s.shown > 0 /\ g.dispose = "previous" /\ s.backup # Nothing
           disposed == IF s.shown > 0 /\ g.dispose = "background" THEN FillRect(s.canvas, g, f.bg)
                       ELSE IF restores THEN s.backup ELSE s.canvas
<1>1. k \in Nat /\ k \in 0..Len(f.frames) /\ f.frames # <<>> /\ Len(f.frames) \in Nat
      /\ next - 1 = k
  <2>1. f.frames = <<>> => Len(f.frames) = 0
      OBVIOUS
  <2> QED BY <2>1, FramesAre DEF Composed
<1>2. disposed = Leaves(f, k)
  <2>1. CASE k = 0
      BY <1>1, <2>1, LeavesStep DEF Composed, Seen
  <2>2. CASE k > 0
    <3>1. k \in 1..Len(f.frames) /\ k - 1 \in 0..Len(f.frames)
        BY <1>1, <2>2
    <3>2. s.canvas = Blit(Leaves(f, k - 1), g)
        BY <1>1, <2>2 DEF Composed, Seen, Visible
    <3>3. Leaves(f, k) = Behind(f, k, Leaves(f, k - 1))
        BY <3>1, LeavesStep
    <3>4. CASE g.dispose = "previous"
      <4>1. s.backup = Leaves(f, k - 1)
          BY <2>2, <3>4 DEF Composed
      <4>2. s.backup \in Canvases(f)
          BY <1>1, <3>1, <4>1, LeavesFit
      <4>3. Nothing \notin Canvases(f)
          BY ImagesAssumption DEF Canvases
      <4> QED BY <2>2, <3>3, <3>4, <4>1, <4>2, <4>3 DEF Behind
    <3>5. CASE g.dispose = "background"
        BY <2>2, <3>2, <3>3, <3>5 DEF Behind
    <3>6. CASE g.dispose # "previous" /\ g.dispose # "background"
        BY <2>2, <3>2, <3>3, <3>6 DEF Behind
    <3> QED BY <3>4, <3>5, <3>6
  <2> QED BY <1>1, <2>1, <2>2
<1>3. StepGif(f, s) = [canvas |-> Blit(disposed, f.frames[next]),
                       backup |-> IF f.frames[next].dispose = "previous" THEN disposed
                                  ELSE IF restores THEN Nothing ELSE s.backup,
                       shown |-> next]
    BY DEF StepGif
<1> HIDE DEF disposed, restores
<1>4. /\ StepGif(f, s).shown = next
      /\ StepGif(f, s).canvas = Visible(f, next)
      /\ f.frames[next].dispose = "previous" => StepGif(f, s).backup = Leaves(f, next - 1)
    BY <1>1, <1>2, <1>3 DEF Visible
<1>5. next > 0 /\ next \in 0..Len(f.frames)
    BY <1>1
<1> QED BY <1>4, <1>5 DEF Composed, Seen

\* A clean canvas.
LEMMA CleanComposes == ASSUME NEW f \in ImageFiles PROVE Composed(f, Clean(f))
BY FramesAre DEF Composed, Clean, Seen

\* However far the target is, ahead or behind, it is shown as the format says
\* (show in gif.rs).
LEMMA ShowComposes ==
    ASSUME NEW f \in ImageFiles, NEW s, Composed(f, s), NEW target \in 1..Len(f.frames)
    PROVE  Composed(f, Show(f, s, target)) /\ Show(f, s, target).shown = target
<1> DEFINE from == IF target < s.shown THEN Clean(f) ELSE s
           a == from.shown
           st(x) == StepGif(f, x)
           Gone(n, g) == g = [i \in a..a + n |-> IF i = a THEN from ELSE st(g[i - 1])]
<1>1. Composed(f, from) /\ a \in Nat /\ a <= target /\ Len(f.frames) \in Nat
      /\ target \in Nat /\ target <= Len(f.frames)
  <2>1. Len(f.frames) \in Nat /\ s.shown \in Nat
      BY FramesAre DEF Composed
  <2>2. Clean(f).shown = 0
      BY DEF Clean
  <2> QED BY <2>1, <2>2, CleanComposes
<1> DEFINE d == target - a
<1>2. d \in Nat /\ a + d = target
    BY <1>1
<1>3. Show(f, s, target) = (CHOOSE g : Gone(d, g))[target]
  <2>1. Show(f, s, target)
           = (CHOOSE g : g = [i \in a..target |-> IF i = a THEN from ELSE st(g[i - 1])])[target]
      BY DEF Show
  <2> HIDE DEF from, a, st, d
  <2> QED BY <1>2, <2>1
<1> HIDE DEF from, a, st, d
<1>4. \A n \in Nat : \E g : Gone(n, g)
  <2> DEFINE T == {n \in Nat : \E g : Gone(n, g)}
  <2>1. 0 \in T
    <3> DEFINE g == [i \in a..a + 0 |-> from]
    <3>1. Gone(0, g)
        BY <1>1
    <3> QED BY <3>1
  <2>2. ASSUME NEW n \in Nat, n \in T PROVE n + 1 \in T
    <3>1. PICK g : Gone(n, g)
        BY <2>2
    <3> DEFINE m == a + (n + 1)
               h == [i \in a..m |-> IF i < m THEN g[i] ELSE st(g[a + n])]
    <3>2. m \in Nat /\ a < m /\ a + n = m - 1 /\ a + n \in a..a + n
        BY <1>1
    <3>3. \A i \in a..a + n : i < m /\ i \in a..m
        BY <1>1, <3>2
    <3>4. \A i \in a..a + n : h[i] = g[i]
        BY <3>3
    <3>5. \A i \in a..a + n : g[i] = IF i = a THEN from ELSE st(g[i - 1])
        BY <3>1
    <3>6. h[m] = st(h[m - 1])
        BY <1>1, <3>2, <3>4
    <3>7. h = [i \in a..m |-> h[i]]
        OBVIOUS
    <3> HIDE DEF h
    <3>8. ASSUME NEW i \in a..m PROVE h[i] = IF i = a THEN from ELSE st(h[i - 1])
      <4>1. CASE i = m
          BY <3>2, <3>6, <4>1
      <4>2. CASE i < m
        <5>1. i \in a..a + n /\ (i # a => i - 1 \in a..a + n)
            BY <1>1, <3>2, <4>2
        <5> QED BY <3>4, <3>5, <5>1
      <4> QED BY <1>1, <3>2, <4>1, <4>2
    <3>9. Gone(n + 1, h)
        BY <3>7, <3>8
    <3> HIDE DEF Gone
    <3> QED BY <3>9
  <2> HIDE DEF T
  <2>3. \A n \in Nat : n \in T
      BY <2>1, <2>2, Counting
  <2> QED BY <2>3 DEF T
<1>5. PICK g : Gone(d, g) /\ Show(f, s, target) = g[target]
  <2> HIDE DEF Gone
  <2>1. \E g : Gone(d, g)
      BY <1>2, <1>4
  <2> QED BY <1>3, <2>1
<1> DEFINE T == {n \in Nat : n <= d => Composed(f, g[a + n]) /\ g[a + n].shown = a + n}
<1>6. 0 \in T
  <2>1. g[a] = from /\ a + 0 = a
      BY <1>1, <1>2, <1>5
  <2> QED BY <1>1, <2>1 DEF a
<1>7. ASSUME NEW n \in Nat, n \in T PROVE n + 1 \in T
  <2>1. SUFFICES ASSUME n + 1 <= d
                 PROVE  Composed(f, g[a + (n + 1)]) /\ g[a + (n + 1)].shown = a + (n + 1)
      OBVIOUS
  <2>2. Composed(f, g[a + n]) /\ g[a + n].shown = a + n
      BY <1>2, <1>7, <2>1
  <2>3. a + (n + 1) \in a..a + d /\ a + (n + 1) # a /\ (a + (n + 1)) - 1 = a + n
      BY <1>1, <1>2, <2>1
  <2>4. g[a + (n + 1)] = st(g[a + n])
      BY <1>5, <2>3
  <2>5. (a + n) + 1 \in 1..Len(f.frames) /\ (a + n) + 1 = a + (n + 1)
      BY <1>1, <1>2, <2>1
  <2> QED BY <2>2, <2>4, <2>5, StepGifComposes DEF st
<1> HIDE DEF T
<1>8. \A n \in Nat : n \in T
    BY <1>6, <1>7, Counting
<1>9. Composed(f, g[target]) /\ g[target].shown = target
    BY <1>2, <1>8 DEF T
<1> QED BY <1>5, <1>9

----------------------------------------------------------------------------
(***************************************************************************)
(* The sources.                                                            *)
(***************************************************************************)

Premultiplied(got, want) ==
    got.a = want.a /\ 255 * got.c - want.c * want.a \in -127..127

LEMMA FromRgbaIsRight ==
    ASSUME NEW f \in ImageFiles
    PROVE  /\ FromRgba(f.rgba) # Nothing
           /\ \A p \in DOMAIN f.rgba : Premultiplied(FromRgba(f.rgba)[p], f.rgba[p])
<1>1. ASSUME NEW p \in DOMAIN f.rgba
      PROVE  /\ Premul(f.rgba[p].c, f.rgba[p].a) \in Nat
             /\ 255 * Premul(f.rgba[p].c, f.rgba[p].a) - f.rgba[p].c * f.rgba[p].a \in -127..127
             /\ f.rgba[p].a \in Nat
  <2>1. f.rgba[p].c \in Nat /\ f.rgba[p].a \in Nat
    <3>1. \A q \in DOMAIN f.rgba : f.rgba[q].c \in 0..255 /\ f.rgba[q].a \in 0..255
        BY ImagesAssumption
    <3>2. \A n \in 0..255 : n \in Nat
        OBVIOUS
    <3> QED BY <3>1, <3>2
  <2>2. f.rgba[p].c * f.rgba[p].a \in Nat
      BY <2>1
  <2>3. ASSUME NEW x \in Nat
        PROVE  (x + 127) \div 255 \in Nat /\ 255 * ((x + 127) \div 255) - x \in -127..127
      OBVIOUS
  <2> QED BY <2>1, <2>2, <2>3 DEF Premul
<1>2. FromRgba(f.rgba) \in [DOMAIN f.rgba -> [c : Nat, a : Nat]]
    BY <1>1 DEF FromRgba
<1>3. Nothing \notin [DOMAIN f.rgba -> [c : Nat, a : Nat]]
    BY ImagesAssumption
<1> QED BY <1>1, <1>2, <1>3 DEF FromRgba, Premultiplied

Drawing == [canvas |-> canvas, backup |-> backup, shown |-> shown]

StillInv ==
    source = "still" =>
        IF frame = Nothing THEN texture = [generation |-> 1, pixels |-> FromRgba(image.rgba)]
                           ELSE frame = FromRgba(image.rgba)

GifInv ==
    source = "gif" =>
        /\ image.frames # <<>>
        /\ Composed(image, Drawing)
        /\ started = Nothing \/ (started \in Nat /\ started <= now)
        /\ started # Nothing => sent = FrameAt(image, Position(started, now, Total(image)))
        /\ texture.generation \in Nat
        /\ texture.generation > 0 => texture.pixels = Visible(image, sent)

ImagesInv ==
    /\ image \in ImageFiles /\ looped \in BOOLEAN /\ speed \in {1, 2} /\ now \in Nat
    /\ source = "unopened" => shown = 0 /\ started = Nothing /\ texture.generation = 0
    /\ StillInv /\ GifInv

LEMMA ImagesInvInit == ImagesInit => ImagesInv
BY DEF ImagesInit, ImagesInv, StillInv, GifInv

LEMMA OpenImageKeeps == ImagesInv /\ OpenImage => ImagesInv'
<1> SUFFICES ASSUME ImagesInv, OpenImage PROVE ImagesInv'
    OBVIOUS
<1>1. /\ source = "unopened" /\ shown' = 0 /\ started' = Nothing /\ texture'.generation = 0
      /\ UNCHANGED <<image, looped, speed, now>>
    BY DEF OpenImage, ImagesInv
<1>2. source' = "gif" => image.frames # <<>> /\ canvas' = Background(image)
    BY DEF OpenImage, OpenKind, DecodesGif
<1>3. source' = "still" => frame' = FromRgba(image.rgba)
    BY DEF OpenImage
<1>4. FromRgba(image.rgba) # Nothing
    BY FromRgbaIsRight DEF ImagesInv
<1>5. source' = "gif" => Composed(image', Drawing')
    BY <1>1, <1>2, FramesAre DEF Composed, Drawing, Seen, ImagesInv
<1> QED BY <1>1, <1>2, <1>3, <1>4, <1>5 DEF ImagesInv, StillInv, GifInv

LEMMA PollGifKeeps == ImagesInv /\ PollGif => ImagesInv'
<1> SUFFICES ASSUME ImagesInv, PollGif PROVE ImagesInv'
    OBVIOUS
<1> DEFINE pos == Position(started', now', Total(image))
           target == FrameAt(image, pos)
           s == Show(image, Drawing, target)
<1>1. /\ image \in ImageFiles /\ looped \in BOOLEAN /\ speed \in {1, 2} /\ now \in Nat
      /\ source = "gif" /\ source' = "gif" /\ image.frames # <<>>
      /\ UNCHANGED <<image, looped, speed>>
    BY DEF PollGif, ImagesInv, GifInv, unlooked
<1>2. now' \in Nat /\ now <= now'
    BY ImagesAssumption DEF PollGif, ImagesInv
<1>3. started' \in Nat /\ started' <= now'
    BY <1>1, <1>2 DEF PollGif, ImagesInv, GifInv
<1>4. pos \in Nat /\ pos < Total(image)
    BY <1>1, <1>2, <1>3, TotalIsPositive, PositionInside
<1>5. target \in 1..Len(image.frames)
  <2> HIDE DEF pos
  <2> QED BY <1>1, <1>4, FrameAtPosition
<1>6. Composed(image, s) /\ s.shown = target
  <2>1. Composed(image, Drawing)
      BY <1>1 DEF ImagesInv, GifInv
  <2> HIDE DEF target
  <2> QED BY <1>1, <1>5, <2>1, ShowComposes
<1>7. /\ canvas' = s.canvas /\ backup' = s.backup /\ shown' = s.shown /\ sent' = target
      /\ texture' = IF sent = target THEN texture
                    ELSE [generation |-> texture.generation + 1, pixels |-> s.canvas]
    BY DEF PollGif, Drawing
<1>8. Composed(image, Drawing')
    BY <1>6, <1>7 DEF Composed, Drawing
<1>9. s.canvas = Visible(image, target)
    BY <1>5, <1>6, FramesAre DEF Composed, Seen
<1>10. /\ texture'.generation \in Nat
       /\ texture'.generation > 0 => texture'.pixels = Visible(image, sent')
  <2> HIDE DEF target, s
  <2> QED BY <1>1, <1>7, <1>9 DEF ImagesInv, GifInv
<1>11. Position(started, now, Total(image))' = pos
    BY <1>1 DEF Position
<1> HIDE DEF s
<1> QED BY <1>1, <1>2, <1>3, <1>7, <1>8, <1>10, <1>11 DEF ImagesInv, GifInv, StillInv

LEMMA ImagesInvNext == ImagesInv /\ [ImagesNext]_imageVars => ImagesInv'
<1> SUFFICES ASSUME ImagesInv, [ImagesNext]_imageVars PROVE ImagesInv'
    OBVIOUS
<1>1. CASE PollStill
  <2>1. now' \in Nat
      BY <1>1, ImagesAssumption DEF PollStill, ImagesInv
  <2> QED BY <1>1, <2>1 DEF PollStill, unlooked, ImagesInv, StillInv, GifInv
<1>2. CASE ShownFirst
  <2>1. source = "gif" /\ started' = Nothing
        /\ UNCHANGED <<image, source, looped, speed, frame, now, canvas, backup, shown, sent, texture>>
      BY <1>2 DEF ShownFirst, unlooked
  <2> QED BY <2>1 DEF ImagesInv, StillInv, GifInv, Drawing
<1>3. CASE UNCHANGED imageVars
    BY <1>3 DEF imageVars, ImagesInv, StillInv, GifInv, Drawing, Position
<1> QED BY <1>1, <1>2, <1>3, OpenImageKeeps, PollGifKeeps DEF ImagesNext

\* Whenever and however far apart the caller polls, through loops, skipped frames
\* and restarts, a GIF looks as composition from scratch makes the frame of the
\* clock's position look, and a still picture as it was decoded (gif.rs:1).
THEOREM PictureRightCorrect == ImagesSpec => []PictureRight
<1>1. ImagesInv => PictureRight
  <2> SUFFICES ASSUME ImagesInv PROVE PictureRight
      OBVIOUS
  <2>1. ASSUME source = "gif", texture.generation > 0, started # Nothing
        PROVE  LET pos == Position(started, now, Total(image)) IN
               EndOf(image, sent - 1) <= pos /\ pos < EndOf(image, sent)
    <3> DEFINE pos == Position(started, now, Total(image))
    <3>1. pos \in Nat /\ pos < Total(image)
        BY <2>1, TotalIsPositive, PositionInside DEF ImagesInv, GifInv
    <3>2. sent = FrameAt(image, pos)
        BY <2>1 DEF ImagesInv, GifInv
    <3> HIDE DEF pos
    <3>3. EndOf(image, sent - 1) <= pos /\ pos < EndOf(image, sent)
        BY <3>1, <3>2, FrameAtPosition DEF ImagesInv
    <3> QED BY <3>3 DEF pos
  <2>2. ASSUME source = "still", frame = Nothing
        PROVE  /\ texture.generation = 1
               /\ \A p \in DOMAIN image.rgba : Premultiplied(texture.pixels[p], image.rgba[p])
      BY <2>2, FromRgbaIsRight DEF ImagesInv, StillInv
  <2> QED BY <2>1, <2>2 DEF PictureRight, ImagesInv, GifInv, Premultiplied
<1> QED BY <1>1, ImagesInvInit, ImagesInvNext, PTL DEF ImagesSpec

-----------------------------------------------------------------------------
(***************************************************************************)
(* Planes                                                                  *)
(***************************************************************************)

(* Arithmetic: plane_ok and `sample' compare products of two variables.    *)

LEMMA Product == ASSUME NEW a \in Nat, NEW b \in Nat, NEW c \in Nat, a <= b
                 PROVE  a * c <= b * c /\ a * c \in Nat /\ b * c \in Nat
OBVIOUS

LEMMA OneRowMore == ASSUME NEW a \in Nat, NEW s \in Nat
                    PROVE  s * (a + 1) = s * a + s /\ s * a = a * s /\ s * a \in Nat
OBVIOUS

LEMMA Quotient == ASSUME NEW a \in Nat, NEW b \in Nat \ {0}
                  PROVE  /\ a \div b \in Nat
                         /\ b * (a \div b) <= a
                         /\ a < b * (a \div b) + b
OBVIOUS

LEMMA QuotientUnique ==
    ASSUME NEW a \in Nat, NEW b \in Nat \ {0}, NEW q \in Nat, b * q <= a, a < b * q + b
    PROVE  q = a \div b
OBVIOUS

\* (a + b - 1) / b rounds up: b * (n - 1) < a <= b * n
LEMMA RoundsUp ==
    ASSUME NEW a \in Nat \ {0}, NEW b \in Nat \ {0}
    PROVE  /\ DivCeil(a, b) \in Nat \ {0}
           /\ b * DivCeil(a, b) >= a
           /\ b * DivCeil(a, b) < a + b
<1> DEFINE q == (a + b - 1) \div b
<1>1. q \in Nat /\ b * q <= a + b - 1 /\ a + b - 1 < b * q + b
    BY Quotient
<1>2. b * q > a - 1
    BY <1>1
<1>3. q # 0
    BY <1>2
<1> QED BY <1>1, <1>2, <1>3 DEF DivCeil

LEMMA SmallerOfTwo == ASSUME NEW a \in Nat, NEW b \in Nat
                      PROVE  Min({a, b}) = IF a <= b THEN a ELSE b
<1> DEFINE m == IF a <= b THEN a ELSE b
<1>1. m \in {a, b} /\ \A y \in {a, b} : m <= y
    OBVIOUS
<1>2. \A x \in {a, b} : (\A y \in {a, b} : x <= y) => x = m
    OBVIOUS
<1> QED BY <1>1, <1>2 DEF Min

-----------------------------------------------------------------------------
(* to_bgra's bands *)

\* threads of an image: between one and as many as there may be
LEMMA SomeThreads ==
    ASSUME NEW i, NEW cores \in 1..MaxThreads + 1
    PROVE  Threads(i, cores) \in 1..MaxThreads
<1>1. MaxThreads \in Nat \ {0}
    BY PlanesAssumption
<1>2. Min({cores, MaxThreads}) = IF cores <= MaxThreads THEN cores ELSE MaxThreads
    BY <1>1, SmallerOfTwo
<1> QED BY <1>1, <1>2 DEF Threads

\* chunks_mut: the bands are a function of numbers, and each row is in the one
\* that its quotient names.
LEMMA BandsPartition ==
    ASSUME NEW i, i.h \in 1..MaxSide, NEW n \in 1..MaxThreads
    PROVE  LET bands == Bands(i, n) IN
           /\ bands # NoFrame
           /\ \A y \in 0..i.h - 1 : Cardinality({b \in DOMAIN bands : y \in bands[b]}) = 1
           /\ \A b \in DOMAIN bands : \A y \in bands[b] : y < i.h
<1> DEFINE h == i.h
           r == DivCeil(h, n)
           m == DivCeil(h, r)
           bands == Bands(i, n)
           band(b) == b * r..Min({(b + 1) * r, h}) - 1
<1>0. h \in Nat \ {0} /\ n \in Nat \ {0} /\ MaxSide \in Nat
    BY PlanesAssumption
<1>1. r \in Nat \ {0} /\ n * r >= h /\ n * r < h + n
    BY <1>0, RoundsUp
<1>2. m \in Nat \ {0} /\ r * m >= h /\ r * m < h + r
    BY <1>0, <1>1, RoundsUp
<1>3. bands = [b \in 0..m - 1 |-> band(b)]
    BY DEF Bands
<1>4. ASSUME NEW b \in 0..m - 1
      PROVE  /\ b * r \in Nat /\ (b + 1) * r = b * r + r
             /\ \A y \in band(b) : y \in Nat /\ b * r <= y /\ y < b * r + r /\ y < h
             /\ \A y \in Nat : b * r <= y /\ y < b * r + r /\ y < h => y \in band(b)
  <2>1. b \in Nat /\ b * r \in Nat /\ (b + 1) * r = b * r + r
      BY <1>1, <1>2
  <2>2. Min({(b + 1) * r, h}) = IF (b + 1) * r <= h THEN (b + 1) * r ELSE h
      BY <1>0, <1>1, <2>1, SmallerOfTwo
  <2> QED BY <1>0, <1>1, <2>1, <2>2
<1>5. m <= h
    BY <1>0, <1>1, <1>2
<1>6. bands # NoFrame
  <2>1. \A b \in 0..m - 1 : band(b) \subseteq 0..MaxSide - 1
      BY <1>0, <1>4
  <2>2. bands \in [0..m - 1 -> SUBSET (0..MaxSide - 1)]
      BY <1>3, <2>1
  <2>3. m \in 1..MaxSide
      BY <1>0, <1>2, <1>5
  <2> QED BY <2>2, <2>3, PlanesAssumption
<1>7. ASSUME NEW y \in 0..h - 1
      PROVE  Cardinality({b \in DOMAIN bands : y \in bands[b]}) = 1
  <2> DEFINE q == y \div r
  <2>0. y \in Nat
      BY <1>0
  <2>1. q \in Nat /\ r * q <= y /\ y < r * q + r
    <3> HIDE DEF r
    <3> QED BY <1>1, <2>0, Quotient
  <2>2. q <= m - 1
      BY <1>0, <1>1, <1>2, <2>1
  <2>3. q \in 0..m - 1 /\ y \in band(q)
    <3>1. q \in 0..m - 1
        BY <2>1, <2>2, <1>2
    <3>2. q * r <= y /\ y < q * r + r
        BY <2>1, <1>1
    <3> QED BY <3>1, <3>2, <1>0, <1>4
  <2>4. ASSUME NEW b \in 0..m - 1, y \in band(b) PROVE b = q
    <3>1. b \in Nat /\ b * r <= y /\ y < b * r + r
        BY <1>2, <1>4, <2>4
    <3>2. r * b <= y /\ y < r * b + r
        BY <3>1, <1>1
    <3> HIDE DEF r
    <3> QED BY <3>1, <3>2, <1>1, <1>0, QuotientUnique
  <2>5. {b \in DOMAIN bands : y \in bands[b]} = {q}
      BY <1>3, <2>3, <2>4
  <2> QED BY <2>5, FS_Singleton
<1>8. \A b \in DOMAIN bands : \A y \in bands[b] : y < h
    BY <1>3, <1>4
<1> QED BY <1>6, <1>7, <1>8

-----------------------------------------------------------------------------
(* Planes and images *)

Plane == [stride : Nat, len : Nat, room : Nat]

(* What every decoder's image looks like. *)
Shape(i) ==
    /\ i.w \in 1..MaxSide /\ i.h \in 1..MaxSide
    /\ i.depth \in {8, 10, 16} /\ i.chroma \in {"mono", "420", "422", "444"}
    /\ i.y \in Plane
    /\ \/ i.kind = "none" /\ i.chroma = "mono"
       \/ i.kind = "planar" /\ i.chroma # "mono" /\ i.uv[1] \in Plane /\ i.uv[2] \in Plane
       \/ i.kind = "interleaved" /\ i.chroma \in {"mono", "420"} /\ i.uv[1] \in Plane

\* What plane_ok has checked is enough for every row (sample, and the row's
\* slice of the fast path).
LEMMA RowFits ==
    ASSUME NEW plane \in Plane, NEW w \in Nat, NEW h \in Nat \ {0}, NEW bpp \in {1, 2},
           PlaneOk(plane, w, h, bpp), NEW y \in 0..h - 1, NEW samples \in 0..w
    PROVE  RowEnd(plane, y, samples, bpp) <= plane.len
<1>1. plane.stride \in Nat /\ plane.len \in Nat
    BY DEF Plane
<1>2. plane.len >= plane.stride * (h - 1) + w * bpp
    BY DEF PlaneOk
<1>3. y * plane.stride <= (h - 1) * plane.stride
    BY <1>1, Product
<1>4. samples * bpp <= w * bpp
    OBVIOUS
<1>5. (h - 1) * plane.stride = plane.stride * (h - 1) /\ (h - 1) * plane.stride \in Nat
    BY <1>1
<1>6. y * plane.stride \in Nat /\ samples * bpp \in Nat /\ w * bpp \in Nat
    BY <1>1
<1> QED BY <1>1, <1>2, <1>3, <1>4, <1>5, <1>6 DEF RowEnd

\* Chroma::shift against div_ceil: a pixel's sample exists.
LEMMA SampleExists ==
    ASSUME NEW i, Shape(i), NEW x \in 0..i.w - 1, NEW y \in 0..i.h - 1
    PROVE  /\ Shift(i.chroma)[1] \in {1, 2} /\ Shift(i.chroma)[2] \in {1, 2}
           /\ ChromaSize(i)[1] \in Nat \ {0} /\ ChromaSize(i)[2] \in Nat \ {0}
           /\ (x \div Shift(i.chroma)[1]) + 1 \in 1..ChromaSize(i)[1]
           /\ y \div Shift(i.chroma)[2] \in 0..ChromaSize(i)[2] - 1
<1>1. i.w \in Nat \ {0} /\ i.h \in Nat \ {0}
    BY PlanesAssumption DEF Shape
<1>2. CASE i.chroma = "420"
    BY <1>1, <1>2 DEF Shift, ChromaSize, DivCeil
<1>3. CASE i.chroma = "422"
    BY <1>1, <1>3 DEF Shift, ChromaSize, DivCeil
<1>4. CASE i.chroma \notin {"420", "422"}
    BY <1>1, <1>4 DEF Shift, ChromaSize, DivCeil
<1> QED BY <1>2, <1>3, <1>4

\* to_bgra reads no byte behind a plane that its checks let through: the fast
\* path, the planar and the interleaved sampling, of any depth.
LEMMA ReadsFit ==
    ASSUME NEW i, Shape(i), Accepts(i), NEW y \in 0..i.h - 1, NEW r \in Reads(i, y)
    PROVE  r[2] <= r[1].len
<1> DEFINE bpp == BytesPer(i.depth)
           c == ChromaSize(i)
           s == Shift(i.chroma)
<1>1. i.w \in Nat \ {0} /\ i.h \in Nat \ {0} /\ bpp \in {1, 2} /\ i.y \in Plane
    BY PlanesAssumption DEF Shape, BytesPer
<1>2. /\ s[1] \in {1, 2} /\ s[2] \in {1, 2}
      /\ c[1] \in Nat \ {0} /\ c[2] \in Nat \ {0}
      /\ y \div s[2] \in 0..c[2] - 1
      /\ \A x \in 0..i.w - 1 : (x \div s[1]) + 1 \in 1..c[1]
    BY <1>1, SampleExists
<1>3. PlaneOk(i.y, i.w, i.h, bpp)
    BY DEF Accepts
<1>4. CASE FastPath(i)
  <2>1. i.chroma = "420" /\ i.kind = "planar" /\ bpp = 1 /\ s[2] = 2
      BY <1>4 DEF FastPath, BytesPer, Shift
  <2>2. \A n \in {1, 2} : i.uv[n] \in Plane /\ PlaneOk(i.uv[n], c[1], c[2], 1)
      BY <2>1 DEF Shape, Accepts
  <2>3. RowEnd(i.y, y, i.w, 1) <= i.y.len
      BY <1>1, <1>3, <2>1, RowFits
  <2>4. ASSUME NEW n \in {1, 2}
        PROVE  RowEnd(i.uv[n], y \div 2, c[1], 1) <= i.uv[n].len
      BY <1>2, <2>1, <2>2, RowFits
  <2>5. r \in FastReads(i, y)
      BY <1>4 DEF Reads
  <2> QED BY <2>3, <2>4, <2>5 DEF FastReads
<1>5. CASE ~FastPath(i)
  <2>1. r \in SlowReads(i, y)
      BY <1>5 DEF Reads
  <2>2. ASSUME NEW x \in 0..i.w - 1 PROVE RowEnd(i.y, y, x + 1, bpp) <= i.y.len
    <3>1. x + 1 \in 0..i.w
        BY <1>1
    <3> QED BY <1>1, <1>3, <3>1, RowFits
  <2>3. CASE i.chroma = "mono"
      BY <2>1, <2>2, <2>3 DEF SlowReads
  <2>4. CASE i.chroma # "mono" /\ i.kind = "planar"
    <3>1. \A n \in {1, 2} : i.uv[n] \in Plane /\ PlaneOk(i.uv[n], c[1], c[2], bpp)
        BY <2>4 DEF Shape, Accepts
    <3>2. ASSUME NEW n \in {1, 2}, NEW x \in 0..i.w - 1
          PROVE  RowEnd(i.uv[n], y \div s[2], (x \div s[1]) + 1, bpp) <= i.uv[n].len
      <4>1. (x \div s[1]) + 1 \in 0..c[1]
          BY <1>2
      <4> HIDE DEF bpp, c, s
      <4> QED BY <1>1, <1>2, <3>1, <4>1, RowFits
    <3> QED BY <2>1, <2>2, <2>4, <3>2 DEF SlowReads
  <2>5. CASE i.chroma # "mono" /\ i.kind # "planar"
    <3>1. /\ i.kind = "interleaved" /\ i.chroma = "420" /\ s[1] = 2
          /\ i.uv[1] \in Plane /\ PlaneOk(i.uv[1], 2 * c[1], c[2], bpp)
        BY <2>5 DEF Shape, Accepts, Shift
    <3>2. ASSUME NEW x \in 0..i.w - 1
          PROVE  RowEnd(i.uv[1], y \div s[2], 2 * (x \div s[1]) + 2, bpp) <= i.uv[1].len
      <4>1. 2 * (x \div s[1]) + 2 \in 0..2 * c[1] /\ 2 * c[1] \in Nat
          BY <1>2
      <4> HIDE DEF bpp, c, s
      <4> QED BY <1>1, <1>2, <3>1, <4>1, RowFits
    <3> QED BY <2>1, <2>2, <2>5, <3>2 DEF SlowReads
  <2> QED BY <2>3, <2>4, <2>5
<1> QED BY <1>4, <1>5

-----------------------------------------------------------------------------
(* What the decoders hand over *)

InBuffers(i) == \A b \in {i.y} \cup {i.uv[n] : n \in DOMAIN i.uv} : b.len <= b.room

LEMMA PictureFields ==
    ASSUME NEW d \in Engines, NEW p \in Pictures(d)
    PROVE  /\ p.w \in 1..MaxSide /\ p.h \in 1..MaxSide /\ p.w \in Nat \ {0} /\ p.h \in Nat \ {0}
           /\ p.padding \in Nat /\ p.depth \in {8, 10}
           /\ d \in {"openh264", "vaapi"} => p.depth = 8 /\ p.chroma = "420"
           /\ d = "libvpx" => p.chroma \in {"420", "422", "444"}
           /\ d = "rav1d" => p.chroma \in {"mono", "420", "422", "444"}
           /\ d = "nvdec" => p.chroma \in {"mono", "420"}
BY PlanesAssumption DEF Engines, Pictures

\* (h + 1) / 2 rows of chroma, and 2 * ((w + 1) / 2) bytes of two samples each
LEMMA Halves == ASSUME NEW a \in Nat \ {0}
                PROVE  /\ DivCeil(a, 2) \in Nat \ {0} /\ 2 * DivCeil(a, 2) \in {a, a + 1}
                       /\ a % 2 # 1 => 2 * DivCeil(a, 2) = a
BY DEF DivCeil

\* from_raw_parts as openh264, libvpx and rav1d have it: the slice ends with the
\* last row's samples and lies inside stride * rows.
LEMMA SliceFits ==
    ASSUME NEW p, p.padding \in Nat, NEW width \in Nat \ {0}, NEW rows \in Nat \ {0},
           NEW bpp \in {1, 2}
    PROVE  LET s == Slice(p, width, rows, bpp) IN
           s \in Plane /\ s.len <= s.room /\ PlaneOk(s, width, rows, bpp)
<1> DEFINE stride == width * bpp + p.padding
<1>1. width * bpp \in Nat /\ stride \in Nat /\ width * bpp <= stride
    OBVIOUS
<1>2. rows - 1 \in Nat /\ stride * ((rows - 1) + 1) = stride * (rows - 1) + stride
      /\ stride * (rows - 1) \in Nat
    BY <1>1, OneRowMore
<1>3. stride * rows = stride * (rows - 1) + stride
    BY <1>2
<1>4. Slice(p, width, rows, bpp) =
        [stride |-> stride, len |-> stride * (rows - 1) + width * bpp, room |-> stride * rows]
    BY DEF Slice, Buffer
<1> HIDE DEF stride
<1> QED BY <1>1, <1>2, <1>3, <1>4 DEF Plane, PlaneOk

\* convert of decode/h264.rs, vpx.rs and av1.rs
LEMMA PlanarFits ==
    ASSUME NEW d \in {"openh264", "libvpx", "rav1d"}, NEW p \in Pictures(d)
    PROVE  Shape(Convert(d, p)) /\ InBuffers(Convert(d, p)) /\ Accepts(Convert(d, p))
<1> DEFINE i == Convert(d, p)
           bpp == BytesPer(p.depth)
           c == ChromaSize(p)
<1>1. /\ p.w \in 1..MaxSide /\ p.h \in 1..MaxSide /\ p.w \in Nat \ {0} /\ p.h \in Nat \ {0}
      /\ p.padding \in Nat /\ p.depth \in {8, 10}
      /\ p.chroma \in {"mono", "420", "422", "444"}
      /\ bpp \in {1, 2}
    BY PictureFields DEF Engines, BytesPer
<1>2. i = Planar(p, bpp)
    BY PictureFields DEF Engines, Convert, H264Convert, VpxConvert, Av1Convert, BytesPer
<1>3. c[1] \in Nat \ {0} /\ c[2] \in Nat \ {0}
    BY <1>1 DEF ChromaSize, Shift, DivCeil
<1>4. LET s == Slice(p, p.w, p.h, bpp) IN s \in Plane /\ s.len <= s.room /\ PlaneOk(s, p.w, p.h, bpp)
    BY <1>1, SliceFits
<1>5. LET s == Slice(p, c[1], c[2], bpp) IN
      s \in Plane /\ s.len <= s.room /\ PlaneOk(s, c[1], c[2], bpp)
    BY <1>1, <1>3, SliceFits
<1>6. /\ i.w = p.w /\ i.h = p.h /\ i.depth = p.depth /\ i.chroma = p.chroma
      /\ i.y = Slice(p, p.w, p.h, bpp) /\ ChromaSize(i) = c
    BY <1>2 DEF Planar, Image, ChromaSize
<1>7. CASE p.chroma = "mono"
  <2>1. i.kind = "none" /\ i.uv = <<>>
      BY <1>2, <1>7 DEF Planar, Image
  <2>2. DOMAIN i.uv = {}
      BY <2>1
  <2> QED BY <1>1, <1>4, <1>6, <1>7, <2>1, <2>2 DEF Shape, InBuffers, Accepts
<1>8. CASE p.chroma # "mono"
  <2>1. i.kind = "planar" /\ i.uv = <<Slice(p, c[1], c[2], bpp), Slice(p, c[1], c[2], bpp)>>
      BY <1>2, <1>8 DEF Planar, Image
  <2>2. DOMAIN i.uv = {1, 2} /\ \A n \in {1, 2} : i.uv[n] = Slice(p, c[1], c[2], bpp)
      BY <2>1
  <2> HIDE DEF i, bpp, c
  <2>3. Shape(i)
      BY <1>1, <1>4, <1>5, <1>6, <1>8, <2>1, <2>2 DEF Shape
  <2>4. InBuffers(i)
      BY <1>4, <1>5, <1>6, <2>2 DEF InBuffers
  <2>5. Accepts(i)
      BY <1>1, <1>4, <1>5, <1>6, <1>8, <2>1, <2>2 DEF Accepts, bpp
  <2> QED BY <2>3, <2>4, <2>5 DEF i
<1> QED BY <1>7, <1>8

\* State::display: rows without padding; two samples of an odd width's last
\* column are more than a row holds.
LEMMA NvdecFits ==
    ASSUME NEW p \in Pictures("nvdec")
    PROVE  /\ Shape(Convert("nvdec", p)) /\ InBuffers(Convert("nvdec", p))
           /\ p.w % 2 # 1 => Accepts(Convert("nvdec", p))
<1> DEFINE i == Convert("nvdec", p)
           bpp == BytesPer(p.depth)
           row == p.w * bpp
           ch == DivCeil(p.h, 2)
<1>1. /\ p.w \in 1..MaxSide /\ p.h \in 1..MaxSide /\ p.w \in Nat \ {0} /\ p.h \in Nat \ {0}
      /\ p.depth \in {8, 10} /\ p.chroma \in {"mono", "420"} /\ bpp \in {1, 2}
    BY PictureFields DEF Engines, BytesPer
<1>2. row \in Nat /\ row * p.h \in Nat /\ ch \in Nat \ {0} /\ row * ch \in Nat
    BY <1>1, Halves
<1>3. /\ i.w = p.w /\ i.h = p.h /\ i.chroma = p.chroma /\ i.kind = "interleaved"
      /\ i.depth = (IF p.depth > 8 THEN 16 ELSE 8) /\ BytesPer(i.depth) = bpp
      /\ i.y = [stride |-> row, len |-> row * p.h, room |-> row * p.h]
      /\ i.uv = <<[stride |-> row, len |-> row * ch, room |-> row * ch]>>
    BY <1>1 DEF Convert, NvHost, Image, Buffer, BytesPer
<1>4. DOMAIN i.uv = {1} /\ i.uv[1] = [stride |-> row, len |-> row * ch, room |-> row * ch]
    BY <1>3
<1>5. row * p.h = row * (p.h - 1) + row /\ row * ch = row * (ch - 1) + row
  <2>1. \A n \in Nat \ {0} : row * n = row * (n - 1) + row
    <3> SUFFICES ASSUME NEW n \in Nat \ {0} PROVE row * n = row * (n - 1) + row
        OBVIOUS
    <3>1. n - 1 \in Nat /\ (n - 1) + 1 = n
        OBVIOUS
    <3> HIDE DEF row
    <3> QED BY <1>2, <3>1, OneRowMore
  <2> QED BY <1>1, <1>2, <2>1
<1> HIDE DEF i, row, ch, bpp
<1>6. Shape(i)
    BY <1>1, <1>2, <1>3, <1>4 DEF Shape, Plane
<1>7. InBuffers(i)
    BY <1>2, <1>3, <1>4 DEF InBuffers
<1>8. ASSUME p.w % 2 # 1 PROVE Accepts(i)
  <2>1. PlaneOk(i.y, i.w, i.h, bpp)
      BY <1>1, <1>2, <1>3, <1>5 DEF PlaneOk, row
  <2>2. CASE p.chroma = "mono"
      BY <1>1, <1>3, <2>1, <2>2 DEF Accepts
  <2>3. CASE p.chroma = "420"
    <3>1. ChromaSize(i)[2] = ch /\ 2 * ChromaSize(i)[1] = p.w
        BY <1>1, <1>3, <1>8, <2>3, Halves DEF ChromaSize, Shift, ch
    <3>2. PlaneOk(i.uv[1], 2 * ChromaSize(i)[1], ChromaSize(i)[2], bpp)
        BY <1>2, <1>4, <1>5, <3>1 DEF PlaneOk, row
    <3> QED BY <1>1, <1>3, <2>1, <3>2 DEF Accepts
  <2> QED BY <1>1, <2>2, <2>3
<1> QED BY <1>6, <1>7, <1>8 DEF i

\* on_frame: one pitch for both planes, even sizes
LEMMA VaapiFits ==
    ASSUME NEW p \in Pictures("vaapi")
    PROVE  Shape(Convert("vaapi", p)) /\ InBuffers(Convert("vaapi", p)) /\ Accepts(Convert("vaapi", p))
<1> DEFINE i == Convert("vaapi", p)
           cw == DivCeil(p.w, 2)
           ch == DivCeil(p.h, 2)
           pitch == 2 * cw + p.padding
<1>1. /\ p.w \in 1..MaxSide /\ p.h \in 1..MaxSide /\ p.w \in Nat \ {0} /\ p.h \in Nat \ {0}
      /\ p.padding \in Nat /\ p.depth = 8 /\ p.chroma = "420"
    BY PictureFields DEF Engines
<1>2. /\ cw \in Nat \ {0} /\ ch \in Nat \ {0} /\ 2 * cw >= p.w /\ 2 * ch >= p.h
      /\ pitch \in Nat /\ pitch >= 2 * cw
    BY <1>1, Halves
<1>3. (2 * ch) \div 2 = ch
    BY <1>2
<1>4. /\ i.w = p.w /\ i.h = p.h /\ i.chroma = "420" /\ i.kind = "interleaved" /\ i.depth = 8
      /\ i.y = [stride |-> pitch, len |-> pitch * (p.h - 1) + p.w, room |-> pitch * (2 * ch)]
      /\ i.uv = <<[stride |-> pitch, len |-> pitch * (ch - 1) + 2 * cw, room |-> pitch * ch]>>
    BY <1>1, <1>3 DEF Convert, VaConvert, VaFrame, Image, Buffer
<1>5. DOMAIN i.uv = {1} /\ i.uv[1] = [stride |-> pitch, len |-> pitch * (ch - 1) + 2 * cw, room |-> pitch * ch]
    BY <1>4
<1>6. ChromaSize(i)[1] = cw /\ ChromaSize(i)[2] = ch /\ BytesPer(i.depth) = 1
    BY <1>4 DEF ChromaSize, Shift, BytesPer
<1> HIDE DEF i, cw, ch, pitch
<1>7. \A n \in Nat \ {0} : /\ pitch * (n - 1) \in Nat /\ pitch * n \in Nat
                            /\ pitch * n = pitch * (n - 1) + pitch
  <2> SUFFICES ASSUME NEW n \in Nat \ {0}
               PROVE  /\ pitch * (n - 1) \in Nat /\ pitch * n \in Nat
                      /\ pitch * n = pitch * (n - 1) + pitch
      OBVIOUS
  <2>1. n - 1 \in Nat /\ (n - 1) + 1 = n
      OBVIOUS
  <2> QED BY <1>2, <2>1, OneRowMore
<1>8. p.h * pitch <= (2 * ch) * pitch /\ p.h * pitch = pitch * p.h /\ (2 * ch) * pitch = pitch * (2 * ch)
      /\ pitch * (2 * ch) \in Nat
    BY <1>1, <1>2, Product
<1>9. Shape(i)
    BY <1>1, <1>2, <1>4, <1>5, <1>7, <1>8 DEF Shape, Plane
<1>10. InBuffers(i)
    BY <1>1, <1>2, <1>4, <1>5, <1>7, <1>8 DEF InBuffers
<1>11. PlaneOk(i.y, i.w, i.h, 1)
    BY <1>1, <1>2, <1>4, <1>7 DEF PlaneOk
<1>12. PlaneOk(i.uv[1], 2 * cw, ch, 1)
    BY <1>1, <1>2, <1>5, <1>7 DEF PlaneOk
<1>13. Accepts(i)
    BY <1>1, <1>4, <1>6, <1>11, <1>12 DEF Accepts
<1> QED BY <1>9, <1>10, <1>13 DEF i

-----------------------------------------------------------------------------
(* The image is the decoder's, and its rows are those to_bgra made of it. *)
PlanesInv ==
    /\ decoder \in Engines
    /\ pic = NoFrame => img = NoFrame
    /\ img = NoFrame => picture = <<>>
    /\ img # NoFrame => pic \in Pictures(decoder) /\ img = Convert(decoder, pic)
    /\ picture = NoFrame => ~Accepts(img)
    /\ picture \notin {<<>>, NoFrame} =>
         Accepts(img) /\ \E n \in 1..MaxThreads : picture = Bands(img, n)

LEMMA PlanesInvInit == PlanesInit => PlanesInv
BY PlanesAssumption DEF PlanesInit, PlanesInv

LEMMA PlanesInvNext == PlanesInv /\ [PlanesNext]_planesVars => PlanesInv'
<1> SUFFICES ASSUME PlanesInv, [PlanesNext]_planesVars PROVE PlanesInv'
    OBVIOUS
<1>1. CASE Picture
  <2>1. picture = <<>> /\ picture' = <<>> /\ decoder' = decoder /\ pic' \in Pictures(decoder)
        /\ img' = Convert(decoder, pic')
      BY <1>1 DEF Picture, PlanesInv
  <2>2. pic' # NoFrame
      BY <2>1, PlanesAssumption DEF PlanesInv
  <2> QED BY <2>1, <2>2, PlanesAssumption DEF PlanesInv
<1>2. CASE ToBgra
  <2>1. PICK cores \in 1..MaxThreads + 1 :
          picture' = IF Accepts(img) THEN Bands(img, Threads(img, cores)) ELSE NoFrame
      BY <1>2 DEF ToBgra
  <2>2. img # NoFrame /\ UNCHANGED <<decoder, pic, img>>
      BY <1>2 DEF ToBgra
  <2>3. Threads(img, cores) \in 1..MaxThreads
      BY SomeThreads
  <2>4. pic \in Pictures(decoder) /\ img = Convert(decoder, pic) /\ decoder \in Engines
      BY <2>2 DEF PlanesInv
  <2>5. Shape(img)
      BY <2>4, PlanarFits, NvdecFits, VaapiFits DEF Engines
  <2>6. Bands(img, Threads(img, cores)) # NoFrame
      BY <2>3, <2>5, BandsPartition DEF Shape
  <2> QED BY <2>1, <2>2, <2>3, <2>6 DEF PlanesInv
<1>3. CASE UNCHANGED planesVars
    BY <1>3 DEF planesVars, PlanesInv
<1> QED BY <1>1, <1>2, <1>3 DEF PlanesNext

\* For pictures of any size, depth, chroma and padding and any number of threads:
\* every decoder's planes lie inside its buffers, to_bgra reads nothing behind
\* them, each row is one thread's, and only NVDEC's odd widths are refused.
THEOREM ReadsInsideCorrect == PlanesSpec => []ReadsInside
<1>1. PlanesInv => ReadsInside
  <2> SUFFICES ASSUME PlanesInv PROVE ReadsInside
      OBVIOUS
  <2>1. CASE img = NoFrame
      BY <2>1, PlanesAssumption DEF PlanesInv, ReadsInside
  <2>2. CASE img # NoFrame
    <3>1. decoder \in Engines /\ pic \in Pictures(decoder) /\ img = Convert(decoder, pic)
        BY <2>2 DEF PlanesInv
    <3>2. Shape(img) /\ InBuffers(img) /\ (Accepts(img) \/ (pic.w % 2 = 1 /\ decoder = "nvdec"))
        BY <3>1, PlanarFits, NvdecFits, VaapiFits DEF Engines
    <3>3. CASE picture \notin {<<>>, NoFrame}
      <4>1. Accepts(img)
          BY <3>3 DEF PlanesInv
      <4>2. PICK n \in 1..MaxThreads : picture = Bands(img, n)
          BY <3>3 DEF PlanesInv
      <4>3. /\ \A y \in 0..img.h - 1 : Cardinality({b \in DOMAIN picture : y \in picture[b]}) = 1
            /\ \A b \in DOMAIN picture : \A y \in picture[b] : y < img.h
          BY <3>2, <4>2, BandsPartition DEF Shape
      <4>4. \A y \in 0..img.h - 1 : \A r \in Reads(img, y) : r[2] <= r[1].len
          BY <3>2, <4>1, ReadsFit
      <4> QED BY <3>2, <3>3, <4>3, <4>4 DEF InBuffers, ReadsInside
    <3>4. CASE picture = NoFrame
        BY <3>2, <3>4, PlanesAssumption DEF PlanesInv, InBuffers, ReadsInside
    <3>5. CASE picture = <<>>
        BY <3>2, <3>5, PlanesAssumption DEF InBuffers, ReadsInside
    <3> QED BY <3>3, <3>4, <3>5
  <2> QED BY <2>1, <2>2
<1> QED BY <1>1, PlanesInvInit, PlanesInvNext, PTL DEF PlanesSpec
=============================================================================
