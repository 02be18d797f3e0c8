--------------------------- MODULE PlaybackProofs ---------------------------
(***************************************************************************)
(* Theorems about Playback, for files of any length and any times.         *)
(***************************************************************************)
EXTENDS Playback, FiniteSetTheorems, WellFoundedInduction, TLAPS

----------------------------------------------------------------------------
(***************************************************************************)
(* Sets of times in their order.                                           *)
(***************************************************************************)

LEMMA LeastTime ==
    ASSUME NEW S, S \subseteq Nat, S # {}
    PROVE  Min(S) \in S /\ \A x \in S : Min(S) <= x
<1> DEFINE R == OpToRel(<, Nat)
<1>1. \A j, k \in Nat : j < k => <<j, k>> \in R
    BY DEF OpToRel
<1>2. IsWellFoundedOn(R, Nat)
    BY NatLessThanWellFounded
<1> HIDE DEF R
<1>3. PICK n \in S : \A k \in S : ~(<<k, n>> \in R)
    BY <1>2, WFMin
<1>4. \A k \in S : n <= k
  <2>1. \A k \in S : k \in Nat
      OBVIOUS
  <2>2. ASSUME NEW k \in S, k < n PROVE FALSE
      BY <1>1, <1>3, <2>1, <2>2
  <2> QED BY <2>1, <2>2
<1> QED BY <1>3, <1>4 DEF Min

\* The elements of S before x.
Before(S, x) == {y \in S : y < x}

LEMMA Ranks ==
    ASSUME NEW S, S \subseteq Nat, IsFiniteSet(S)
    PROVE  /\ \A x \in S : Cardinality(Before(S, x)) \in 0..Cardinality(S) - 1
           /\ \A x, y \in S : x < y => Cardinality(Before(S, x)) < Cardinality(Before(S, y))
           /\ \A k \in 1..Cardinality(S) : \E x \in S : Cardinality(Before(S, x)) = k - 1
<1> DEFINE n == Cardinality(S)
           rank == [x \in S |-> Cardinality(Before(S, x))]
<1>1. n \in Nat
    BY FS_CardinalityType
<1>2. ASSUME NEW x \in S PROVE IsFiniteSet(Before(S, x)) /\ rank[x] \in 0..n - 1
  <2>1. Before(S, x) \subseteq S \ {x}
      BY DEF Before
  <2>2. IsFiniteSet(S \ {x}) /\ Cardinality(S \ {x}) = n - 1
      BY FS_RemoveElement
  <2>3. IsFiniteSet(Before(S, x)) /\ Cardinality(Before(S, x)) <= n - 1
      BY <2>1, <2>2, FS_Subset
  <2> QED BY <1>1, <2>3, FS_CardinalityType
<1>3. ASSUME NEW x \in S, NEW y \in S, x < y PROVE rank[x] < rank[y]
  <2>1. Before(S, x) \subseteq Before(S, y) /\ x \in Before(S, y) /\ x \notin Before(S, x)
    <3>1. \A z \in S : z \in Nat
        OBVIOUS
    <3>2. x \in Nat /\ y \in Nat /\ ~(x < x) /\ \A z \in S : z < x => z < y
        BY <1>3, <3>1
    <3> QED BY <1>3, <3>2 DEF Before
  <2>2. Cardinality(Before(S, x)) <= Cardinality(Before(S, y))
        /\ Cardinality(Before(S, x)) # Cardinality(Before(S, y))
      BY <1>2, <2>1, FS_Subset
  <2>3. rank[x] \in Nat /\ rank[y] \in Nat
      BY <1>1, <1>2
  <2> QED BY <2>2, <2>3
<1>4. rank \in Injection(S, 0..n - 1)
  <2>1. rank \in [S -> 0..n - 1]
      BY <1>2
  <2>2. \A x, y \in S : x # y => x < y \/ y < x
      OBVIOUS
  <2>3. \A x, y \in S : rank[x] = rank[y] => x = y
      BY <1>1, <1>2, <1>3, <2>2
  <2> HIDE DEF rank
  <2> QED BY <2>1, <2>3 DEF Injection, IsInjective
<1>5. rank \in Surjection(S, 0..n - 1)
  <2>1. IsFiniteSet(0..n - 1) /\ Cardinality(0..n - 1) = n
    <3>1. 0 \in Int /\ n - 1 \in Int
        BY <1>1
    <3> HIDE DEF n, rank
    <3>2. IsFiniteSet(0..n - 1) /\ Cardinality(0..n - 1) = IF 0 > n - 1 THEN 0 ELSE n - 1 - 0 + 1
        BY <3>1, FS_Interval
    <3> QED BY <1>1, <3>2
  <2> HIDE DEF rank
  <2> QED BY <1>4, <2>1, FS_Injection
<1>6. \A k \in 1..n : \E x \in S : rank[x] = k - 1
  <2>1. \A k \in 1..n : k - 1 \in 0..n - 1
      BY <1>1
  <2> HIDE DEF rank
  <2> QED BY <1>5, <2>1 DEF Surjection
<1> QED BY <1>2, <1>3, <1>6

\* InOrder lists a finite set of times from the first to the last.
LEMMA InOrderSorts ==
    ASSUME NEW S, S \subseteq Nat, IsFiniteSet(S)
    PROVE  /\ InOrder(S) \in Seq(S) /\ Len(InOrder(S)) = Cardinality(S)
           /\ \A i, j \in 1..Cardinality(S) : i < j => InOrder(S)[i] < InOrder(S)[j]
           /\ \A x \in S : /\ Cardinality(Before(S, x)) + 1 \in 1..Cardinality(S)
                           /\ InOrder(S)[Cardinality(Before(S, x)) + 1] = x
<1> DEFINE n == Cardinality(S)
           at(k) == InOrder(S)[k]
<1>1. n \in Nat
    BY FS_CardinalityType
<1>2. ASSUME NEW k \in 1..n PROVE at(k) \in S /\ Cardinality(Before(S, at(k))) = k - 1
  <2> DEFINE P(x) == Cardinality(Before(S, x)) = k - 1
  <2>1. at(k) = CHOOSE x \in S : P(x)
      BY DEF InOrder, Before
  <2>2. \E x \in S : P(x)
      BY Ranks
  <2> HIDE DEF at, P
  <2>3. at(k) \in S /\ P(at(k))
      BY <2>1, <2>2
  <2> QED BY <2>3 DEF P
<1>3. InOrder(S) \in Seq(S) /\ Len(InOrder(S)) = n
  <2> DEFINE g(k) == CHOOSE x \in S : Cardinality({y \in S : y < x}) = k - 1
  <2>1. InOrder(S) = [k \in 1..n |-> g(k)]
      BY DEF InOrder
  <2> HIDE DEF g
  <2>2. \A k \in 1..n : g(k) = at(k)
      BY <2>1
  <2> HIDE DEF at
  <2>3. \A k \in 1..n : g(k) \in S
      BY <1>2, <2>2
  <2> QED BY <1>1, <2>1, <2>3
<1>4. ASSUME NEW i \in 1..n, NEW j \in 1..n, i < j PROVE at(i) < at(j)
  <2>1. at(i) \in S /\ at(j) \in S /\ at(i) \in Nat /\ at(j) \in Nat
      BY <1>2
  <2>2. Cardinality(Before(S, at(i))) < Cardinality(Before(S, at(j)))
      BY <1>1, <1>2, <1>4
  <2>3. at(i) < at(j) \/ at(i) = at(j) \/ at(j) < at(i)
      BY <2>1
  <2> HIDE DEF at
  <2>4. ~(at(j) < at(i))
    <3>1. ASSUME at(j) < at(i) PROVE FALSE
      <4>1. Cardinality(Before(S, at(j))) < Cardinality(Before(S, at(i)))
          BY <2>1, <3>1, Ranks
      <4> QED BY <1>1, <1>2, <2>2, <4>1
    <3> QED BY <3>1
  <2>5. at(i) # at(j)
    <3>1. ASSUME at(i) = at(j) PROVE FALSE
        BY <1>2, <1>4, <3>1
    <3> QED BY <3>1
  <2> QED BY <2>3, <2>4, <2>5
<1>5. ASSUME NEW x \in S
      PROVE  /\ Cardinality(Before(S, x)) + 1 \in 1..n
             /\ InOrder(S)[Cardinality(Before(S, x)) + 1] = x
  <2> DEFINE k == Cardinality(Before(S, x)) + 1
  <2>0. Cardinality(Before(S, x)) \in 0..n - 1
      BY Ranks
  <2>1. k \in 1..n /\ k - 1 = Cardinality(Before(S, x)) /\ Cardinality(Before(S, x)) \in Nat
    <3> HIDE DEF n
    <3> QED BY <1>1, <2>0
  <2> HIDE DEF k, at
  <2>2. at(k) \in S /\ Cardinality(Before(S, at(k))) = Cardinality(Before(S, x))
      BY <1>2, <2>1
  <2>3. at(k) = x
    <3>1. at(k) < x \/ x < at(k) \/ at(k) = x
      <4>1. x \in Nat /\ at(k) \in Nat
          BY <2>2
      <4> QED BY <4>1
    <3>2. at(k) < x => Cardinality(Before(S, at(k))) < Cardinality(Before(S, x))
        BY <2>2, Ranks
    <3>3. x < at(k) => Cardinality(Before(S, x)) < Cardinality(Before(S, at(k)))
        BY <2>2, Ranks
    <3> QED BY <2>1, <2>2, <3>1, <3>2, <3>3
  <2> QED BY <2>1, <2>3 DEF k, at
<1> QED BY <1>3, <1>4, <1>5

LEMMA NoneIsNoTime == None \notin Nat
BY PlaybackAssumption

----------------------------------------------------------------------------
(***************************************************************************)
(* Types: a decoder only holds times of the file, and at most Depth.       *)
(***************************************************************************)

Stamps == {s.pts : s \in ToSet(film.samples)}
Decoders == [held : SUBSET Stamps, hidden : Stamps \cup {None}, primed : BOOLEAN,
             refused : 0..MaxRefused, fmt : Nat \cup {None}, pool : Nat,
             parser : BOOLEAN, error : BOOLEAN]
Sound(d) == d \in Decoders /\ IsFiniteSet(d.held) /\ Cardinality(d.held) <= Depth
Packets == [pts : Stamps, size : Nat, kind : {"pic", "hidden", "again", "bad", "skip"},
            keyframe : BOOLEAN, sets : BOOLEAN]
Results == [dec : Decoders, out : Seq(Stamps), ok : BOOLEAN]
SoundResult(r) == r \in Results /\ Sound(r.dec)

LEMMA FilmTypes ==
    ASSUME film \in Films
    PROVE  /\ Stamps \subseteq Nat
           /\ Len(film.samples) \in Nat /\ DOMAIN film.samples = 1..Len(film.samples)
           /\ \A i \in 1..Len(film.samples) : Packet(film.samples[i]) \in Packets
<1> DEFINE T == [pts : Nat, size : Nat, key : {"yes", "no", "unknown"},
                 kind : {"pic", "hidden", "again", "bad", "skip"}]
<1>1. film.samples \in Seq(T)
    BY PlaybackAssumption
<1>2. Len(film.samples) \in Nat /\ DOMAIN film.samples = 1..Len(film.samples)
    BY <1>1
<1>3. \A i \in 1..Len(film.samples) : film.samples[i] \in T
  <2> HIDE DEF T
  <2> QED BY <1>1, <1>2
<1>4. Stamps \subseteq Nat
    BY <1>2, <1>3 DEF Stamps, ToSet
<1>5. ASSUME NEW i \in 1..Len(film.samples) PROVE Packet(film.samples[i]) \in Packets
  <2>1. film.samples[i].pts \in Stamps
      BY <1>2 DEF Stamps, ToSet
  <2> QED BY <1>3, <2>1 DEF Packet, Packets, IsKey
<1> QED BY <1>2, <1>4, <1>5

LEMMA SortedStamps ==
    ASSUME film \in Films, NEW S, S \subseteq Stamps, IsFiniteSet(S)
    PROVE  InOrder(S) \in Seq(Stamps)
<1>1. InOrder(S) \in Seq(S)
    BY FilmTypes, InOrderSorts
<1> QED BY <1>1

LEMMA EngineSound ==
    ASSUME film \in Films, NEW d, Sound(d), NEW p \in Packets
    PROVE  SoundResult(Engine(d, p)) /\ Engine(d, p).dec.refused = d.refused
<1> DEFINE seen == [d EXCEPT !.primed = @ \/ p.sets]
           old == IF d.fmt \notin {None, p.size} THEN d.held ELSE {}
           held == (d.held \ old) \cup {p.pts}
           first == IF Cardinality(held) > Depth THEN {Min(held)} ELSE {}
           r == Engine(d, p)
<1>1. seen \in Decoders /\ Sound(seen) /\ seen.refused = d.refused
    BY DEF Sound, Decoders, Packets
<1>2. p.pts \in Stamps /\ <<p.pts>> \in Seq(Stamps) /\ <<>> \in Seq(Stamps)
    BY DEF Packets
<1>3. IsFiniteSet(old) /\ old \subseteq Stamps /\ IsFiniteSet(d.held \ old)
      /\ Cardinality(d.held \ old) <= Depth /\ d.held \subseteq Stamps
  <2>1. IsFiniteSet(d.held) /\ d.held \subseteq Stamps /\ Cardinality(d.held) \in Nat
        /\ Cardinality(d.held) <= Depth
      BY FS_CardinalityType DEF Sound, Decoders
  <2>2. IsFiniteSet({}) /\ Cardinality({}) = 0
      BY FS_EmptySet
  <2>3. (old = {} /\ d.held \ old = d.held) \/ (old = d.held /\ d.held \ old = {})
      OBVIOUS
  <2> HIDE DEF old
  <2>4. Depth \in Nat
      BY PlaybackAssumption
  <2>5. CASE old = {} /\ d.held \ old = d.held
      BY <2>1, <2>2, <2>5
  <2>6. CASE old = d.held /\ d.held \ old = {}
    <3>1. Cardinality(d.held \ old) <= Depth /\ IsFiniteSet(d.held \ old)
        BY <2>2, <2>4, <2>6
    <3> QED BY <2>1, <2>6, <3>1
  <2> QED BY <2>3, <2>5, <2>6
<1>4. /\ IsFiniteSet(held) /\ held \subseteq Stamps /\ held # {}
      /\ Cardinality(held) \in Nat /\ Cardinality(held) <= Depth + 1
  <2>1. IsFiniteSet(held) /\ held \subseteq Stamps /\ held # {}
      BY <1>2, <1>3, FS_AddElement
  <2>2. Cardinality(held) = Cardinality(d.held \ old)
        \/ Cardinality(held) = Cardinality(d.held \ old) + 1
      BY <1>3, FS_AddElement
  <2>3. Cardinality(held) \in Nat /\ Cardinality(d.held \ old) \in Nat
      BY <1>3, <2>1, FS_CardinalityType
  <2> HIDE DEF held, old
  <2> QED BY <1>3, <2>1, <2>2, <2>3, PlaybackAssumption
<1>5. IsFiniteSet(first) /\ first \subseteq held
  <2>1. Min(held) \in held
      BY <1>4, FilmTypes, LeastTime
  <2> QED BY <2>1, FS_Singleton, FS_EmptySet
<1>6. IsFiniteSet(held \ first) /\ held \ first \subseteq Stamps
      /\ Cardinality(held \ first) <= Depth
  <2>1. CASE Cardinality(held) > Depth
    <3>1. first = {Min(held)} /\ Min(held) \in held
        BY <1>5, <2>1
    <3> HIDE DEF held, first
    <3>2. IsFiniteSet(held \ {Min(held)})
          /\ Cardinality(held \ {Min(held)}) = Cardinality(held) - 1
        BY <1>4, <3>1, FS_RemoveElement
    <3>3. Depth \in Nat
        BY PlaybackAssumption
    <3>4. Cardinality(held \ first) <= Depth
        BY <1>4, <3>1, <3>2, <3>3
    <3> QED BY <1>4, <3>1, <3>2, <3>4
  <2>2. CASE ~(Cardinality(held) > Depth)
    <3>1. held \ first = held
        BY <2>2
    <3> HIDE DEF held, first
    <3>2. Depth \in Nat
        BY PlaybackAssumption
    <3>3. Cardinality(held) <= Depth
        BY <1>4, <2>2, <3>2
    <3> QED BY <1>4, <3>1, <3>3
  <2> QED BY <2>1, <2>2
<1>7. InOrder(old) \o InOrder(first) \in Seq(Stamps)
  <2>1. InOrder(old) \in Seq(Stamps) /\ InOrder(first) \in Seq(Stamps)
      BY <1>3, <1>4, <1>5, SortedStamps
  <2> HIDE DEF old, first
  <2> QED BY <2>1
<1>8. CASE p.kind = "bad" \/ ~seen.primed
  <2>1. r = Result(seen, <<>>, FALSE)
      BY <1>8 DEF Engine
  <2> HIDE DEF seen
  <2> QED BY <1>1, <1>2, <2>1 DEF Result, SoundResult, Results
<1>9. CASE ~(p.kind = "bad" \/ ~seen.primed)
  <2>1. CASE p.kind = "hidden"
    <3> DEFINE e == [seen EXCEPT !.hidden = p.pts]
    <3>1. r = Result(e, <<>>, TRUE)
        BY <1>9, <2>1 DEF Engine
    <3>2. e \in Decoders /\ Sound(e) /\ e.refused = d.refused
      <4> HIDE DEF seen
      <4> QED BY <1>1, <1>2 DEF Sound, Decoders
    <3> HIDE DEF seen, e
    <3> QED BY <1>2, <3>1, <3>2 DEF Result, SoundResult, Results
  <2>2. CASE p.kind = "again"
    <3>1. r = IF d.hidden = None THEN Result(seen, <<>>, FALSE)
              ELSE Result(seen, <<d.hidden>>, TRUE)
        BY <1>9, <2>2 DEF Engine
    <3>2. d.hidden # None => <<d.hidden>> \in Seq(Stamps)
        BY DEF Sound, Decoders
    <3> HIDE DEF seen
    <3> QED BY <1>1, <1>2, <3>1, <3>2 DEF Result, SoundResult, Results
  <2>3. CASE p.kind = "pic" /\ film.codec \notin Reordering
    <3>1. r = Result(seen, <<p.pts>>, TRUE)
        BY <1>9, <2>3 DEF Engine
    <3> HIDE DEF seen
    <3> QED BY <1>1, <1>2, <3>1 DEF Result, SoundResult, Results
  <2>4. CASE /\ p.kind # "hidden" /\ p.kind # "again"
             /\ ~(p.kind = "pic" /\ film.codec \notin Reordering)
    <3> DEFINE e == [seen EXCEPT !.held = held \ first]
    <3>1. r = Result(e, InOrder(old) \o InOrder(first), TRUE)
        BY <1>9, <2>4 DEF Engine
    <3>2. e \in Decoders /\ Sound(e) /\ e.refused = d.refused
      <4> HIDE DEF seen, held, first
      <4> QED BY <1>1, <1>6 DEF Sound, Decoders
    <3> HIDE DEF seen, e, old, first
    <3> QED BY <1>7, <3>1, <3>2 DEF Result, SoundResult, Results
  <2> QED BY <2>1, <2>2, <2>3, <2>4
<1> QED BY <1>8, <1>9

LEMMA RestampedSound ==
    ASSUME NEW out \in Seq(Stamps), NEW t \in Stamps
    PROVE  [i \in DOMAIN out |-> t] \in Seq(Stamps)
<1>1. DOMAIN out = 1..Len(out) /\ Len(out) \in Nat
    OBVIOUS
<1> QED BY <1>1

LEMMA StampedSound ==
    ASSUME NEW r, SoundResult(r), NEW p \in Packets
    PROVE  SoundResult(Stamped(r, p)) /\ Stamped(r, p).dec = r.dec /\ Stamped(r, p).ok = r.ok
<1> DEFINE out == IF film.codec \in Reordering THEN r.out ELSE [i \in DOMAIN r.out |-> p.pts]
<1>1. r.out \in Seq(Stamps) /\ p.pts \in Stamps
    BY DEF SoundResult, Results, Packets
<1>2. out \in Seq(Stamps)
    BY <1>1, RestampedSound
<1>3. Stamped(r, p) = [r EXCEPT !.out = out]
    BY DEF Stamped
<1> HIDE DEF out
<1> QED BY <1>2, <1>3 DEF SoundResult, Results

LEMMA VaTimesSound ==
    ASSUME NEW out \in Seq(Stamps), NEW p, p \in Packets \/ p = None
    PROVE  VaTimes(out, p) \in Seq(Stamps)
<1>1. p # None => p.pts \in Stamps
    BY DEF Packets
<1> QED BY <1>1, RestampedSound DEF VaTimes

\* What a decoder makes of a packet; openh264 gives up before it overflows its count.
LEMMA DecodeSound ==
    ASSUME film \in Films, backend \in Engines(film.codec), Sound(dec),
           dec.refused < MaxRefused, NEW p \in Packets
    PROVE  SoundResult(Decode(p)) /\ (Decode(p).ok => Decode(p).dec.refused < MaxRefused)
<1> DEFINE r == Engine(dec, p)
<1>1. SoundResult(r) /\ r.dec.refused = dec.refused
    BY EngineSound
<1>2. SoundResult(Stamped(r, p)) /\ Stamped(r, p).dec = r.dec
    BY <1>1, StampedSound
<1>3. MaxRefused \in Nat /\ dec.refused \in Nat
    BY PlaybackAssumption DEF Sound, Decoders
<1>4. backend \in {"openh264", "libvpx", "rav1d", "nvdec", "vaapi"}
  <2>1. film.codec \in {"h264", "hevc", "vp8", "vp9", "av1"}
      BY PlaybackAssumption
  <2> QED BY <2>1 DEF Engines
<1>5. CASE backend = "openh264"
  <2> DEFINE refused == IF r.out = <<>> /\ ~r.ok THEN dec.refused + 1 ELSE 0
             e == [r.dec EXCEPT !.refused = refused]
  <2>1. Decode(p) = Result(e, r.out, refused < MaxRefused)
      BY <1>5 DEF Decode, OpenH264Decode
  <2>2. refused \in 0..MaxRefused
      BY <1>3
  <2> HIDE DEF refused, r
  <2>3. e \in Decoders /\ Sound(e) /\ e.refused = refused
      BY <1>1, <2>2 DEF Sound, Decoders, SoundResult, Results
  <2> HIDE DEF e
  <2>4. (refused < MaxRefused) \in BOOLEAN
      OBVIOUS
  <2>5. SoundResult(Decode(p))
      BY <1>1, <2>1, <2>3, <2>4 DEF Result, SoundResult, Results
  <2>6. Decode(p).ok => Decode(p).dec.refused < MaxRefused
    <3> DEFINE good == refused < MaxRefused
    <3>1. Decode(p).dec = e /\ Decode(p).ok = good
        BY <2>1 DEF Result
    <3> QED BY <2>3, <3>1
  <2> QED BY <2>5, <2>6
<1>6. CASE backend = "libvpx"
  <2>1. Decode(p) = [Stamped(r, p) EXCEPT !.ok = TRUE]
      BY <1>6 DEF Decode, VpxDecode
  <2> HIDE DEF r
  <2> QED BY <1>1, <1>2, <2>1 DEF SoundResult, Results
<1>7. CASE backend = "rav1d"
  <2>1. Decode(p) = Stamped(r, p)
      BY <1>7 DEF Decode, Rav1dDecode
  <2> QED BY <1>1, <1>2, <2>1
<1>8. CASE backend = "nvdec"
  <2> DEFINE sq == IF p.kind = "bad" \/ ~r.dec.primed \/ ~dec.parser THEN dec
                   ELSE NvSequence(dec, p)
             d == [sq EXCEPT !.parser = dec.parser]
             q == [r EXCEPT !.dec.fmt = sq.fmt]
             st == Stamped(q, p)
  <2>1. Decode(p) = NvFeed(d, st)
      BY <1>8 DEF Decode, NvDecode
  <2>2. sq \in Decoders /\ Sound(sq) /\ sq.refused = dec.refused
    <3>1. /\ NvSequence(dec, p) \in Decoders /\ Sound(NvSequence(dec, p))
          /\ NvSequence(dec, p).refused = dec.refused
        BY DEF NvSequence, Sound, Decoders, Packets
    <3>2. dec \in Decoders
        BY DEF Sound
    <3> QED BY <3>1, <3>2
  <2> HIDE DEF sq, r
  <2>3. d \in Decoders /\ Sound(d) /\ d.refused = dec.refused
      BY <2>2 DEF Sound, Decoders
  <2>4. SoundResult(q) /\ q.dec.refused = dec.refused
      BY <1>1, <2>2 DEF Sound, Decoders, SoundResult, Results
  <2> HIDE DEF d, q
  <2>5. SoundResult(st) /\ st.dec.refused = dec.refused
      BY <2>4, StampedSound
  <2> HIDE DEF st
  <2>6. d.error \in BOOLEAN /\ d.parser \in BOOLEAN /\ <<>> \in Seq(Stamps)
      BY <2>3 DEF Decoders
  <2>7. CASE d.error
    <3> DEFINE e == [d EXCEPT !.error = FALSE]
    <3>1. Decode(p) = Result(e, <<>>, FALSE)
        BY <2>1, <2>7 DEF NvFeed
    <3>2. e \in Decoders /\ Sound(e)
        BY <2>3 DEF Sound, Decoders
    <3> HIDE DEF e
    <3> QED BY <2>6, <3>1, <3>2 DEF Result, SoundResult, Results
  <2>8. CASE ~d.error
    <3>1. Decode(p) = Result(st.dec, st.out, d.parser)
        BY <2>1, <2>8 DEF NvFeed
    <3> QED BY <2>5, <2>6, <3>1 DEF Result, SoundResult, Results
  <2> QED BY <2>7, <2>8
<1>9. CASE backend = "vaapi"
  <2> DEFINE neg == IF r.ok THEN VaNegotiate(dec, p) ELSE dec
             busy == Cardinality(r.dec.held) + (IF r.dec.hidden = None THEN 0 ELSE 1)
             e == [r.dec EXCEPT !.fmt = IF r.ok THEN p.size ELSE @, !.pool = neg.pool]
             good == r.ok /\ busy < neg.pool
  <2>1. Decode(p) = Result(e, VaTimes(r.out, p), good)
      BY <1>9 DEF Decode, VaDecode
  <2>2. neg.pool \in Nat
    <3>1. Depth + 1 + Headroom \in Nat
        BY PlaybackAssumption
    <3> QED BY <3>1 DEF VaNegotiate, MinFrames, Sound, Decoders
  <2>3. VaTimes(r.out, p) \in Seq(Stamps)
      BY <1>1, VaTimesSound DEF SoundResult, Results
  <2>4. good \in BOOLEAN
      OBVIOUS
  <2> HIDE DEF neg, good, r
  <2>5. e \in Decoders /\ Sound(e) /\ e.refused = dec.refused
      BY <1>1, <2>2 DEF Sound, Decoders, SoundResult, Results, Packets
  <2> HIDE DEF e
  <2> QED BY <2>1, <2>3, <2>4, <2>5 DEF Result, SoundResult, Results
<1> QED BY <1>4, <1>5, <1>6, <1>7, <1>8, <1>9

LEMMA ResetSound ==
    ASSUME Sound(dec)
    PROVE  /\ Sound(Reset) /\ Reset.refused = dec.refused
           /\ Sound(ResetFails) /\ ResetFails.refused = dec.refused
           /\ Sound(Drained) /\ Drained.refused = dec.refused
<1>1. IsFiniteSet({}) /\ Cardinality({}) <= Depth
    BY FS_EmptySet, PlaybackAssumption
<1>2. Sound(Drained) /\ Drained.refused = dec.refused
    BY <1>1 DEF Sound, Decoders, Drained
<1>3. Sound(Reset) /\ Reset.refused = dec.refused
    BY <1>1, <1>2 DEF Sound, Decoders, Reset, NvNewParser
<1>4. Sound(ResetFails) /\ ResetFails.refused = dec.refused
    BY <1>3 DEF Sound, Decoders, ResetFails
<1> QED BY <1>2, <1>3, <1>4

LEMMA FlushSound ==
    ASSUME film \in Films, Sound(dec)
    PROVE  SoundResult(Flush) /\ Flush.dec.refused = dec.refused
<1>1. Held \in Seq(Stamps) /\ <<>> \in Seq(Stamps)
    BY SortedStamps DEF Held, Sound, Decoders
<1>2. Sound(Drained) /\ Drained \in Decoders /\ Drained.refused = dec.refused
    BY ResetSound DEF Sound
<1>3. CASE backend = "nvdec"
  <2> DEFINE r == NvFeed(dec, Result(Drained, Held, TRUE))
  <2>1. Flush = [r EXCEPT !.dec = NvNewParser(@)]
      BY <1>3 DEF Flush
  <2>2. SoundResult(r) /\ r.dec.refused = dec.refused
    <3> DEFINE e == [dec EXCEPT !.error = FALSE]
    <3>1. e \in Decoders /\ Sound(e) /\ e.refused = dec.refused
        BY DEF Sound, Decoders
    <3>2. r = IF dec.error THEN Result(e, <<>>, FALSE) ELSE Result(Drained, Held, dec.parser)
        BY DEF NvFeed, Result
    <3>3. dec.parser \in BOOLEAN
        BY DEF Sound, Decoders
    <3> HIDE DEF e, r
    <3> QED BY <1>1, <1>2, <3>1, <3>2, <3>3 DEF Result, SoundResult, Results
  <2> HIDE DEF r
  <2>3. Sound(NvNewParser(r.dec)) /\ NvNewParser(r.dec).refused = dec.refused
    <3>1. IsFiniteSet({}) /\ Cardinality({}) <= Depth
        BY FS_EmptySet, PlaybackAssumption
    <3> QED BY <2>2, <3>1 DEF Sound, Decoders, NvNewParser, SoundResult
  <2>4. NvNewParser(r.dec) \in Decoders
      BY <2>3 DEF Sound
  <2> QED BY <2>1, <2>2, <2>3, <2>4 DEF SoundResult, Results
<1>4. CASE backend = "vaapi"
  <2>1. Flush = Result(Drained, VaTimes(Held, None), TRUE)
      BY <1>4 DEF Flush
  <2>2. VaTimes(Held, None) \in Seq(Stamps)
      BY <1>1, VaTimesSound
  <2> QED BY <1>2, <2>1, <2>2 DEF Result, SoundResult, Results
<1>5. CASE backend # "nvdec" /\ backend # "vaapi"
  <2>1. Flush = Result(Drained, Held, TRUE)
      BY <1>5 DEF Flush
  <2> QED BY <1>1, <1>2, <2>1 DEF Result, SoundResult, Results
<1> QED BY <1>3, <1>4, <1>5

----------------------------------------------------------------------------
(* TypeOK with what it needs: openh264 has refused less than MaxRefused    *)
(* unless the call has failed, and a call runs only below the bound.       *)
PlayInv ==
    /\ film \in Films /\ looped \in BOOLEAN /\ backend \in Engines(film.codec)
    /\ next \in 0..Len(film.samples)
    /\ Sound(dec) /\ (call # "failed" => dec.refused < MaxRefused)
    /\ ready \in Seq(Stamps)
    /\ flushed \in BOOLEAN /\ offset \in Nat /\ tries \in 0..GuardLimit
    /\ call \in {"idle", "running", "ended", "failed"}
    /\ shown \in 0..MaxShown /\ (call = "running" => shown < MaxShown)
    /\ fault \in BOOLEAN

LEMMA PlayInvTypes == PlayInv => TypeOK
<1> SUFFICES ASSUME PlayInv PROVE TypeOK
    OBVIOUS
<1>1. DOMAIN dec = DOMAIN NewDecoder
    BY DEF PlayInv, Sound, Decoders, NewDecoder
<1>2. \A i \in DOMAIN ready : ready[i] \in Stamps
    BY DEF PlayInv
<1> QED BY <1>1, <1>2 DEF PlayInv, TypeOK, Sound, Decoders, Stamps

LEMMA PlayInvInit == Init => PlayInv
<1> SUFFICES ASSUME Init PROVE PlayInv
    OBVIOUS
<1>1. IsFiniteSet({}) /\ Cardinality({}) <= Depth /\ MaxRefused \in Nat /\ MaxRefused > 0
    BY FS_EmptySet, PlaybackAssumption
<1>2. NewDecoder \in Decoders
    BY <1>1 DEF NewDecoder, Decoders
<1>3. NewDecoder.held = {} /\ NewDecoder.refused = 0
    BY DEF NewDecoder
<1>4. Sound(dec) /\ dec.refused < MaxRefused
  <2> HIDE DEF NewDecoder
  <2> QED BY <1>1, <1>2, <1>3 DEF Init, Sound
<1>5. Len(film.samples) \in Nat
    BY FilmTypes DEF Init
<1>6. MaxShown \in Nat /\ GuardLimit \in Nat
    BY PlaybackAssumption
<1>7. <<>> \in Seq(Stamps)
    OBVIOUS
<1>8. next \in 0..Len(film.samples) /\ tries \in 0..GuardLimit /\ shown \in 0..MaxShown
      /\ offset \in Nat
    BY <1>5, <1>6 DEF Init
<1>9. ready \in Seq(Stamps)
    BY <1>7 DEF Init
<1> QED BY <1>4, <1>8, <1>9 DEF Init, PlayInv

\* What a successful or failed decoder call leaves.
LEMMA TakeSound ==
    ASSUME PlayInv, call = "running", NEW r, SoundResult(r), r.ok => r.dec.refused < MaxRefused,
           Take(r), UNCHANGED <<film, looped, backend, offset, shown, fault>>,
           next' \in 0..Len(film.samples), flushed' \in BOOLEAN, tries' \in 0..GuardLimit
    PROVE  PlayInv'
<1>1. Stamps' = Stamps /\ Decoders' = Decoders
    BY DEF Stamps, Decoders
<1>2. Sound(dec)' /\ (call' # "failed" => dec'.refused < MaxRefused)
    BY <1>1 DEF SoundResult, Sound, Take
<1>3. ready' \in Seq(Stamps)
  <2>1. r.out \in Seq(Stamps) /\ ready \in Seq(Stamps)
      BY DEF SoundResult, Results, PlayInv
  <2>2. ready \o r.out \in Seq(Stamps)
      BY <2>1
  <2> QED BY <2>1, <2>2 DEF Take
<1>4. call' \in {"running", "failed"}
    BY DEF Take
<1> QED BY <1>1, <1>2, <1>3, <1>4 DEF PlayInv, Engines

LEMMA PlayInvNext == PlayInv /\ [Next]_vars => PlayInv'
<1> SUFFICES ASSUME PlayInv, [Next]_vars PROVE PlayInv'
    OBVIOUS
<1>1. GuardLimit \in Nat /\ MaxShown \in Nat
    BY PlaybackAssumption
<1>2. ASSUME film' = film PROVE Stamps' = Stamps /\ Decoders' = Decoders
    BY <1>2 DEF Stamps, Decoders
<1>3. CASE Call
  <2>1. Stamps' = Stamps /\ Sound(dec)'
      BY <1>2, <1>3 DEF Call, given, PlayInv, Sound
  <2>2. tries' \in 0..GuardLimit /\ shown' \in 0..MaxShown /\ shown' < MaxShown
      BY <1>1, <1>3 DEF Call, PlayInv
  <2> QED BY <1>3, <2>1, <2>2 DEF Call, given, PlayInv, Engines
<1>4. CASE Deliver
  <2>1. Stamps' = Stamps /\ Sound(dec)'
      BY <1>2, <1>4 DEF Deliver, given, PlayInv, Sound
  <2>2. ready' \in Seq(Stamps)
      BY <1>4 DEF Deliver, PlayInv
  <2>3. shown' \in 0..MaxShown
      BY <1>1, <1>4 DEF Deliver, Turn, PlayInv
  <2> QED BY <1>4, <2>1, <2>2, <2>3 DEF Deliver, Turn, given, PlayInv, Engines
<1>5. CASE Finish
  <2>1. Stamps' = Stamps /\ Sound(dec)'
      BY <1>2, <1>5 DEF Finish, given, PlayInv, Sound
  <2> QED BY <1>5, <2>1 DEF Finish, Turn, given, PlayInv, Engines
<1>6. CASE Rewind
  <2>1. Stamps' = Stamps /\ Decoders' = Decoders
      BY <1>2, <1>6 DEF Rewind, given
  <2>2. dec' = Reset \/ dec' = ResetFails
      BY <1>6 DEF Rewind
  <2>3. Sound(dec)' /\ dec'.refused = dec.refused
      BY <2>1, <2>2, ResetSound DEF PlayInv, Sound
  <2>4. offset' \in Nat
    <3>1. film.duration \in Nat \cup {None}
        BY PlaybackAssumption DEF PlayInv
    <3> QED BY <1>6, <3>1 DEF Rewind, PassLength, PlayInv
  <2>5. tries' \in 0..GuardLimit
      BY <1>1, <1>6 DEF Rewind, Turn, PlayInv
  <2>6. next' \in 0..Len(film.samples)
      BY <1>6, FilmTypes DEF Rewind, PlayInv
  <2>7. fault' \in BOOLEAN
      BY <1>6 DEF Rewind, PlayInv
  <2> QED BY <1>6, <2>1, <2>3, <2>4, <2>5, <2>6, <2>7 DEF Rewind, Turn, given, PlayInv, Engines
<1>7. CASE Feed
  <2> DEFINE left == {i \in next + 1..Len(film.samples) : film.samples[i].kind # "skip"}
  <2>1. NextSample \in 1..Len(film.samples)
    <3>1. left # {} /\ NextSample = Min(left)
        BY <1>7 DEF Feed, NextSample
    <3>2. left \subseteq 1..Len(film.samples)
        BY FilmTypes DEF PlayInv
    <3> HIDE DEF left
    <3>3. left \subseteq Nat
        BY <3>2
    <3> QED BY <3>1, <3>2, <3>3, LeastTime
  <2>2. packet' \in Packets
      BY <1>7, <2>1, FilmTypes DEF Feed, PlayInv
  <2> DEFINE r == Decode(packet')
  <2>3. SoundResult(r) /\ (r.ok => r.dec.refused < MaxRefused)
      BY <1>7, <2>2, DecodeSound DEF Feed, Turn, PlayInv
  <2>4. Take(r)
      BY <1>7 DEF Feed
  <2>5. next' \in 0..Len(film.samples) /\ tries' \in 0..GuardLimit
      BY <1>1, <1>7, <2>1 DEF Feed, Turn, PlayInv
  <2>6. /\ UNCHANGED <<film, looped, backend, offset, shown, fault>>
        /\ call = "running" /\ flushed' \in BOOLEAN
      BY <1>7 DEF Feed, Turn, given, PlayInv
  <2> HIDE DEF r
  <2> QED BY <2>3, <2>4, <2>5, <2>6, TakeSound
<1>8. CASE EndOfFile
  <2>1. SoundResult(Flush) /\ (Flush.ok => Flush.dec.refused < MaxRefused)
      BY <1>8, FlushSound DEF EndOfFile, Turn, PlayInv
  <2>2. Take(Flush)
      BY <1>8 DEF EndOfFile
  <2>3. next' \in 0..Len(film.samples) /\ tries' \in 0..GuardLimit
      BY <1>1, <1>8, FilmTypes DEF EndOfFile, Turn, PlayInv
  <2>4. /\ UNCHANGED <<film, looped, backend, offset, shown, fault>>
        /\ call = "running" /\ flushed' \in BOOLEAN
      BY <1>8 DEF EndOfFile, Turn, given, PlayInv
  <2> QED BY <2>1, <2>2, <2>3, <2>4, TakeSound
<1>9. CASE Breaks
  <2>1. Stamps' = Stamps /\ Sound(dec)'
      BY <1>2, <1>9 DEF Breaks, given, PlayInv, Sound
  <2> QED BY <1>9, <2>1 DEF Breaks, given, PlayInv, Engines
<1>10. CASE GiveUp
  <2>1. Stamps' = Stamps /\ Sound(dec)'
      BY <1>2, <1>10 DEF GiveUp, given, PlayInv, Sound
  <2> QED BY <1>10, <2>1 DEF GiveUp, given, PlayInv, Engines
<1>11. CASE UNCHANGED vars
  <2>1. Stamps' = Stamps /\ Sound(dec)'
      BY <1>2, <1>11 DEF vars, PlayInv, Sound
  <2> QED BY <1>11, <2>1 DEF vars, PlayInv, Engines
<1> QED BY <1>3, <1>4, <1>5, <1>6, <1>7, <1>8, <1>9, <1>10, <1>11 DEF Next, Step

(* Whatever packets a file holds and however the decoder takes them: an     *)
(* engine holds back at most Depth pictures, a frame that waits to be       *)
(* returned has the time of a sample of the file, openh264 is given up      *)
(* after MaxRefused refusals, and one call makes at most GuardLimit turns.  *)
THEOREM TypeCorrect == Spec => []TypeOK
<1>1. PlayInv => TypeOK
    BY PlayInvTypes
<1>2. Init => PlayInv
    BY PlayInvInit
<1>3. PlayInv /\ [Next]_vars => PlayInv'
    BY PlayInvNext
<1> QED BY <1>1, <1>2, <1>3, PTL DEF Spec

----------------------------------------------------------------------------
(***************************************************************************)
(* The refinement: where next_frame is in the film.                        *)
(***************************************************************************)

Size == Len(film.samples)

\* The times of the pictures among the first k samples, and of all.
Fed(k) == {film.samples[i].pts : i \in {j \in 1..k : Shows(j)}}
All == Fed(Size)

\* A comes first in T.
Begins(A, T) == A \subseteq T /\ \A x \in A, y \in T \ A : x < y

\* After the elements of A, those of T go on with S.
GoesOn(A, S, T) ==
    \A k \in 1..Cardinality(S) : InOrder(S)[k] = InOrder(T)[Cardinality(A) + k]

\* Those the decoder has let go of in this pass.
Outs == Fed(next) \ dec.held

(* In pass q + 1, d frames have been returned; those in ready are next.    *)
Place(q, d) ==
    /\ offset = q * PassLength /\ shown = q * Len(Times) + d
    /\ q > 0 => looped
    /\ d + Len(ready) = Cardinality(Outs)
    /\ \A i \in 1..Len(ready) : ready[i] = Times[d + i]

(* The turns of this call: one for each sample that shows nothing, one for *)
(* each picture held back; a rewind was in this call only if no frame of   *)
(* the new pass was returned.                                              *)
Quiet(k) == Cardinality({i \in 1..k : film.samples[i].kind \in {"bad", "hidden"}})
Pace(q, d) ==
    call = "running" /\ ~(looped /\ Times = <<>>) =>
        tries <= Quiet(next) + (IF ready # <<>> THEN Depth + 1
                                ELSE Cardinality(dec.held) + (IF flushed THEN 1 ELSE 0))
                 + (IF q > 0 /\ d = 0 THEN Quiet(Size) + Depth + 2 ELSE 0)

(* What is out comes before what is held or not fed yet.                   *)
CourseInv ==
    /\ dec.held \subseteq Fed(next)
    /\ Begins(Outs, All)
    /\ flushed => next = Size /\ dec.held = {}
    /\ \E q, d \in Nat : Place(q, d) /\ Pace(q, d)

(* What an engine d knows after k samples of this pass, where fmt is the   *)
(* format of what it holds; after a flush it may have to learn it again.   *)
Learnt(d, k, fmt) ==
    /\ film.codec \notin Reordering =>
         /\ d.held = {}
         /\ (\E i \in 1..k : film.samples[i].kind = "hidden") => d.hidden # None
    /\ film.codec \in Reordering =>
         /\ d.hidden = None
         /\ \A i \in 1..k :
              film.samples[i].kind # "skip" /\ IsKey(film.samples[i]) => d.primed
         /\ backend # "openh264" => \A i \in 1..k :
              Shows(i) /\ film.samples[i].pts \in d.held => film.samples[i].size = fmt

\* And the decoder around it.
Knows(d, k) ==
    /\ Learnt(d, k, d.fmt)
    /\ film.codec \in Reordering /\ backend = "openh264" => d.fmt = None
    /\ backend = "vaapi" /\ d.fmt # None => d.pool = MinFrames + Headroom
    /\ backend = "nvdec" =>
         /\ d.parser \/ d.error
         /\ d.error => fault
         /\ film.chroma # "420" => d.fmt = None
EngineInv == Knows(dec, IF flushed THEN 0 ELSE next)

(* The packets openh264 has refused are a run of damaged ones. *)
RefusedRun(i) ==
    \/ i <= next + 1 /\ OnlyBad(i..next) /\ dec.refused <= Bads(i..next)
    \/ /\ looped /\ OnlyBad(i..Size) /\ OnlyBad(1..next)
       /\ dec.refused <= Bads(i..Size) + Bads(1..next)
RefusalInv ==
    backend = "openh264" => (looped /\ Times = <<>>) \/ \E i \in 1..Size + 1 : RefusedRun(i)

ImplInv == PlayInv /\ (call # "failed" => CourseInv /\ EngineInv /\ RefusalInv)

----------------------------------------------------------------------------
(* What is listed from A on is what is next in the order of all. *)
LEMMA Segment ==
    ASSUME NEW T, T \subseteq Nat, IsFiniteSet(T), NEW A, NEW S, S \cap A = {},
           Begins(A, T), Begins(A \cup S, T)
    PROVE  /\ IsFiniteSet(S) /\ Cardinality(A) \in Nat /\ Cardinality(S) \in Nat
           /\ Cardinality(A \cup S) = Cardinality(A) + Cardinality(S)
           /\ Cardinality(A) + Cardinality(S) <= Cardinality(T)
           /\ GoesOn(A, S, T)
<1>0. /\ A \subseteq T /\ S \subseteq T \ A
      /\ \A x \in A, y \in T \ A : x < y
      /\ \A x \in A \cup S, y \in T \ (A \cup S) : x < y
    BY DEF Begins
<1>1. IsFiniteSet(A) /\ IsFiniteSet(S) /\ IsFiniteSet(A \cup S)
      /\ Cardinality(A) \in Nat /\ Cardinality(S) \in Nat /\ S \subseteq Nat
  <2>1. A \in SUBSET T /\ S \in SUBSET T /\ A \cup S \in SUBSET T /\ S \subseteq Nat
      BY <1>0
  <2> QED BY <2>1, FS_Subset, FS_CardinalityType
<1>2. ASSUME NEW B, B \subseteq S PROVE IsFiniteSet(B) /\ Cardinality(B) \in Nat
                              /\ Cardinality(A \cup B) = Cardinality(A) + Cardinality(B)
  <2>1. IsFiniteSet(B) /\ Cardinality(B) \in Nat
      BY <1>1, <1>2, FS_Subset, FS_CardinalityType
  <2>2. A \cap B = {}
      BY <1>0, <1>2
  <2>3. Cardinality(A \cup B) = Cardinality(A) + Cardinality(B) - Cardinality(A \cap B)
      BY <1>1, <2>1, FS_Union
  <2>4. Cardinality(A \cap B) = 0
      BY <2>2, FS_EmptySet
  <2> QED BY <1>1, <2>1, <2>3, <2>4
<1>3. Cardinality(A \cup S) <= Cardinality(T)
  <2>1. A \cup S \in SUBSET T
      BY <1>0
  <2> QED BY <2>1, FS_Subset
<1>4. ASSUME NEW k \in 1..Cardinality(S)
      PROVE  InOrder(S)[k] = InOrder(T)[Cardinality(A) + k]
  <2> DEFINE x == InOrder(S)[k]
             r == Cardinality(Before(S, x))
  <2>1. x \in S /\ k \in Nat
    <3>1. InOrder(S) \in Seq(S) /\ Len(InOrder(S)) = Cardinality(S)
        BY <1>1, InOrderSorts
    <3> QED BY <1>1, <3>1
  <2>0. InOrder(S)[k] = x
      OBVIOUS
  <2> HIDE DEF x
  <2>2. r + 1 \in 1..Cardinality(S) /\ InOrder(S)[r + 1] = x
      BY <1>1, <2>1, InOrderSorts
  <2>3. r + 1 = k
    <3>1. \A i, j \in 1..Cardinality(S) : i < j => InOrder(S)[i] < InOrder(S)[j]
        BY <1>1, InOrderSorts
    <3>2. InOrder(S)[k] = x /\ x \in Nat /\ ~(x < x)
        BY <1>1, <2>0, <2>1
    <3>3. ~(r + 1 < k) /\ ~(k < r + 1)
        BY <2>2, <3>1, <3>2
    <3>4. r + 1 \in Nat
        BY <1>1, <2>2
    <3> QED BY <2>1, <3>3, <3>4
  <2>4. Before(T, x) = A \cup Before(S, x)
    <3>1. \A y \in T : y \in Nat
        OBVIOUS
    <3>2. ASSUME NEW y \in T, y < x PROVE y \in A \cup Before(S, x)
      <4>1. y \notin T \ (A \cup S)
        <5>0. x \in A \cup S
            BY <2>1
        <5>1. y \in T \ (A \cup S) => x < y
            BY <5>0 DEF Begins
        <5>2. x \in Nat /\ y \in Nat
            BY <1>1, <2>1, <3>1
        <5> QED BY <3>2, <5>1, <5>2
      <4> QED BY <3>2, <4>1 DEF Before
    <3>3. \A y \in A : y \in T /\ y < x
        BY <1>0, <2>1
    <3>4. S \subseteq T
        BY <1>0
    <3> QED BY <3>2, <3>3, <3>4 DEF Before
  <2>5. Before(S, x) \subseteq S
      BY DEF Before
  <2>6. Cardinality(Before(T, x)) + 1 = Cardinality(A) + k
    <3>1. r \in Nat /\ Cardinality(A \cup Before(S, x)) = Cardinality(A) + r
        BY <1>2, <2>5
    <3> QED BY <1>1, <2>1, <2>3, <2>4, <3>1
  <2>7. x \in T
      BY <1>0, <2>1
  <2>8. InOrder(T)[Cardinality(Before(T, x)) + 1] = x
      BY <2>7, InOrderSorts
  <2> QED BY <2>0, <2>6, <2>8
<1>5. Cardinality(A \cup S) = Cardinality(A) + Cardinality(S)
    BY <1>2
<1>6. GoesOn(A, S, T)
    BY <1>4 DEF GoesOn
<1> QED BY <1>1, <1>3, <1>5, <1>6

----------------------------------------------------------------------------
(***************************************************************************)
(* The samples of the file, one after the other.                           *)
(***************************************************************************)

LEMMA FedTypes ==
    ASSUME film \in Films
    PROVE  /\ Size \in Nat /\ DOMAIN film.samples = 1..Size
           /\ \A k \in 0..Size : Fed(k) \subseteq All /\ IsFiniteSet(Fed(k))
           /\ All \subseteq Nat /\ IsFiniteSet(All)
           /\ Times = InOrder(All) /\ Len(Times) = Cardinality(All) /\ Len(Times) \in Nat
           /\ \A i \in 1..Size : film.samples[i].pts \in Nat /\ film.samples[i].size \in Nat
           /\ \A i : Shows(i) => i \in 1..Size /\ i \in Pictures(film)
<1>1. Size \in Nat /\ DOMAIN film.samples = 1..Size
    BY FilmTypes DEF Size
<1>2. ASSUME NEW i \in 1..Size PROVE film.samples[i].pts \in Nat /\ film.samples[i].size \in Nat
  <2> DEFINE T == [pts : Nat, size : Nat, key : {"yes", "no", "unknown"},
                   kind : {"pic", "hidden", "again", "bad", "skip"}]
  <2>1. film.samples \in Seq(T)
      BY PlaybackAssumption
  <2>2. film.samples[i] \in T
    <3> HIDE DEF T
    <3> QED BY <1>1, <2>1
  <2> QED BY <2>2
<1>3. \A i : Shows(i) => i \in 1..Size /\ i \in Pictures(film)
    BY <1>1 DEF Shows, Pictures
<1>4. ASSUME NEW k \in 0..Size PROVE Fed(k) \subseteq All
    BY <1>1 DEF Fed, All
<1>5. All \subseteq Nat
    BY <1>2 DEF All, Fed
<1>6. IsFiniteSet(All)
  <2> DEFINE D == {j \in 1..Size : Shows(j)}
             f == [i \in D |-> film.samples[i].pts]
  <2>1. IsFiniteSet(1..Size)
      BY <1>1, FS_Interval
  <2>2. D \in SUBSET (1..Size)
      OBVIOUS
  <2>3. IsFiniteSet(D)
    <3> HIDE DEF D
    <3> QED BY <2>1, <2>2, FS_Subset
  <2>4. f \in Surjection(D, All)
      BY DEF Surjection, All, Fed
  <2> HIDE DEF D, f
  <2> QED BY <2>3, <2>4, FS_Surjection
<1>7. \A k \in 0..Size : IsFiniteSet(Fed(k))
    BY <1>4, <1>6, FS_Subset
<1>8. Times = InOrder(All)
    BY <1>1 DEF Times, All, Fed
<1>9. Len(Times) = Cardinality(All) /\ Len(Times) \in Nat
    BY <1>5, <1>6, <1>8, InOrderSorts, FS_CardinalityType
<1> QED BY <1>1, <1>2, <1>3, <1>4, <1>5, <1>6, <1>7, <1>8, <1>9

\* From sample k + 1 to sample j, where all between are passed over.
LEMMA FedNext ==
    ASSUME film \in Films, NEW k \in 0..Size, NEW j \in k + 1..Size,
           \A i \in k + 1..j - 1 : film.samples[i].kind = "skip"
    PROVE  Fed(j) = Fed(k) \cup (IF Shows(j) THEN {film.samples[j].pts} ELSE {})
<1>1. Size \in Nat /\ k \in Nat /\ j \in Nat /\ j > k
    BY FedTypes
<1>2. \A i \in k + 1..j - 1 : ~Shows(i)
    BY DEF Shows, Pictures
<1>3. \A i \in 1..j : i \in 1..k \/ i \in k + 1..j - 1 \/ i = j
    BY <1>1
<1>4. \A i \in 1..k : i \in 1..j
    BY <1>1
<1>5. j \in 1..j
    BY <1>1
<1> QED BY <1>2, <1>3, <1>4, <1>5 DEF Fed

LEMMA FedEnd ==
    ASSUME film \in Films, NEW k \in 0..Size,
           \A i \in k + 1..Size : film.samples[i].kind = "skip"
    PROVE  Fed(k) = All
<1>1. Size \in Nat /\ k \in Nat
    BY FedTypes
<1>2. \A i \in k + 1..Size : ~Shows(i)
    BY DEF Shows, Pictures
<1>3. \A i \in 1..Size : i \in 1..k \/ i \in k + 1..Size
    BY <1>1
<1>4. \A i \in 1..k : i \in 1..Size
    BY <1>1
<1> QED BY <1>2, <1>3, <1>4 DEF Fed, All

LEMMA NextSampleIs ==
    ASSUME film \in Films, next \in 0..Size
    PROVE  \/ NextSample = None /\ \A i \in next + 1..Size : film.samples[i].kind = "skip"
           \/ /\ NextSample # None /\ NextSample \in next + 1..Size
              /\ film.samples[NextSample].kind # "skip"
              /\ \A i \in next + 1..NextSample - 1 : film.samples[i].kind = "skip"
<1> DEFINE left == {i \in next + 1..Size : film.samples[i].kind # "skip"}
<1>1. NextSample = IF left = {} THEN None ELSE Min(left)
    BY DEF NextSample, Size
<1>2. Size \in Nat /\ next \in Nat
    BY FedTypes
<1>3. left \subseteq Nat
    BY <1>2
<1>4. CASE left = {}
    BY <1>1, <1>4
<1>5. CASE left # {}
  <2>1. NextSample \in left /\ \A i \in left : NextSample <= i
    <3> HIDE DEF left
    <3> QED BY <1>1, <1>3, <1>5, LeastTime
  <2>2. NextSample # None
      BY <1>3, <2>1, PlaybackAssumption
  <2>3. ASSUME NEW i \in next + 1..NextSample - 1 PROVE film.samples[i].kind = "skip"
    <3>1. i \in next + 1..Size /\ i < NextSample /\ i \in Nat /\ NextSample \in Nat
        BY <1>2, <2>1
    <3>2. i \notin left
        BY <2>1, <3>1
    <3> QED BY <3>1, <3>2
  <2> QED BY <2>1, <2>2, <2>3
<1> QED BY <1>4, <1>5

LEMMA QuietTypes ==
    ASSUME film \in Films, NEW k \in 0..Size
    PROVE  /\ IsFiniteSet({i \in 1..k : film.samples[i].kind \in {"bad", "hidden"}})
           /\ Quiet(k) \in Nat /\ Quiet(k) <= Quiet(Size) /\ Quiet(Size) \in Nat
<1> DEFINE Q(m) == {i \in 1..m : film.samples[i].kind \in {"bad", "hidden"}}
<1>1. Size \in Nat
    BY FedTypes
<1>2. IsFiniteSet(1..Size)
    BY <1>1, FS_Interval
<1>3. Q(Size) \in SUBSET (1..Size) /\ Q(k) \in SUBSET Q(Size)
    BY <1>1
<1>4. IsFiniteSet(Q(Size))
  <2> HIDE DEF Q
  <2> QED BY <1>2, <1>3, FS_Subset
<1>5. IsFiniteSet(Q(k)) /\ Cardinality(Q(k)) <= Cardinality(Q(Size))
  <2> HIDE DEF Q
  <2> QED BY <1>3, <1>4, FS_Subset
<1>6. Quiet(k) = Cardinality(Q(k)) /\ Quiet(Size) = Cardinality(Q(Size))
    BY DEF Quiet
<1>7. Cardinality(Q(k)) \in Nat /\ Cardinality(Q(Size)) \in Nat
  <2> HIDE DEF Q
  <2> QED BY <1>4, <1>5, FS_CardinalityType
<1> QED BY <1>5, <1>6, <1>7

LEMMA QuietNext ==
    ASSUME film \in Films, NEW k \in 0..Size, NEW j \in k + 1..Size,
           \A i \in k + 1..j - 1 : film.samples[i].kind = "skip"
    PROVE  Quiet(j) = IF film.samples[j].kind \in {"bad", "hidden"} THEN Quiet(k) + 1 ELSE Quiet(k)
<1> DEFINE Q(m) == {i \in 1..m : film.samples[i].kind \in {"bad", "hidden"}}
<1>1. Size \in Nat /\ k \in Nat /\ j \in Nat /\ j > k
    BY FedTypes
<1>2. \A i \in 1..j : i \in 1..k \/ i \in k + 1..j - 1 \/ i = j
    BY <1>1
<1>3. \A i \in 1..k : i \in 1..j /\ i # j
    BY <1>1
<1>4. j \in 1..j
    BY <1>1
<1>5. Q(j) = IF film.samples[j].kind \in {"bad", "hidden"} THEN Q(k) \cup {j} ELSE Q(k)
    BY <1>2, <1>3, <1>4
<1>6. j \notin Q(k)
    BY <1>3
<1>7. IsFiniteSet(Q(k))
    BY QuietTypes
<1>8. Quiet(j) = Cardinality(Q(j)) /\ Quiet(k) = Cardinality(Q(k))
    BY DEF Quiet
<1> HIDE DEF Q
<1>9. Cardinality(Q(k) \cup {j}) = Cardinality(Q(k)) + 1
    BY <1>6, <1>7, FS_AddElement
<1> QED BY <1>5, <1>8, <1>9

LEMMA QuietEnd ==
    ASSUME film \in Films, NEW k \in 0..Size,
           \A i \in k + 1..Size : film.samples[i].kind = "skip"
    PROVE  Quiet(Size) = Quiet(k)
<1>1. Size \in Nat /\ k \in Nat
    BY FedTypes
<1>2. \A i \in 1..Size : i \in 1..k \/ i \in k + 1..Size
    BY <1>1
<1>3. \A i \in 1..k : i \in 1..Size
    BY <1>1
<1>4. {i \in 1..Size : film.samples[i].kind \in {"bad", "hidden"}}
      = {i \in 1..k : film.samples[i].kind \in {"bad", "hidden"}}
    BY <1>2, <1>3
<1> QED BY <1>4 DEF Quiet

----------------------------------------------------------------------------
(***************************************************************************)
(* What may come out next, by the order of the file.                       *)
(***************************************************************************)

\* The pictures of a well-made file have times of their own.
LEMMA OwnTimes ==
    ASSUME film \in Films, WellMade(film), NEW i, NEW j, Shows(i), Shows(j),
           film.samples[i].pts = film.samples[j].pts
    PROVE  i = j
<1>1. i \in Nat /\ j \in Nat /\ i \in Pictures(film) /\ j \in Pictures(film)
    BY FedTypes
<1>2. ~(i < j) /\ ~(j < i)
    BY <1>1 DEF WellMade
<1> QED BY <1>1, <1>2

\* Without reordering: all that was fed.
LEMMA AllFedOut ==
    ASSUME film \in Films, WellMade(film), film.codec \notin Reordering, NEW k \in 0..Size
    PROVE  Begins(Fed(k), All)
<1> SUFFICES ASSUME NEW x \in Fed(k), NEW y \in All \ Fed(k) PROVE x < y
    BY FedTypes DEF Begins
<1>1. PICK i \in 1..k : Shows(i) /\ x = film.samples[i].pts
    BY DEF Fed
<1>2. PICK m \in 1..Size : Shows(m) /\ y = film.samples[m].pts
    BY DEF All, Fed
<1>3. m \notin 1..k
    BY <1>2 DEF Fed
<1>4. Size \in Nat /\ k \in Nat
    BY FedTypes
<1>5. i < m
    BY <1>3, <1>4
<1>6. i \in Pictures(film) /\ m \in Pictures(film)
    BY <1>1, <1>2, FedTypes
<1> QED BY <1>1, <1>2, <1>5, <1>6 DEF WellMade

\* A new format: all that was held, before the new picture.
LEMMA OldFormatOut ==
    ASSUME film \in Films, WellMade(film), NEW k \in 0..Size, NEW j \in k + 1..Size, Shows(j),
           \A i \in k + 1..j - 1 : film.samples[i].kind = "skip",
           NEW H, H \subseteq Fed(k),
           \A i \in 1..k : Shows(i) /\ film.samples[i].pts \in H
                           => film.samples[i].size # film.samples[j].size,
           Begins(Fed(k) \ H, All)
    PROVE  Begins(Fed(k), All)
<1> SUFFICES ASSUME NEW x \in Fed(k), NEW y \in All \ Fed(k) PROVE x < y
    BY FedTypes DEF Begins
<1>1. CASE x \notin H
    BY <1>1 DEF Begins
<1>2. CASE x \in H
  <2>1. PICK i \in 1..k : Shows(i) /\ x = film.samples[i].pts
      BY DEF Fed
  <2>2. PICK m \in 1..Size : Shows(m) /\ y = film.samples[m].pts
      BY DEF All, Fed
  <2>3. Size \in Nat /\ k \in Nat /\ j \in Nat /\ k < j
      BY FedTypes
  <2>4. m \notin 1..k /\ m \notin k + 1..j - 1
    <3>1. m \notin 1..k
        BY <2>2 DEF Fed
    <3>2. film.samples[m].kind # "skip"
        BY <2>2 DEF Shows, Pictures
    <3> QED BY <3>1, <3>2
  <2>5. i < j /\ i < m /\ (j < m \/ j = m)
      BY <2>3, <2>4
  <2>6. i \in Pictures(film) /\ m \in Pictures(film) /\ j \in Pictures(film)
      BY <2>1, <2>2, FedTypes
  <2>7. film.samples[i].size # film.samples[j].size
      BY <1>2, <2>1
  <2>8. x < film.samples[j].pts
      BY <2>1, <2>5, <2>6, <2>7 DEF WellMade
  <2>9. CASE film.samples[i].size # film.samples[m].size
      BY <2>1, <2>2, <2>5, <2>6, <2>9 DEF WellMade
  <2>10. CASE film.samples[i].size = film.samples[m].size
    <3>1. film.samples[j].size # film.samples[m].size /\ j < m
        BY <2>5, <2>7, <2>10
    <3>2. film.samples[j].pts < y
        BY <2>2, <2>6, <3>1 DEF WellMade
    <3>3. x \in Nat /\ y \in Nat /\ film.samples[j].pts \in Nat
        BY <2>1, <2>2, FedTypes
    <3> QED BY <2>8, <3>2, <3>3
  <2> QED BY <2>9, <2>10
<1> QED BY <1>1, <1>2

\* More than Depth held: the first of them, since no picture is later than that.
LEMMA LeastOut ==
    ASSUME film \in Films, WellMade(film), film.codec \in Reordering, NEW j \in 0..Size,
           NEW O, O \subseteq Fed(j), Begins(O, All),
           Cardinality(Fed(j) \ O) > Depth, NEW z, z = Min(Fed(j) \ O)
    PROVE  z \in Fed(j) \ O /\ Begins(O \cup {z}, All)
<1> DEFINE K == Fed(j) \ O
<1>1. /\ K \subseteq Nat /\ IsFiniteSet(K) /\ Depth \in Nat /\ K # {} /\ Cardinality(K) \in Nat
      /\ Fed(j) \subseteq All /\ All \subseteq Nat
  <2>1. Fed(j) \subseteq All /\ IsFiniteSet(Fed(j)) /\ All \subseteq Nat
      BY FedTypes
  <2>2. K \in SUBSET Fed(j)
      OBVIOUS
  <2>3. IsFiniteSet(K) /\ K \subseteq Nat
    <3> HIDE DEF K
    <3> QED BY <2>1, <2>2, FS_Subset
  <2>4. Depth \in Nat
      BY PlaybackAssumption
  <2>5. K # {}
    <3>1. Cardinality(K) # 0
        BY <2>4
    <3> HIDE DEF K
    <3> QED BY <3>1, FS_EmptySet
  <2> QED BY <2>1, <2>3, <2>4, <2>5, FS_CardinalityType
<1>2. z \in K /\ \A y \in K : z <= y
  <2> HIDE DEF K
  <2>1. z = Min(K)
      BY DEF K
  <2> QED BY <1>1, <2>1, LeastTime
<1>3. ASSUME NEW y \in All \ (O \cup {z}) PROVE z < y
  <2>1. z \in Nat /\ y \in Nat /\ z # y
      BY <1>1, <1>2
  <2>2. CASE y \in K
      BY <1>2, <2>1, <2>2
  <2>3. CASE y \notin K
    <3>1. y \notin Fed(j)
        BY <2>3
    <3>2. PICK m \in 1..Size : Shows(m) /\ y = film.samples[m].pts
        BY DEF All, Fed
    <3>3. m \notin 1..j
        BY <3>1, <3>2 DEF Fed
    <3> DEFINE late == {i \in Pictures(film) : i < m /\ film.samples[i].pts > film.samples[m].pts}
    <3>4. Cardinality(late) <= Depth
        BY <3>2, FedTypes DEF WellMade
    <3>5. SUFFICES ASSUME y < z PROVE FALSE
        BY <2>1
    <3> DEFINE from == [t \in K |-> CHOOSE i \in 1..j : Shows(i) /\ film.samples[i].pts = t]
    <3>6. ASSUME NEW t \in K
          PROVE  from[t] \in late /\ film.samples[from[t]].pts = t
      <4>1. \E i \in 1..j : Shows(i) /\ film.samples[i].pts = t
          BY DEF Fed
      <4>2. from[t] \in 1..j /\ Shows(from[t]) /\ film.samples[from[t]].pts = t
          BY <4>1
      <4> HIDE DEF from, K
      <4>3. from[t] < m
        <5>1. j \in Nat /\ m \in Nat
            BY FedTypes
        <5> QED BY <3>3, <4>2, <5>1
      <4>4. t > y
        <5>1. t \in Nat /\ z <= t
            BY <1>1, <1>2
        <5> QED BY <2>1, <3>5, <5>1
      <4>5. from[t] \in Pictures(film)
          BY <4>2, FedTypes
      <4> QED BY <3>2, <4>2, <4>3, <4>4, <4>5
    <3>7. from \in Injection(K, late)
      <4>1. from \in [K -> late]
          BY <3>6
      <4>2. \A t, u \in K : from[t] = from[u] => t = u
          BY <3>6
      <4> HIDE DEF from, late, K
      <4> QED BY <4>1, <4>2 DEF Injection, IsInjective
    <3>8. IsFiniteSet(late)
      <4>1. IsFiniteSet(1..Size)
        <5>1. Size \in Nat
            BY FedTypes
        <5> QED BY <5>1, FS_Interval
      <4>2. late \in SUBSET (1..Size)
          BY FedTypes DEF Pictures
      <4> HIDE DEF late
      <4> QED BY <4>1, <4>2, FS_Subset
    <3> HIDE DEF from, late, K
    <3>9. Cardinality(K) <= Cardinality(late)
        BY <3>7, <3>8, FS_Injection
    <3>10. Cardinality(late) \in Nat
        BY <3>8, FS_CardinalityType
    <3>11. Cardinality(K) > Depth
        BY DEF K
    <3> QED BY <1>1, <3>4, <3>9, <3>10, <3>11
  <2> QED BY <2>2, <2>3
<1>4. \A x \in O, y \in All \ (O \cup {z}) : x < y
    BY DEF Begins
<1>5. O \cup {z} \subseteq All
    BY <1>1, <1>2
<1> QED BY <1>2, <1>3, <1>4, <1>5 DEF Begins

----------------------------------------------------------------------------
(***************************************************************************)
(* The engines keep to that order.                                         *)
(***************************************************************************)

(* The decoder, after sample j, is d, and out is what came out: the next   *)
(* of the film.                                                            *)
Course(j, d, out) ==
    /\ d.held \subseteq Fed(j)
    /\ Begins(Fed(j) \ d.held, All)
    /\ Cardinality(Fed(j) \ d.held) = Cardinality(Outs) + Len(out)
    /\ \A i \in 1..Len(out) : out[i] = Times[Cardinality(Outs) + i]
    /\ out = <<>> => Cardinality(d.held) + Quiet(j) >= Cardinality(dec.held) + Quiet(next) + 1

\* The sample next_frame is about to feed.
Coming(j) ==
    /\ film \in Films /\ WellMade(film) /\ backend \in Engines(film.codec)
    /\ Sound(dec) /\ dec.refused < MaxRefused
    /\ next \in 0..Size /\ j \in next + 1..Size
    /\ film.samples[j].kind # "skip"
    /\ \A i \in next + 1..j - 1 : film.samples[i].kind = "skip"
    /\ dec.held \subseteq Fed(next)
    /\ Begins(Outs, All)
    /\ Knows(dec, next)

LEMMA Joined ==
    ASSUME NEW S, NEW U, NEW s \in Seq(S), NEW u \in Seq(U)
    PROVE  /\ Len(s \o u) = Len(s) + Len(u) /\ Len(s) \in Nat /\ Len(u) \in Nat
           /\ \A i \in 1..Len(s) + Len(u) :
                 (s \o u)[i] = IF i <= Len(s) THEN s[i] ELSE u[i - Len(s)]
<1> DEFINE T == S \cup U
<1>1. S \subseteq T /\ U \subseteq T
    OBVIOUS
<1> HIDE DEF T
<1>2. s \in Seq(T) /\ u \in Seq(T)
    BY <1>1
<1> QED BY <1>2

LEMMA TwoSegments ==
    ASSUME film \in Films, NEW A, NEW S, NEW U, S \cap A = {}, U \cap (A \cup S) = {},
           Begins(A, All), Begins(A \cup S, All), Begins(A \cup S \cup U, All)
    PROVE  LET out == InOrder(S) \o InOrder(U)
           IN  /\ Cardinality(A \cup S \cup U) = Cardinality(A) + Len(out)
               /\ \A i \in 1..Len(out) : out[i] = Times[Cardinality(A) + i]
               /\ out = <<>> => S = {} /\ U = {}
<1> DEFINE out == InOrder(S) \o InOrder(U)
           a == Cardinality(A)
           n == Cardinality(S)
           m == Cardinality(U)
<1>1. All \subseteq Nat /\ IsFiniteSet(All) /\ Times = InOrder(All)
    BY FedTypes
<1>2. /\ IsFiniteSet(S) /\ a \in Nat /\ n \in Nat /\ Cardinality(A \cup S) = a + n
      /\ \A k \in 1..n : InOrder(S)[k] = Times[a + k]
  <2>1. /\ IsFiniteSet(S) /\ Cardinality(A) \in Nat /\ Cardinality(S) \in Nat
        /\ Cardinality(A \cup S) = Cardinality(A) + Cardinality(S)
      BY <1>1, Segment, ZenonT(60)
  <2>2. GoesOn(A, S, All)
      BY <1>1, Segment, Zenon
  <2> QED BY <1>1, <2>1, <2>2 DEF GoesOn
<1>3. /\ IsFiniteSet(U) /\ m \in Nat /\ Cardinality(A \cup S \cup U) = a + n + m
      /\ \A k \in 1..m : InOrder(U)[k] = Times[a + n + k]
  <2>1. /\ IsFiniteSet(U) /\ Cardinality(U) \in Nat
        /\ Cardinality(A \cup S \cup U) = Cardinality(A \cup S) + Cardinality(U)
      BY <1>1, Segment, ZenonT(60)
  <2>2. GoesOn(A \cup S, U, All)
      BY <1>1, Segment, Zenon
  <2> QED BY <1>1, <1>2, <2>1, <2>2 DEF GoesOn
<1>4. S \subseteq Nat /\ U \subseteq Nat
    BY <1>1 DEF Begins
<1>5. /\ Len(out) = n + m
      /\ \A i \in 1..n + m : out[i] = IF i <= n THEN InOrder(S)[i] ELSE InOrder(U)[i - n]
  <2>1. InOrder(S) \in Seq(S) /\ Len(InOrder(S)) = n
      BY <1>2, <1>4, InOrderSorts
  <2>2. InOrder(U) \in Seq(U) /\ Len(InOrder(U)) = m
      BY <1>3, <1>4, InOrderSorts
  <2> HIDE DEF n, m
  <2>3. /\ Len(InOrder(S) \o InOrder(U)) = Len(InOrder(S)) + Len(InOrder(U))
        /\ \A i \in 1..Len(InOrder(S)) + Len(InOrder(U)) :
             (InOrder(S) \o InOrder(U))[i] = IF i <= Len(InOrder(S)) THEN InOrder(S)[i]
                                             ELSE InOrder(U)[i - Len(InOrder(S))]
    <3> HIDE DEF out
    <3> QED BY <2>1, <2>2, Joined
  <2> QED BY <2>1, <2>2, <2>3
<1>6. \A i \in 1..Len(out) : out[i] = Times[a + i]
  <2> HIDE DEF out, a, n, m
  <2>1. SUFFICES ASSUME NEW i \in 1..n + m PROVE out[i] = Times[a + i]
      BY <1>5
  <2>2. CASE i <= n
    <3>1. i \in 1..n
        BY <1>2, <1>3, <2>2
    <3> QED BY <1>2, <1>5, <2>2, <3>1
  <2>3. CASE ~(i <= n)
    <3>1. i - n \in 1..m /\ a + n + (i - n) = a + i
        BY <1>2, <1>3, <2>3
    <3>2. out[i] = InOrder(U)[i - n]
        BY <1>5, <2>3
    <3>3. InOrder(U)[i - n] = Times[a + n + (i - n)]
        BY <1>3, <3>1
    <3> QED BY <3>1, <3>2, <3>3
  <2> QED BY <2>2, <2>3
<1>7. out = <<>> => S = {} /\ U = {}
  <2>1. out = <<>> => n = 0 /\ m = 0
    <3> HIDE DEF n, m
    <3>1. out = <<>> => Len(out) = 0
        OBVIOUS
    <3> HIDE DEF out
    <3> QED BY <1>2, <1>3, <1>5, <3>1
  <2> QED BY <1>2, <1>3, <2>1, FS_EmptySet
<1>8. Cardinality(A \cup S \cup U) = a + Len(out)
  <2> HIDE DEF a, n, m, out
  <2> QED BY <1>2, <1>3, <1>5
<1> QED BY <1>6, <1>7, <1>8

LEMMA EngineReorders ==
    ASSUME NEW j, Coming(j), film.codec \in Reordering, film.samples[j].kind = "pic", Shows(j),
           NEW p, p = Packet(film.samples[j])
    PROVE  LET r == Engine(dec, p)
           IN  /\ r.ok /\ Course(j, r.dec, r.out)
               /\ r.dec.primed /\ r.dec.hidden = None /\ r.dec.fmt = dec.fmt
               /\ backend # "openh264" => \A i \in 1..j :
                    Shows(i) /\ film.samples[i].pts \in r.dec.held => film.samples[i].size = p.size
<1> DEFINE s == film.samples
           t == s[j].pts
           old == IF dec.fmt \notin {None, p.size} THEN dec.held ELSE {}
           held == (dec.held \ old) \cup {t}
           first == IF Cardinality(held) > Depth THEN {Min(held)} ELSE {}
           e == [[dec EXCEPT !.primed = TRUE] EXCEPT !.held = held \ first]
           r == Engine(dec, p)
           O == Outs \cup old
<1>1. p.pts = t /\ p.size = s[j].size /\ p.kind = "pic" /\ (p.sets <=> IsKey(s[j]))
    BY DEF Packet
<1>2. /\ j \in 1..Size /\ j \in 0..Size /\ t \in Nat /\ p.size \in Nat /\ next \in Nat /\ Size \in Nat
      /\ j \in Nat /\ next < j
    BY <1>1, FedTypes DEF Coming
<1>3. dec.primed \/ p.sets
  <2>1. PICK i \in 1..j : s[i].kind # "skip" /\ IsKey(s[i])
    <3>1. j \in Pictures(film)
        BY FedTypes DEF Coming
    <3> QED BY <3>1 DEF Coming, WellMade
  <2>2. i \in 1..next \/ i \in next + 1..j - 1 \/ i = j
      BY <1>2
  <2>3. i \notin next + 1..j - 1
      BY <2>1 DEF Coming
  <2>4. i \in 1..next => dec.primed
      BY <2>1 DEF Coming, Knows, Learnt
  <2> QED BY <1>1, <2>1, <2>2, <2>3, <2>4
<1>4. [dec EXCEPT !.primed = @ \/ p.sets] = [dec EXCEPT !.primed = TRUE]
  <2>1. (dec.primed \/ p.sets) = TRUE
      BY <1>3
  <2> QED BY <2>1
<1>5. r = Result(e, InOrder(old) \o InOrder(first), TRUE)
  <2>1. [dec EXCEPT !.primed = TRUE].primed
      BY DEF Coming, Sound, Decoders
  <2>2. [dec EXCEPT !.primed = @ \/ p.sets].primed
      BY <1>4, <2>1
  <2>3. r = Result([[dec EXCEPT !.primed = @ \/ p.sets] EXCEPT !.held = held \ first],
                   InOrder(old) \o InOrder(first), TRUE)
      BY <1>1, <2>2 DEF Engine
  <2> QED BY <1>4, <2>3
<1>6. /\ e.held = held \ first /\ e.primed /\ e.hidden = None /\ e.fmt = dec.fmt
  <2>1. dec.hidden = None
      BY DEF Coming, Knows, Learnt
  <2> HIDE DEF held, first
  <2> QED BY <2>1 DEF Coming, Sound, Decoders
<1>7. Fed(j) = Fed(next) \cup {t} /\ t \notin Fed(next)
  <2>1. Fed(j) = Fed(next) \cup {t}
      BY FedNext DEF Coming
  <2>2. ASSUME NEW i \in 1..next, Shows(i), s[i].pts = t PROVE FALSE
    <3>1. i = j
        BY <2>2, OwnTimes DEF Coming
    <3> QED BY <1>2, <3>1
  <2> QED BY <2>1, <2>2 DEF Fed
<1>8. /\ O \subseteq Fed(next) /\ held = Fed(j) \ O /\ Fed(j) \subseteq All
      /\ old \subseteq All \ Outs /\ Outs \subseteq All
  <2>1. dec.held \subseteq Fed(next) /\ Fed(j) \subseteq All
      BY <1>2, FedTypes DEF Coming
  <2>2. old = {} \/ old = dec.held
      OBVIOUS
  <2> HIDE DEF old
  <2> QED BY <1>7, <2>1, <2>2 DEF Outs
<1>9. Begins(O, All)
  <2>1. CASE old = {}
    <3>1. O = Outs
        BY <2>1
    <3> HIDE DEF O
    <3> QED BY <3>1 DEF Coming
  <2>2. CASE old # {}
    <3>1. dec.fmt # None /\ dec.fmt # s[j].size /\ old = dec.held
        BY <1>1, <2>2
    <3>2. \A i \in 1..next : Shows(i) /\ s[i].pts \in dec.held => s[i].size # s[j].size
        BY <3>1 DEF Coming, Knows, Learnt
    <3>3. O = Fed(next)
        BY <3>1 DEF Coming, Outs
    <3>4. Begins(Fed(next) \ dec.held, All)
        BY DEF Coming, Outs
    <3>5. dec.held \subseteq Fed(next)
        BY DEF Coming
    <3>6. Begins(Fed(next), All)
        BY <3>2, <3>4, <3>5, OldFormatOut DEF Coming
    <3> HIDE DEF O
    <3> QED BY <3>3, <3>6
  <2> QED BY <2>1, <2>2
<1>10. first \subseteq held /\ Begins(O \cup first, All)
  <2>1. CASE Cardinality(held) > Depth
    <3>1. first = {Min(held)}
        BY <2>1
    <3>2. O \subseteq Fed(j) /\ Cardinality(Fed(j) \ O) > Depth /\ Min(held) = Min(Fed(j) \ O)
        BY <1>7, <1>8, <2>1
    <3> HIDE DEF O, held, first
    <3>3. Min(held) \in Fed(j) \ O /\ Begins(O \cup {Min(held)}, All)
        BY <1>2, <1>9, <3>2, LeastOut DEF Coming
    <3> QED BY <1>8, <3>1, <3>3
  <2>2. CASE ~(Cardinality(held) > Depth)
    <3>1. first = {}
        BY <2>2
    <3> HIDE DEF O, held, first
    <3>2. O \cup first = O
        BY <3>1
    <3> QED BY <1>9, <3>1, <3>2
  <2> QED BY <2>1, <2>2
<1> DEFINE out == InOrder(old) \o InOrder(first)
<1>11. /\ Cardinality(Outs \cup old \cup first) = Cardinality(Outs) + Len(out)
       /\ \A i \in 1..Len(out) : out[i] = Times[Cardinality(Outs) + i]
       /\ out = <<>> => old = {} /\ first = {}
  <2>1. Begins(Outs, All) /\ Begins(Outs \cup old, All) /\ Begins(Outs \cup old \cup first, All)
    <3> HIDE DEF old, first
    <3> QED BY <1>9, <1>10 DEF Coming
  <2>2. old \cap Outs = {} /\ first \cap (Outs \cup old) = {}
    <3> HIDE DEF old, first, held
    <3> QED BY <1>8, <1>10
  <2>3. film \in Films
      BY DEF Coming
  <2> HIDE DEF old, first
  <2> QED BY <2>1, <2>2, <2>3, TwoSegments
<1>12. Fed(j) \ (held \ first) = Outs \cup old \cup first
  <2>1. O \subseteq Fed(j)
      BY <1>7, <1>8
  <2> HIDE DEF held, first, old
  <2>2. O = Outs \cup old
      OBVIOUS
  <2> HIDE DEF O
  <2> QED BY <1>8, <1>10, <2>1, <2>2
<1>13. out = <<>> => Cardinality(held \ first) + Quiet(j) >= Cardinality(dec.held) + Quiet(next) + 1
  <2>1. SUFFICES ASSUME out = <<>>
                 PROVE  Cardinality(held \ first) + Quiet(j) >= Cardinality(dec.held) + Quiet(next) + 1
      OBVIOUS
  <2>2. held \ first = dec.held \cup {t}
      BY <1>11, <2>1
  <2>3. t \notin dec.held
      BY <1>7 DEF Coming
  <2>4. Cardinality(dec.held \cup {t}) = Cardinality(dec.held) + 1 /\ Cardinality(dec.held) \in Nat
      BY <2>3, FS_AddElement, FS_CardinalityType DEF Coming, Sound
  <2>5. Quiet(j) = Quiet(next) /\ Quiet(next) \in Nat
    <3>1. Quiet(next) \in Nat
        BY QuietTypes DEF Coming
    <3>2. s[j].kind \notin {"bad", "hidden"}
        OBVIOUS
    <3> QED BY <3>1, <3>2, QuietNext DEF Coming
  <2> HIDE DEF held, first, out
  <2> QED BY <2>2, <2>4, <2>5
<1>14. Course(j, e, out)
  <2>1. held \ first \subseteq Fed(j)
      BY <1>8
  <2>2. Begins(Outs \cup old \cup first, All)
    <3> HIDE DEF old, first
    <3> QED BY <1>10
  <2> HIDE DEF held, first, old, out, e
  <2> QED BY <1>6, <1>11, <1>12, <1>13, <2>1, <2>2 DEF Course
<1>15. ASSUME backend # "openh264", NEW i \in 1..j, Shows(i), s[i].pts \in e.held
       PROVE  s[i].size = p.size
  <2>1. s[i].pts \in held
    <3> HIDE DEF held, first, e
    <3> QED BY <1>6, <1>15
  <2>2. CASE i = j
      BY <1>1, <2>2
  <2>3. CASE i # j
    <3>1. s[i].pts # t
        BY <1>15, <2>3, OwnTimes DEF Coming
    <3>2. s[i].pts \in dec.held /\ old = {}
        BY <2>1, <3>1
    <3>3. i \in 1..next
      <4>1. i \notin next + 1..j - 1
          BY <1>15 DEF Coming, Shows, Pictures
      <4> QED BY <1>2, <2>3, <4>1
    <3>4. s[i].size = dec.fmt
        BY <1>15, <3>2, <3>3 DEF Coming, Knows, Learnt
    <3>5. dec.fmt # None
        BY <1>15, <3>4, FedTypes, NoneIsNoTime DEF Coming
    <3> QED BY <3>2, <3>4, <3>5
  <2> QED BY <2>2, <2>3
<1> HIDE DEF e
<1>16. r.ok /\ r.dec = e /\ r.out = out
  <2> DEFINE o == out
  <2>1. r = Result(e, o, TRUE)
      BY <1>5 DEF e
  <2> HIDE DEF o, r
  <2>2. r.ok /\ r.dec = e /\ r.out = o
      BY <2>1 DEF Result
  <2> QED BY <2>2 DEF o
<1> HIDE DEF out
<1> QED BY <1>6, <1>14, <1>15, <1>16

\* The engine has its parameter sets before the first picture.
LEMMA Primed ==
    ASSUME NEW j, Coming(j), film.samples[j].kind # "bad", NEW p, p = Packet(film.samples[j])
    PROVE  /\ dec.primed \/ p.sets
           /\ [dec EXCEPT !.primed = @ \/ p.sets] = [dec EXCEPT !.primed = TRUE]
           /\ [dec EXCEPT !.primed = @ \/ p.sets].primed
<1> DEFINE s == film.samples
<1>1. p.sets <=> film.codec \notin Reordering \/ IsKey(s[j])
    BY DEF Packet
<1>2. j \in 1..Size /\ next \in Nat /\ Size \in Nat /\ j \in Nat /\ next < j
    BY FedTypes DEF Coming
<1>3. dec.primed \/ p.sets
  <2>1. CASE film.codec \notin Reordering
      BY <1>1, <2>1
  <2>2. CASE film.codec \in Reordering
    <3>1. j \in Pictures(film)
      <4>1. s[j].kind \in {"pic", "bad", "skip"}
          BY <1>2, <2>2, FedTypes DEF Coming, WellMade
      <4> QED BY <1>2, <4>1, FedTypes DEF Coming, Pictures
    <3>2. PICK i \in 1..j : s[i].kind # "skip" /\ IsKey(s[i])
        BY <2>2, <3>1 DEF Coming, WellMade
    <3>3. i \in 1..next \/ i \in next + 1..j - 1 \/ i = j
        BY <1>2
    <3>4. i \notin next + 1..j - 1
        BY <3>2 DEF Coming
    <3>5. i \in 1..next => dec.primed
        BY <2>2, <3>2 DEF Coming, Knows, Learnt
    <3> QED BY <1>1, <3>2, <3>3, <3>4, <3>5
  <2> QED BY <2>1, <2>2
<1>4. (dec.primed \/ p.sets) = TRUE
    BY <1>3
<1>5. [dec EXCEPT !.primed = TRUE].primed
    BY DEF Coming, Sound, Decoders
<1> QED BY <1>3, <1>4, <1>5

\* An engine leaves alone what belongs to the decoder around it.
LEMMA EngineKeeps ==
    ASSUME NEW d \in Decoders, NEW p
    PROVE  LET e == Engine(d, p).dec
           IN  /\ e.fmt = d.fmt /\ e.pool = d.pool /\ e.parser = d.parser /\ e.error = d.error
               /\ e.refused = d.refused
<1> DEFINE seen == [d EXCEPT !.primed = @ \/ p.sets]
           old == IF d.fmt \notin {None, p.size} THEN d.held ELSE {}
           held == (d.held \ old) \cup {p.pts}
           first == IF Cardinality(held) > Depth THEN {Min(held)} ELSE {}
           Keeps(e) == /\ e.fmt = d.fmt /\ e.pool = d.pool /\ e.parser = d.parser
                       /\ e.error = d.error /\ e.refused = d.refused
<1>1. Keeps(seen) /\ Keeps([seen EXCEPT !.hidden = p.pts])
    BY DEF Decoders
<1>2. Keeps([seen EXCEPT !.held = held \ first])
  <2> HIDE DEF held, first
  <2> QED BY DEF Decoders
<1> HIDE DEF Keeps
<1>3. \A a, b, c : Result(a, b, c).dec = a
    BY DEF Result
<1> DEFINE hid == [seen EXCEPT !.hidden = p.pts]
           rest == [seen EXCEPT !.held = held \ first]
           out == InOrder(old) \o InOrder(first)
<1>4. Engine(d, p).dec \in {seen, hid, rest}
  <2>1. CASE p.kind = "bad" \/ ~seen.primed
    <3>1. Engine(d, p) = Result(seen, <<>>, FALSE)
        BY <2>1 DEF Engine
    <3> HIDE DEF seen, hid, rest
    <3>2. Engine(d, p).dec = seen
        BY <1>3, <3>1
    <3> QED BY <3>2
  <2>2. CASE ~(p.kind = "bad" \/ ~seen.primed) /\ p.kind = "hidden"
    <3>1. Engine(d, p) = Result(hid, <<>>, TRUE)
        BY <2>2 DEF Engine
    <3> HIDE DEF seen, hid, rest
    <3>2. Engine(d, p).dec = hid
        BY <1>3, <3>1
    <3> QED BY <3>2
  <2>3. CASE ~(p.kind = "bad" \/ ~seen.primed) /\ p.kind = "again"
    <3>1. \/ Engine(d, p) = Result(seen, <<>>, FALSE)
          \/ Engine(d, p) = Result(seen, <<d.hidden>>, TRUE)
        BY <2>3 DEF Engine
    <3> HIDE DEF seen, hid, rest
    <3>2. Engine(d, p).dec = seen
        BY <1>3, <3>1
    <3> QED BY <3>2
  <2>4. CASE ~(p.kind = "bad" \/ ~seen.primed) /\ p.kind = "pic" /\ film.codec \notin Reordering
    <3>1. Engine(d, p) = Result(seen, <<p.pts>>, TRUE)
        BY <2>4 DEF Engine
    <3> HIDE DEF seen, hid, rest
    <3>2. Engine(d, p).dec = seen
        BY <1>3, <3>1
    <3> QED BY <3>2
  <2>5. CASE /\ ~(p.kind = "bad" \/ ~seen.primed) /\ p.kind # "hidden" /\ p.kind # "again"
             /\ ~(p.kind = "pic" /\ film.codec \notin Reordering)
    <3>1. Engine(d, p) = Result(rest, out, TRUE)
        BY <2>5 DEF Engine
    <3> HIDE DEF seen, hid, rest, out
    <3>2. Engine(d, p).dec = rest
        BY <1>3, <3>1
    <3> QED BY <3>2
  <2> QED BY <2>1, <2>2, <2>3, <2>4, <2>5
<1>5. Keeps(seen) /\ Keeps(hid) /\ Keeps(rest)
    BY <1>1, <1>2
<1> HIDE DEF seen, hid, rest
<1>6. Keeps(Engine(d, p).dec)
    BY <1>4, <1>5
<1> QED BY <1>6 DEF Keeps

\* A sample that shows nothing.
LEMMA QuietCourse ==
    ASSUME NEW j, Coming(j), film.samples[j].kind \in {"bad", "hidden"}, NEW d, d.held = dec.held
    PROVE  Course(j, d, <<>>)
<1>1. Fed(j) = Fed(next)
  <2>1. ~Shows(j)
      BY DEF Shows, Pictures
  <2>2. Fed(j) = Fed(next) \cup (IF Shows(j) THEN {film.samples[j].pts} ELSE {})
      BY FedNext DEF Coming
  <2> QED BY <2>1, <2>2
<1>2. Fed(j) \ d.held = Outs
    BY <1>1 DEF Outs
<1>3. Quiet(j) = Quiet(next) + 1 /\ Quiet(next) \in Nat
  <2>1. Quiet(next) \in Nat
      BY QuietTypes DEF Coming
  <2>2. Quiet(j) = Quiet(next) + 1
      BY QuietNext DEF Coming
  <2> QED BY <2>1, <2>2
<1>4. Cardinality(Outs) \in Nat /\ Cardinality(dec.held) \in Nat
  <2>1. IsFiniteSet(Fed(next))
      BY FedTypes DEF Coming
  <2>2. Outs \in SUBSET Fed(next)
      BY DEF Outs
  <2> QED BY <2>1, <2>2, FS_Subset, FS_CardinalityType DEF Coming, Sound
<1>5. d.held \subseteq Fed(j) /\ Begins(Outs, All)
    BY <1>1 DEF Coming
<1>6. Len(<<>>) = 0 /\ 1..0 = {}
    OBVIOUS
<1>7. Cardinality(Fed(j) \ d.held) = Cardinality(Outs) + Len(<<>>)
    BY <1>2, <1>4, <1>6
<1>8. Cardinality(d.held) + Quiet(j) >= Cardinality(dec.held) + Quiet(next) + 1
    BY <1>3, <1>4
<1> QED BY <1>2, <1>5, <1>6, <1>7, <1>8 DEF Course

\* A picture that comes out at once.
LEMMA PlainCourse ==
    ASSUME NEW j, Coming(j), film.codec \notin Reordering, Shows(j), NEW d, d.held = {}
    PROVE  Course(j, d, <<film.samples[j].pts>>)
<1> DEFINE t == film.samples[j].pts
<1>1. Fed(j) = Fed(next) \cup {t} /\ dec.held = {} /\ Outs = Fed(next) /\ j \in 0..Size /\ t \in Nat
  <2>1. Fed(j) = Fed(next) \cup {t}
      BY FedNext DEF Coming
  <2>2. dec.held = {}
      BY DEF Coming, Knows, Learnt
  <2>3. j \in 0..Size /\ j \in 1..Size
      BY FedTypes DEF Coming
  <2>4. t \in Nat
      BY <2>3, FedTypes DEF Coming
  <2> QED BY <2>1, <2>2, <2>3, <2>4 DEF Outs
<1>2. t \notin Fed(next)
  <2>1. ASSUME NEW i \in 1..next, Shows(i), film.samples[i].pts = t PROVE FALSE
    <3>1. i = j
        BY <2>1, OwnTimes DEF Coming
    <3>2. next \in Nat /\ j \in next + 1..Size /\ Size \in Nat
        BY FedTypes DEF Coming
    <3> QED BY <3>1, <3>2
  <2> QED BY <2>1 DEF Fed
<1>3. Begins(Fed(j), All) /\ Begins(Outs, All)
    BY <1>1, AllFedOut DEF Coming
<1>4. All \subseteq Nat /\ IsFiniteSet(All) /\ Times = InOrder(All)
    BY FedTypes DEF Coming
<1> DEFINE S == {t}
<1>5. S \cap Outs = {} /\ Outs \cup S = Fed(j)
    BY <1>1, <1>2
<1>6. IsFiniteSet(S) /\ Cardinality(S) = 1
    BY FS_Singleton
<1>7. S \subseteq Nat /\ t \in S
    BY <1>1
<1> HIDE DEF S
<1>8. Begins(Outs \cup S, All)
    BY <1>3, <1>5
<1>9. Cardinality(Outs) \in Nat /\ Cardinality(Outs \cup S) = Cardinality(Outs) + 1
  <2>1. next \in 0..Size /\ film \in Films
      BY DEF Coming
  <2>2. IsFiniteSet(Outs)
      BY <1>1, <2>1, FedTypes
  <2>3. t \notin Outs /\ Outs \cup S = Outs \cup {t}
      BY <1>1, <1>2 DEF S
  <2> HIDE DEF t
  <2> QED BY <2>2, <2>3, FS_AddElement, FS_CardinalityType
<1>10. GoesOn(Outs, S, All)
    BY <1>3, <1>4, <1>5, <1>8, Segment, Zenon
<1>11. InOrder(S)[1] = t
  <2>1. InOrder(S) \in Seq(S) /\ Len(InOrder(S)) = 1
      BY <1>6, <1>7, InOrderSorts
  <2>2. InOrder(S)[1] \in S
      BY <2>1
  <2> QED BY <2>2 DEF S
<1>12. t = Times[Cardinality(Outs) + 1]
    BY <1>4, <1>6, <1>10, <1>11 DEF GoesOn
<1>13. Fed(j) \ d.held = Fed(j) /\ d.held \subseteq Fed(j)
    OBVIOUS
<1> HIDE DEF t
<1>14. /\ Len(<<t>>) = 1 /\ <<t>> # <<>>
       /\ \A i \in 1..Len(<<t>>) : <<t>>[i] = Times[Cardinality(Outs) + i]
    BY <1>12
<1>15. Cardinality(Fed(j)) = Cardinality(Outs) + Len(<<t>>)
    BY <1>5, <1>6, <1>9, <1>14
<1>16. Course(j, d, <<t>>)
    BY <1>3, <1>13, <1>14, <1>15 DEF Course
<1> QED BY <1>16 DEF t

\* What was learnt before, and from the sample fed last.
LEMMA LearntNext ==
    ASSUME NEW j, Coming(j), NEW d, NEW f,
           film.samples[j].kind # "hidden",
           film.codec \notin Reordering => d.held = {} /\ d.hidden = dec.hidden,
           film.codec \in Reordering =>
             /\ d.hidden = None
             /\ dec.primed \/ IsKey(film.samples[j]) => d.primed
             /\ backend # "openh264" => \A i \in 1..j :
                  Shows(i) /\ film.samples[i].pts \in d.held => film.samples[i].size = f
    PROVE  Learnt(d, j, f)
<1>1. next \in Nat /\ Size \in Nat /\ j \in Nat /\ next < j
    BY FedTypes DEF Coming
<1>2. \A i \in 1..j : i \in 1..next \/ i \in next + 1..j - 1 \/ i = j
    BY <1>1
<1>3. \A i \in next + 1..j - 1 : film.samples[i].kind = "skip"
    BY DEF Coming
<1>4. Learnt(dec, next, dec.fmt)
    BY DEF Coming, Knows
<1>5. ASSUME film.codec \notin Reordering, NEW i \in 1..j, film.samples[i].kind = "hidden"
      PROVE  d.hidden # None
  <2>1. i \in 1..next
      BY <1>2, <1>3, <1>5
  <2> QED BY <1>4, <1>5, <2>1 DEF Learnt
<1>6. ASSUME film.codec \in Reordering, NEW i \in 1..j, film.samples[i].kind # "skip",
             IsKey(film.samples[i])
      PROVE  d.primed
  <2>1. CASE i = j
      BY <1>6, <2>1
  <2>2. CASE i # j
    <3>1. i \in 1..next
        BY <1>2, <1>3, <1>6, <2>2
    <3> QED BY <1>4, <1>6, <3>1 DEF Learnt
  <2> QED BY <2>1, <2>2
<1> QED BY <1>5, <1>6 DEF Learnt

\* A damaged sample.
LEMMA DamagedCourse ==
    ASSUME NEW j, Coming(j), film.samples[j].kind = "bad", NEW p, p = Packet(film.samples[j])
    PROVE  LET d == [dec EXCEPT !.primed = @ \/ p.sets]
           IN  /\ Engine(dec, p) = Result(d, <<>>, FALSE)
               /\ Course(j, d, <<>>) /\ Learnt(d, j, dec.fmt)
<1> DEFINE d == [dec EXCEPT !.primed = @ \/ p.sets]
<1>1. p.kind = "bad" /\ (IsKey(film.samples[j]) => p.sets)
    BY DEF Packet
<1>2. Engine(dec, p) = Result(d, <<>>, FALSE)
    BY <1>1 DEF Engine
<1>3. d.held = dec.held /\ d.hidden = dec.hidden /\ (d.primed <=> dec.primed \/ p.sets)
    BY DEF Coming, Sound, Decoders
<1> HIDE DEF d
<1>4. Course(j, d, <<>>)
    BY <1>3, QuietCourse
<1>5. Learnt(d, j, dec.fmt)
  <2>1. film.codec \notin Reordering => d.held = {} /\ d.hidden = dec.hidden
      BY <1>3 DEF Coming, Knows, Learnt
  <2>2. ASSUME film.codec \in Reordering, backend # "openh264", NEW i \in 1..j,
               Shows(i), film.samples[i].pts \in d.held
        PROVE  film.samples[i].size = dec.fmt
    <3>1. i \in 1..next
      <4>1. i \in 1..next \/ i \in next + 1..j - 1 \/ i = j
          BY FedTypes DEF Coming
      <4>2. i \notin next + 1..j - 1 /\ i # j
          BY <2>2 DEF Coming, Shows, Pictures
      <4> QED BY <4>1, <4>2
    <3> QED BY <1>3, <2>2, <3>1 DEF Coming, Knows, Learnt
  <2>3. film.codec \in Reordering => d.hidden = None
      BY <1>3 DEF Coming, Knows, Learnt
  <2> QED BY <1>1, <1>3, <2>1, <2>2, <2>3, LearntNext
<1> QED BY <1>2, <1>4, <1>5 DEF d

\* What comes out of a decoder of the engine's pictures: one takes the time of the packet.
Timed(p, out) == IF film.codec \in Reordering THEN out ELSE [i \in DOMAIN out |-> p.pts]

\* A sample that is not damaged.
LEMMA EngineAdvances ==
    ASSUME NEW j, Coming(j), film.samples[j].kind # "bad", NEW p, p = Packet(film.samples[j]),
           backend = "nvdec" => film.chroma = "420"
    PROVE  LET r == Engine(dec, p)
           IN  /\ r.ok /\ Course(j, r.dec, Timed(p, r.out)) /\ Learnt(r.dec, j, p.size)
               /\ backend = "openh264" => Learnt(r.dec, j, dec.fmt)
<1> DEFINE s == film.samples
           seen == [dec EXCEPT !.primed = @ \/ p.sets]
           r == Engine(dec, p)
<1>1. p.kind = s[j].kind /\ p.pts = s[j].pts /\ p.size = s[j].size
    BY DEF Packet
<1>2. /\ film \in Films /\ j \in 1..Size /\ s[j].kind \in {"pic", "hidden", "again"}
      /\ film.codec \in Reordering => s[j].kind = "pic"
  <2>1. film \in Films /\ j \in 1..Size /\ DOMAIN s = 1..Size /\ s[j].kind # "skip"
      BY FedTypes DEF Coming
  <2>2. s[j].kind \in {"pic", "hidden", "again", "bad", "skip"}
    <3>1. Packet(s[j]) \in Packets
        BY <2>1, FilmTypes DEF Size
    <3> QED BY <1>1, <3>1 DEF Packets
  <2>3. film.codec \in Reordering => s[j].kind \in {"pic", "bad", "skip"}
      BY <2>1 DEF Coming, WellMade
  <2> QED BY <2>1, <2>2, <2>3
<1>3. s[j].kind \in {"pic", "again"} => Shows(j)
  <2>1. DOMAIN s = 1..Size
      BY <1>2, FedTypes
  <2> QED BY <1>2, <2>1 DEF Coming, Shows, Pictures, WellMade
<1>4. ~(p.kind = "bad" \/ ~seen.primed)
    BY <1>1, Primed
<1>5. CASE film.codec \in Reordering
  <2>1. s[j].kind = "pic" /\ Shows(j)
      BY <1>2, <1>3, <1>5
  <2>2. /\ r.ok /\ Course(j, r.dec, r.out)
        /\ r.dec.primed /\ r.dec.hidden = None
        /\ backend # "openh264" => \A i \in 1..j :
             Shows(i) /\ film.samples[i].pts \in r.dec.held => film.samples[i].size = p.size
      BY <1>5, <2>1, EngineReorders
  <2>3. Timed(p, r.out) = r.out
      BY <1>5 DEF Timed
  <2> HIDE DEF r
  <2>4. ASSUME NEW f, f = p.size \/ backend = "openh264" PROVE Learnt(r.dec, j, f)
      BY <1>5, <2>1, <2>2, <2>4, LearntNext
  <2>5. Learnt(r.dec, j, p.size) /\ (backend = "openh264" => Learnt(r.dec, j, dec.fmt))
      BY <2>4
  <2> QED BY <2>2, <2>3, <2>5 DEF r
<1>6. CASE film.codec \notin Reordering
  <2>1. dec.held = {} /\ seen.held = {} /\ seen.hidden = dec.hidden
      BY <1>6 DEF Coming, Knows, Learnt, Sound, Decoders
  <2>2. CASE s[j].kind = "hidden"
    <3> DEFINE e == [seen EXCEPT !.hidden = p.pts]
    <3>1. r = Result(e, <<>>, TRUE)
        BY <1>1, <1>4, <2>2 DEF Engine
    <3>2. e.held = {} /\ e.hidden = p.pts
        BY <2>1 DEF Coming, Sound, Decoders
    <3>3. p.pts # None
        BY <1>1, <1>2, FedTypes, NoneIsNoTime
    <3> HIDE DEF e, r
    <3>4. Course(j, e, <<>>)
        BY <2>1, <2>2, <3>2, QuietCourse
    <3>5. Timed(p, <<>>) = <<>>
        BY DEF Timed
    <3>6. \A f : Learnt(e, j, f)
        BY <1>6, <3>2, <3>3 DEF Learnt
    <3>7. r.ok = TRUE /\ r.dec = e /\ r.out = <<>>
        BY <3>1 DEF Result
    <3> QED BY <3>4, <3>5, <3>6, <3>7 DEF r
  <2>3. CASE s[j].kind \in {"pic", "again"}
    <3>1. PICK x : r = Result(seen, <<x>>, TRUE)
      <4>1. CASE s[j].kind = "pic"
          BY <1>1, <1>4, <1>6, <4>1 DEF Engine
      <4>2. CASE s[j].kind = "again"
        <5>1. dec.hidden # None
          <6>1. PICK i \in 1..j - 1 : s[i].kind = "hidden"
              BY <1>2, <4>2, FedTypes DEF Coming, WellMade
          <6>2. i \in 1..next
            <7>1. i \in 1..next \/ i \in next + 1..j - 1
                BY <1>2, FedTypes DEF Coming
            <7> QED BY <6>1, <7>1 DEF Coming
          <6> QED BY <1>6, <6>1, <6>2 DEF Coming, Knows, Learnt
        <5>2. r = Result(seen, <<dec.hidden>>, TRUE)
            BY <1>1, <1>4, <4>2, <5>1 DEF Engine
        <5> HIDE DEF r, seen
        <5> QED BY <5>2
      <4> QED BY <2>3, <4>1, <4>2
    <3> HIDE DEF r, seen
    <3>2. r.ok = TRUE /\ r.dec = seen /\ r.out = <<x>>
        BY <3>1 DEF Result
    <3>3. Timed(p, <<x>>) = <<s[j].pts>>
      <4>1. Timed(p, <<x>>) = [i \in DOMAIN <<x>> |-> p.pts]
          BY <1>6 DEF Timed
      <4> QED BY <1>1, <4>1
    <3>4. Course(j, seen, <<s[j].pts>>)
        BY <1>3, <1>6, <2>1, <2>3, PlainCourse
    <3>5. \A f : Learnt(seen, j, f)
        BY <1>6, <2>1, <2>3, LearntNext
    <3> QED BY <3>2, <3>3, <3>4, <3>5 DEF r
  <2> QED BY <1>2, <2>2, <2>3
<1> QED BY <1>5, <1>6

----------------------------------------------------------------------------
(***************************************************************************)
(* So do the decoders around them.                                         *)
(***************************************************************************)

LEMMA SameCourse ==
    ASSUME NEW j, NEW d, NEW e, NEW out, NEW f, d.held = e.held, d.hidden = e.hidden,
           d.primed = e.primed
    PROVE  /\ Course(j, d, out) => Course(j, e, out)
           /\ Learnt(d, j, f) => Learnt(e, j, f)
<1>1. Course(j, d, out) => Course(j, e, out)
    BY DEF Course
<1>2. Learnt(d, j, f) => Learnt(e, j, f)
    BY DEF Learnt
<1> QED BY <1>1, <1>2

\* What a decoder may answer to sample j.
Answers(j, r) ==
    /\ r.ok => /\ Course(j, r.dec, r.out) /\ Knows(r.dec, j)
               /\ backend = "openh264" =>
                    r.dec.refused = IF film.samples[j].kind = "bad" THEN dec.refused + 1 ELSE 0
    /\ ~r.ok => \/ Excuse
                \/ /\ backend = "openh264" /\ film.samples[j].kind = "bad"
                   /\ dec.refused + 1 >= MaxRefused

LEMMA OpenH264Answers ==
    ASSUME NEW j, Coming(j), NEW p, p = Packet(film.samples[j]), backend = "openh264"
    PROVE  Answers(j, OpenH264Decode(dec, p))
<1> DEFINE r == Engine(dec, p)
           n == IF r.out = <<>> /\ ~r.ok THEN dec.refused + 1 ELSE 0
           e == [r.dec EXCEPT !.refused = n]
           a == OpenH264Decode(dec, p)
<1>1. a = Result(e, r.out, n < MaxRefused)
    BY DEF OpenH264Decode
<1>2. film.codec \in Reordering /\ film \in Films /\ dec \in Decoders /\ dec.fmt = None
  <2>1. film.codec \in {"h264", "hevc", "vp8", "vp9", "av1"}
      BY PlaybackAssumption DEF Coming
  <2>2. film.codec = "h264"
      BY <2>1 DEF Coming, Engines
  <2> QED BY <2>2 DEF Coming, Knows, Sound, Reordering
<1>3. r.dec \in Decoders /\ r.dec.fmt = None
  <2>1. p \in Packets
      BY FilmTypes, FedTypes DEF Coming, Size
  <2>2. SoundResult(r)
      BY <2>1, EngineSound DEF Coming
  <2>3. r.dec.fmt = dec.fmt
      BY <1>2, EngineKeeps
  <2> HIDE DEF r
  <2> QED BY <1>2, <2>2, <2>3 DEF SoundResult, Sound
<1>4. e.held = r.dec.held /\ e.hidden = r.dec.hidden /\ e.primed = r.dec.primed /\ e.fmt = None
      /\ e.refused = n
  <2> HIDE DEF r, n
  <2> QED BY <1>3 DEF Decoders
<1>5. MaxRefused > 0 /\ dec.refused \in Nat /\ MaxRefused \in Nat
    BY <1>2, PlaybackAssumption DEF Decoders
<1>6. CASE film.samples[j].kind = "bad"
  <2> DEFINE d == [dec EXCEPT !.primed = @ \/ p.sets]
  <2>1. r = Result(d, <<>>, FALSE) /\ Course(j, d, <<>>) /\ Learnt(d, j, dec.fmt)
      BY <1>6, DamagedCourse
  <2> HIDE DEF r, d
  <2>2. r.dec = d /\ r.out = <<>> /\ r.ok = FALSE
      BY <2>1 DEF Result
  <2>3. n = dec.refused + 1
      BY <2>2
  <2> HIDE DEF n, e
  <2>4. Course(j, e, <<>>) /\ Learnt(e, j, None)
      BY <1>2, <1>4, <2>1, <2>2, SameCourse
  <2>5. Knows(e, j)
      BY <1>4, <2>4 DEF Knows
  <2>6. a.dec = e /\ a.out = <<>> /\ a.ok = (n < MaxRefused)
      BY <1>1, <2>2 DEF Result
  <2>7. ~(n < MaxRefused) => dec.refused + 1 >= MaxRefused
      BY <1>5, <2>3
  <2> HIDE DEF a
  <2>8. /\ a.ok => /\ Course(j, a.dec, a.out) /\ Knows(a.dec, j)
                   /\ a.dec.refused = IF film.samples[j].kind = "bad" THEN dec.refused + 1 ELSE 0
      BY <1>4, <1>6, <2>3, <2>4, <2>5, <2>6
  <2>9. ~a.ok => film.samples[j].kind = "bad" /\ dec.refused + 1 >= MaxRefused
      BY <1>6, <2>6, <2>7
  <2>10. Answers(j, a)
      BY <2>8, <2>9, Zenon DEF Answers
  <2> QED BY <2>10 DEF a
<1>7. CASE film.samples[j].kind # "bad"
  <2>1. r.ok /\ Course(j, r.dec, Timed(p, r.out)) /\ Learnt(r.dec, j, dec.fmt)
      BY <1>7, EngineAdvances
  <2>2. Timed(p, r.out) = r.out
      BY <1>2 DEF Timed
  <2>3. n = 0
    <3> HIDE DEF r
    <3> QED BY <2>1
  <2> HIDE DEF r, n, e
  <2>4. Course(j, e, r.out) /\ Learnt(e, j, None)
      BY <1>2, <1>4, <2>1, <2>2, SameCourse
  <2>5. Knows(e, j)
      BY <1>4, <2>4 DEF Knows
  <2>6. a.dec = e /\ a.out = r.out /\ a.ok = (n < MaxRefused)
      BY <1>1 DEF Result
  <2>7. n < MaxRefused
      BY <1>5, <2>3
  <2> HIDE DEF a
  <2>8. /\ a.ok => /\ Course(j, a.dec, a.out) /\ Knows(a.dec, j)
                   /\ a.dec.refused = IF film.samples[j].kind = "bad" THEN dec.refused + 1 ELSE 0
      BY <1>4, <1>7, <2>3, <2>4, <2>5, <2>6
  <2>9. ~a.ok => film.samples[j].kind = "bad" /\ dec.refused + 1 >= MaxRefused
      BY <1>7, <2>6, <2>7
  <2>10. Answers(j, a)
      BY <2>8, <2>9, Zenon DEF Answers
  <2> QED BY <2>10 DEF a
<1> QED BY <1>6, <1>7

\* Stamped, field by field.
LEMMA StampedIs ==
    ASSUME NEW d, NEW out, NEW ok, NEW p
    PROVE  Stamped(Result(d, out, ok), p) = Result(d, Timed(p, out), ok)
BY DEF Stamped, Result, Timed

LEMMA TimedNothing == ASSUME NEW p PROVE Timed(p, <<>>) = <<>>
BY DEF Timed

\* What an engine returns is a Result.
LEMMA EngineResult ==
    ASSUME NEW j, Coming(j), NEW p, p = Packet(film.samples[j])
    PROVE  LET r == Engine(dec, p)
           IN  r = Result(r.dec, r.out, r.ok) /\ r.dec \in Decoders /\ p \in Packets
<1> DEFINE r == Engine(dec, p)
<1>1. p \in Packets
    BY FilmTypes, FedTypes DEF Coming, Size
<1>2. SoundResult(r)
    BY <1>1, EngineSound DEF Coming
<1> HIDE DEF r
<1>3. r \in Results
    BY <1>2 DEF SoundResult
<1>4. r = Result(r.dec, r.out, r.ok) /\ r.dec \in Decoders
    BY <1>3 DEF Results, Result
<1> QED BY <1>1, <1>4 DEF r

\* Codecs by what their decoders need to know of them.
LEMMA CodecOf ==
    ASSUME NEW j, Coming(j)
    PROVE  /\ backend \in {"openh264", "libvpx", "rav1d", "nvdec", "vaapi"}
           /\ backend \in {"libvpx", "rav1d"} => film.codec \notin Reordering
<1>1. film.codec \in {"h264", "hevc", "vp8", "vp9", "av1"}
    BY PlaybackAssumption DEF Coming
<1>2. backend \in Engines(film.codec)
    BY DEF Coming
<1> QED BY <1>1, <1>2 DEF Engines, Reordering

\* The result of the decoders that only pass on what their engine does.
LEMMA PassedOn ==
    ASSUME NEW j, Coming(j), backend \in {"libvpx", "rav1d"}, NEW d,
           Learnt(d, j, d.fmt)
    PROVE  Knows(d, j)
<1>1. film.codec \notin Reordering /\ backend # "openh264" /\ backend # "vaapi" /\ backend # "nvdec"
    BY CodecOf
<1> QED BY <1>1 DEF Knows

\* Without reordering the format of what is held does not matter.
LEMMA AnyFormat ==
    ASSUME film.codec \notin Reordering, NEW d, NEW j, NEW f, NEW g, Learnt(d, j, f)
    PROVE  Learnt(d, j, g)
BY DEF Learnt

LEMMA VpxAnswers ==
    ASSUME NEW j, Coming(j), NEW p, p = Packet(film.samples[j]), backend = "libvpx"
    PROVE  Answers(j, VpxDecode(dec, p))
<1> DEFINE r == Engine(dec, p)
           a == VpxDecode(dec, p)
<1>1. film.codec \notin Reordering
    BY CodecOf
<1>2. Stamped(r, p) = Result(r.dec, Timed(p, r.out), r.ok)
  <2>1. r = Result(r.dec, r.out, r.ok)
      BY EngineResult
  <2>2. Stamped(Result(r.dec, r.out, r.ok), p) = Result(r.dec, Timed(p, r.out), r.ok)
      BY StampedIs
  <2> HIDE DEF r
  <2> QED BY <2>1, <2>2
<1>3. a.ok /\ a.dec = r.dec /\ a.out = Timed(p, r.out)
  <2>1. a = [Stamped(r, p) EXCEPT !.ok = TRUE]
      BY DEF VpxDecode
  <2>2. \A x, y, z : [Result(x, y, z) EXCEPT !.ok = TRUE].ok
      BY DEF Result
  <2>3. \A x, y, z : /\ [Result(x, y, z) EXCEPT !.ok = TRUE].dec = x
                     /\ [Result(x, y, z) EXCEPT !.ok = TRUE].out = y
      BY DEF Result
  <2> HIDE DEF a, r
  <2>4. a = [Result(r.dec, Timed(p, r.out), r.ok) EXCEPT !.ok = TRUE]
      BY <1>2, <2>1
  <2> QED BY <2>2, <2>3, <2>4
<1>4. Course(j, r.dec, Timed(p, r.out)) /\ Learnt(r.dec, j, r.dec.fmt)
  <2>1. CASE film.samples[j].kind = "bad"
    <3> DEFINE d == [dec EXCEPT !.primed = @ \/ p.sets]
    <3>1. r = Result(d, <<>>, FALSE) /\ Course(j, d, <<>>) /\ Learnt(d, j, dec.fmt)
        BY <2>1, DamagedCourse
    <3> HIDE DEF r, d
    <3>2. r.dec = d /\ r.out = <<>>
        BY <3>1 DEF Result
    <3> QED BY <1>1, <3>1, <3>2, TimedNothing, AnyFormat
  <2>2. CASE film.samples[j].kind # "bad"
    <3>1. Course(j, r.dec, Timed(p, r.out)) /\ Learnt(r.dec, j, p.size)
        BY <2>2, EngineAdvances
    <3> HIDE DEF r
    <3> QED BY <1>1, <3>1, AnyFormat
  <2> QED BY <2>1, <2>2
<1> HIDE DEF a, r
<1>5. Knows(a.dec, j) /\ Course(j, a.dec, a.out)
    BY <1>3, <1>4, PassedOn
<1>6. Answers(j, a)
    BY <1>3, <1>5 DEF Answers
<1> QED BY <1>6 DEF a

LEMMA Rav1dAnswers ==
    ASSUME NEW j, Coming(j), NEW p, p = Packet(film.samples[j]), backend = "rav1d"
    PROVE  Answers(j, Rav1dDecode(dec, p))
<1> DEFINE r == Engine(dec, p)
           a == Rav1dDecode(dec, p)
<1>1. film.codec \notin Reordering
    BY CodecOf
<1>2. a = Result(r.dec, Timed(p, r.out), r.ok)
  <2>1. r = Result(r.dec, r.out, r.ok)
      BY EngineResult
  <2>2. Stamped(Result(r.dec, r.out, r.ok), p) = Result(r.dec, Timed(p, r.out), r.ok)
      BY StampedIs
  <2>3. a = Stamped(r, p)
      BY DEF Rav1dDecode
  <2> HIDE DEF a, r
  <2> QED BY <2>1, <2>2, <2>3
<1>3. CASE film.samples[j].kind = "bad"
  <2>1. Excuse
    <3>1. j \in DOMAIN film.samples
        BY FedTypes DEF Coming
    <3> QED BY <1>3, <3>1 DEF Excuse, HasBad
  <2>2. r.ok = FALSE
    <3> DEFINE d == [dec EXCEPT !.primed = @ \/ p.sets]
    <3>1. r = Result(d, <<>>, FALSE)
        BY <1>3, DamagedCourse
    <3> HIDE DEF r, d
    <3> QED BY <3>1 DEF Result
  <2> HIDE DEF a, r
  <2>3. a.ok = FALSE
      BY <1>2, <2>2 DEF Result
  <2>4. Answers(j, a)
      BY <2>1, <2>3 DEF Answers
  <2> QED BY <2>4 DEF a
<1>4. CASE film.samples[j].kind # "bad"
  <2>1. r.ok /\ Course(j, r.dec, Timed(p, r.out)) /\ Learnt(r.dec, j, p.size)
      BY <1>4, EngineAdvances
  <2> HIDE DEF a, r
  <2>2. a.ok = r.ok /\ a.dec = r.dec /\ a.out = Timed(p, r.out)
      BY <1>2 DEF Result
  <2>3. Knows(a.dec, j) /\ Course(j, a.dec, a.out)
      BY <1>1, <2>1, <2>2, PassedOn, AnyFormat
  <2>4. Answers(j, a)
      BY <2>1, <2>2, <2>3 DEF Answers
  <2> QED BY <2>4 DEF a
<1> QED BY <1>3, <1>4

\* What the engine knows once the picture is decoded.
LEMMA EnginePrimed ==
    ASSUME NEW j, Coming(j), film.samples[j].kind # "bad", NEW p, p = Packet(film.samples[j])
    PROVE  Engine(dec, p).dec.primed
<1> DEFINE seen == [dec EXCEPT !.primed = @ \/ p.sets]
           old == IF dec.fmt \notin {None, p.size} THEN dec.held ELSE {}
           held == (dec.held \ old) \cup {p.pts}
           first == IF Cardinality(held) > Depth THEN {Min(held)} ELSE {}
           hid == [seen EXCEPT !.hidden = p.pts]
           rest == [seen EXCEPT !.held = held \ first]
           r == Engine(dec, p)
<1>1. p.kind # "bad" /\ seen.primed
    BY Primed DEF Packet
<1>2. seen \in Decoders
    BY <1>1 DEF Coming, Sound, Decoders
<1>3. hid.primed /\ rest.primed
  <2> HIDE DEF seen, held, first
  <2> QED BY <1>1, <1>2 DEF Decoders
<1>4. \A a, b, c : Result(a, b, c).dec = a
    BY DEF Result
<1>5. CASE p.kind = "hidden"
  <2>1. r = Result(hid, <<>>, TRUE)
      BY <1>1, <1>5 DEF Engine
  <2> HIDE DEF r, hid
  <2>2. r.dec = hid
      BY <1>4, <2>1
  <2> QED BY <1>3, <2>2 DEF r
<1>6. CASE p.kind = "again"
  <2>1. r = Result(seen, <<>>, FALSE) \/ r = Result(seen, <<dec.hidden>>, TRUE)
      BY <1>1, <1>6 DEF Engine
  <2> HIDE DEF r, seen
  <2>2. r.dec = seen
      BY <1>4, <2>1
  <2> QED BY <1>1, <2>2 DEF r
<1>7. CASE p.kind = "pic" /\ film.codec \notin Reordering
  <2>1. r = Result(seen, <<p.pts>>, TRUE)
      BY <1>1, <1>7 DEF Engine
  <2> HIDE DEF r, seen
  <2>2. r.dec = seen
      BY <1>4, <2>1
  <2> QED BY <1>1, <2>2 DEF r
<1>8. CASE /\ p.kind # "hidden" /\ p.kind # "again"
           /\ ~(p.kind = "pic" /\ film.codec \notin Reordering)
  <2>1. r = Result(rest, InOrder(old) \o InOrder(first), TRUE)
      BY <1>1, <1>8 DEF Engine
  <2> HIDE DEF r, rest, old, first
  <2>2. r.dec = rest
      BY <1>4, <2>1
  <2> QED BY <1>3, <2>2 DEF r
<1> QED BY <1>5, <1>6, <1>7, <1>8

LEMMA NvAnswers ==
    ASSUME NEW j, Coming(j), NEW p, p = Packet(film.samples[j]), backend = "nvdec"
    PROVE  Answers(j, NvDecode(dec, p))
<1> DEFINE r == Engine(dec, p)
           sq == IF p.kind = "bad" \/ ~r.dec.primed \/ ~dec.parser THEN dec ELSE NvSequence(dec, p)
           fed == [sq EXCEPT !.parser = dec.parser]
           st == Stamped([r EXCEPT !.dec.fmt = sq.fmt], p)
           e == [r.dec EXCEPT !.fmt = sq.fmt]
           a == NvDecode(dec, p)
<1>0. a = NvFeed(fed, st)
    BY DEF NvDecode
<1>1. p.kind = film.samples[j].kind /\ p.size = film.samples[j].size /\ dec \in Decoders
      /\ p.size \in Nat
    BY FedTypes DEF Packet, Coming, Sound
<1>2. r.dec \in Decoders /\ r.dec.error = dec.error /\ r.dec.parser = dec.parser
  <2>1. r.dec \in Decoders
      BY EngineResult
  <2>2. r.dec.error = dec.error /\ r.dec.parser = dec.parser
      BY <1>1, EngineKeeps
  <2> QED BY <2>1, <2>2
<1>3. st = Result(e, Timed(p, r.out), r.ok)
  <2>1. r = Result(r.dec, r.out, r.ok)
      BY EngineResult
  <2>2. \A x, y, z, f : [Result(x, y, z) EXCEPT !.dec.fmt = f] = Result([x EXCEPT !.fmt = f], y, z)
      BY DEF Result
  <2>3. Stamped(Result(e, r.out, r.ok), p) = Result(e, Timed(p, r.out), r.ok)
      BY StampedIs
  <2>4. [r EXCEPT !.dec.fmt = sq.fmt] = Result(e, r.out, r.ok)
    <3> DEFINE f == sq.fmt
    <3>1. [Result(r.dec, r.out, r.ok) EXCEPT !.dec.fmt = f] = Result([r.dec EXCEPT !.fmt = f], r.out, r.ok)
      <4> HIDE DEF f, r
      <4> QED BY <2>2
    <3> HIDE DEF r, sq
    <3> QED BY <2>1, <3>1
  <2> HIDE DEF r, sq, e
  <2> QED BY <2>3, <2>4
<1>4. sq \in Decoders
    BY <1>1, <1>2 DEF NvSequence, Decoders
<1>5. /\ fed.error = sq.error /\ fed.parser = dec.parser
      /\ e.held = r.dec.held /\ e.hidden = r.dec.hidden /\ e.primed = r.dec.primed
      /\ e.fmt = sq.fmt /\ e.error = dec.error /\ e.parser = dec.parser
  <2> HIDE DEF r, sq
  <2> QED BY <1>1, <1>2, <1>4 DEF Decoders
<1>6. fed.error => a.ok = FALSE
  <2> HIDE DEF fed, st, a
  <2> QED BY <1>0 DEF NvFeed, Result
<1>7. ~fed.error => a.dec = e /\ a.out = Timed(p, r.out) /\ a.ok = fed.parser
  <2>1. st.dec = e /\ st.out = Timed(p, r.out)
    <3> HIDE DEF st, e, r
    <3> QED BY <1>3 DEF Result
  <2> HIDE DEF fed, st, a, e, r
  <2> QED BY <1>0, <2>1 DEF NvFeed, Result
<1>8. (dec.parser \/ dec.error) /\ (dec.error => fault) /\ (film.chroma # "420" => dec.fmt = None)
    BY DEF Coming, Knows
<1>9. CASE dec.error
  <2>1. sq.error
      BY <1>1, <1>9 DEF NvSequence, Decoders
  <2>2. a.ok = FALSE /\ Excuse
    <3>1. fed.error
        BY <1>5, <2>1
    <3>2. a.ok = FALSE
        BY <1>6, <3>1
    <3> QED BY <1>8, <1>9, <3>2 DEF Excuse
  <2> HIDE DEF a
  <2>3. Answers(j, a)
      BY <2>2 DEF Answers
  <2> QED BY <2>3 DEF a
<1>10. CASE ~dec.error /\ film.samples[j].kind = "bad"
  <2>1. sq = dec
      BY <1>1, <1>10
  <2>2. a.dec = e /\ a.out = Timed(p, r.out) /\ a.ok = dec.parser
    <3>1. ~fed.error /\ fed.parser = dec.parser
        BY <1>5, <1>10, <2>1
    <3> QED BY <1>7, <3>1
  <2> DEFINE d == [dec EXCEPT !.primed = @ \/ p.sets]
  <2>3. r = Result(d, <<>>, FALSE) /\ Course(j, d, <<>>) /\ Learnt(d, j, dec.fmt)
      BY <1>10, DamagedCourse
  <2> HIDE DEF r, d
  <2>4. r.dec = d /\ r.out = <<>>
      BY <2>3 DEF Result
  <2> HIDE DEF sq, e, a
  <2>5. Course(j, e, <<>>) /\ Learnt(e, j, e.fmt) /\ e.fmt = dec.fmt
      BY <1>5, <2>1, <2>3, <2>4, SameCourse
  <2>6. Knows(e, j)
    <3>1. e.parser /\ ~e.error /\ (film.chroma # "420" => e.fmt = None)
        BY <1>5, <1>8, <1>10, <2>5
    <3> QED BY <2>5, <3>1 DEF Knows
  <2>7. Answers(j, a)
    <3>1. a.ok
        BY <1>8, <1>10, <2>2
    <3> QED BY <2>2, <2>4, <2>5, <2>6, <3>1, TimedNothing DEF Answers
  <2> QED BY <2>7 DEF a
<1>11. CASE ~dec.error /\ film.samples[j].kind # "bad"
  <2>1. sq = NvSequence(dec, p)
    <3>1. r.dec.primed
        BY <1>11, EnginePrimed
    <3> HIDE DEF r
    <3> QED BY <1>1, <1>8, <1>11, <3>1
  <2>2. CASE film.chroma # "420"
    <3>1. dec.fmt # p.size
        BY <1>1, <1>8, <2>2, NoneIsNoTime
    <3>2. sq.error
        BY <1>1, <2>1, <2>2, <3>1 DEF NvSequence, Decoders
    <3>3. Excuse
        BY <2>2 DEF Excuse
    <3>4. a.ok = FALSE
        BY <1>5, <1>6, <3>2
    <3> HIDE DEF a
    <3>5. Answers(j, a)
        BY <3>3, <3>4 DEF Answers
    <3> QED BY <3>5 DEF a
  <2>3. CASE film.chroma = "420"
    <3>1. sq.fmt = p.size /\ ~sq.error
        BY <1>1, <1>11, <2>1, <2>3 DEF NvSequence, Decoders
    <3>2. a.dec = e /\ a.out = Timed(p, r.out) /\ a.ok = dec.parser
        BY <1>5, <1>7, <3>1
    <3>3. Course(j, r.dec, Timed(p, r.out)) /\ Learnt(r.dec, j, p.size)
        BY <1>11, <2>3, EngineAdvances
    <3> HIDE DEF a, e, r, sq
    <3>4. Course(j, e, Timed(p, r.out)) /\ Learnt(e, j, e.fmt)
        BY <1>5, <3>1, <3>3, SameCourse
    <3>5. Knows(e, j)
      <4>1. e.parser /\ ~e.error
          BY <1>5, <1>8, <1>11
      <4> QED BY <2>3, <3>4, <4>1 DEF Knows
    <3>6. Answers(j, a)
      <4>1. a.ok
          BY <1>8, <1>11, <3>2
      <4> QED BY <3>2, <3>4, <3>5, <4>1 DEF Answers
    <3> QED BY <3>6 DEF a
  <2> QED BY <2>2, <2>3
<1> QED BY <1>9, <1>10, <1>11

\* The pool of VA-API always has a frame left.
LEMMA PoolSuffices ==
    ASSUME NEW d, Sound(d), NEW j, NEW f, Learnt(d, j, f)
    PROVE  Cardinality(d.held) + (IF d.hidden = None THEN 0 ELSE 1) < MinFrames + Headroom
<1>1. Depth \in Nat /\ Headroom \in Nat /\ Headroom > 0
    BY PlaybackAssumption
<1>2. Cardinality(d.held) \in Nat /\ Cardinality(d.held) <= Depth
    BY FS_CardinalityType DEF Sound
<1>3. CASE film.codec \in Reordering
  <2>1. d.hidden = None
      BY <1>3 DEF Learnt
  <2> QED BY <1>1, <1>2, <2>1 DEF MinFrames
<1>4. CASE film.codec \notin Reordering
  <2>1. d.held = {}
      BY <1>4 DEF Learnt
  <2>2. Cardinality(d.held) = 0
      BY <2>1, FS_EmptySet
  <2> QED BY <1>1, <2>2 DEF MinFrames
<1> QED BY <1>3, <1>4

LEMMA VaAnswers ==
    ASSUME NEW j, Coming(j), NEW p, p = Packet(film.samples[j]), backend = "vaapi"
    PROVE  Answers(j, VaDecode(dec, p))
<1> DEFINE r == Engine(dec, p)
           neg == IF r.ok THEN VaNegotiate(dec, p) ELSE dec
           busy == Cardinality(r.dec.held) + (IF r.dec.hidden = None THEN 0 ELSE 1)
           fmt == IF r.ok THEN p.size ELSE r.dec.fmt
           e == [r.dec EXCEPT !.fmt = fmt, !.pool = neg.pool]
           a == VaDecode(dec, p)
<1>1. a = Result(e, VaTimes(r.out, p), r.ok /\ busy < neg.pool)
  <2>1. [r.dec EXCEPT !.fmt = IF r.ok THEN p.size ELSE @, !.pool = neg.pool] = e
      OBVIOUS
  <2>2. a = Result([r.dec EXCEPT !.fmt = IF r.ok THEN p.size ELSE @, !.pool = neg.pool],
                   VaTimes(r.out, p), r.ok /\ busy < neg.pool)
      BY DEF VaDecode
  <2> HIDE DEF a, e, r, busy, neg
  <2> QED BY <2>1, <2>2
<1>2. CASE film.samples[j].kind = "bad"
  <2>1. Excuse
    <3>1. j \in DOMAIN film.samples
        BY FedTypes DEF Coming
    <3> QED BY <1>2, <3>1 DEF Excuse, HasBad
  <2>2. ~r.ok
    <3> DEFINE d == [dec EXCEPT !.primed = @ \/ p.sets]
    <3>1. r = Result(d, <<>>, FALSE)
        BY <1>2, DamagedCourse
    <3> HIDE DEF r, d
    <3> QED BY <3>1 DEF Result
  <2> DEFINE b == r.ok /\ busy < neg.pool
  <2>3. a = Result(e, VaTimes(r.out, p), b) /\ ~b
      BY <1>1, <2>2
  <2> HIDE DEF a, r, e, b
  <2>4. ~a.ok
      BY <2>3 DEF Result
  <2>5. Answers(j, a)
      BY <2>1, <2>4 DEF Answers
  <2> QED BY <2>5 DEF a
<1>3. CASE film.samples[j].kind # "bad"
  <2>1. r.ok /\ Course(j, r.dec, Timed(p, r.out)) /\ Learnt(r.dec, j, p.size)
      BY <1>3, EngineAdvances
  <2>2. r.dec \in Decoders /\ Sound(r.dec) /\ p \in Packets
    <3>1. p \in Packets
        BY EngineResult
    <3>2. SoundResult(r)
        BY <3>1, EngineSound DEF Coming
    <3> HIDE DEF r
    <3> QED BY <3>1, <3>2 DEF SoundResult, Sound
  <2>3. dec \in Decoders /\ (dec.fmt # None => dec.pool = MinFrames + Headroom)
      BY DEF Coming, Sound, Knows
  <2>4. p.size # None /\ p # None
    <3>1. p.size \in Nat
        BY <2>2 DEF Packets
    <3>2. p \in [pts : Nat, size : Nat, kind : {"pic", "hidden", "again", "bad"},
                 keyframe : BOOLEAN, sets : BOOLEAN]
      <4>1. Stamps \subseteq Nat
          BY FilmTypes DEF Coming
      <4>2. p.kind # "skip"
          BY DEF Packet, Coming
      <4> QED BY <2>2, <4>1, <4>2 DEF Packets
    <3> QED BY <3>1, <3>2, PlaybackAssumption
  <2>5. neg.pool = MinFrames + Headroom
    <3>1. neg = VaNegotiate(dec, p)
        BY <2>1
    <3> HIDE DEF neg
    <3> QED BY <2>3, <2>4, <3>1 DEF VaNegotiate, Decoders
  <2>6. busy < neg.pool
    <3> HIDE DEF r, neg
    <3>1. busy < MinFrames + Headroom
        BY <2>1, <2>2, PoolSuffices
    <3> QED BY <2>5, <3>1
  <2>7. VaTimes(r.out, p) = Timed(p, r.out)
    <3> HIDE DEF r
    <3> QED BY <2>4 DEF VaTimes, Timed
  <2> DEFINE b == r.ok /\ busy < neg.pool
  <2>8. a = Result(e, Timed(p, r.out), b) /\ b
      BY <1>1, <2>1, <2>6, <2>7
  <2>9. /\ e.held = r.dec.held /\ e.hidden = r.dec.hidden /\ e.primed = r.dec.primed
        /\ e.fmt = p.size /\ e.pool = neg.pool
    <3>1. fmt = p.size
        BY <2>1
    <3> HIDE DEF r, neg, fmt
    <3> QED BY <2>2, <3>1 DEF Decoders
  <2> HIDE DEF a, b, e, r, neg
  <2>10. a.ok /\ a.dec = e /\ a.out = Timed(p, r.out)
      BY <2>8 DEF Result
  <2>11. Course(j, e, Timed(p, r.out)) /\ Learnt(e, j, e.fmt)
      BY <2>1, <2>9, SameCourse
  <2>12. Knows(e, j)
      BY <2>5, <2>9, <2>11 DEF Knows
  <2>13. Answers(j, a)
      BY <2>10, <2>11, <2>12 DEF Answers
  <2> QED BY <2>13 DEF a
<1> QED BY <1>2, <1>3

\* Whatever the decoder: it goes on with the film, or has a reason not to.
LEMMA DecodeAnswers ==
    ASSUME NEW j, Coming(j), NEW p, p = Packet(film.samples[j])
    PROVE  Answers(j, Decode(p))
<1>1. CASE backend = "openh264"
    BY <1>1, OpenH264Answers DEF Decode
<1>2. CASE backend = "libvpx"
    BY <1>2, VpxAnswers DEF Decode
<1>3. CASE backend = "rav1d"
    BY <1>3, Rav1dAnswers DEF Decode
<1>4. CASE backend = "nvdec"
    BY <1>4, NvAnswers DEF Decode
<1>5. CASE backend = "vaapi"
    BY <1>5, VaAnswers DEF Decode
<1> QED BY <1>1, <1>2, <1>3, <1>4, <1>5, CodecOf

----------------------------------------------------------------------------
(***************************************************************************)
(* Every step of next_frame is a step in the film.                         *)
(***************************************************************************)

\* What only the file decides stays, and so does a reason for an error.
LEMMA SameFilm ==
    ASSUME UNCHANGED given
    PROVE  /\ UNCHANGED Times /\ UNCHANGED PassLength /\ UNCHANGED All /\ UNCHANGED Size
           /\ (fault => fault') => (Excuse => Excuse')
<1>1. film' = film /\ looped' = looped /\ backend' = backend
    BY DEF given
<1>2. UNCHANGED Times /\ UNCHANGED All /\ UNCHANGED Size /\ UNCHANGED PassLength
    BY <1>1 DEF Times, All, Fed, Size, Shows, Pictures, PassLength
<1>3. BadRun' = BadRun /\ HasBad' = HasBad
    BY <1>1 DEF BadRun, HasBad, OnlyBad, Bads
<1>4. (fault => fault') => (Excuse => Excuse')
    BY <1>1, <1>2, <1>3 DEF Excuse
<1> QED BY <1>2, <1>4

\* Nothing is seen of a step that keeps what the caller sees.
LEMMA Unseen ==
    ASSUME UNCHANGED given, UNCHANGED <<shown, last, StateOf>>, fault => fault'
    PROVE  [F!Next]_(F!vars)
<1>1. UNCHANGED Times /\ UNCHANGED PassLength /\ UNCHANGED looped /\ (Excuse => Excuse')
    BY SameFilm DEF given
<1> QED BY <1>1 DEF F!Next, F!film

\* An error that is reported has a reason.
LEMMA Reported ==
    ASSUME UNCHANGED given, UNCHANGED <<shown, last>>, fault => fault', call = "running",
           call' = "failed", Excuse'
    PROVE  [F!Next]_(F!vars)
<1>1. UNCHANGED Times /\ UNCHANGED PassLength /\ UNCHANGED looped /\ (Excuse => Excuse')
    BY SameFilm DEF given
<1>2. StateOf = "playing" /\ StateOf' = "failed"
    BY DEF StateOf
<1>3. F!Fail
    BY <1>2 DEF F!Fail
<1> QED BY <1>1, <1>3 DEF F!Next, F!film

\* The next frame of pass q + 1.
LEMMA FrameShown ==
    ASSUME UNCHANGED given, fault => fault', call = "running", call' = "idle",
           film \in Films, NEW q \in Nat, NEW d \in Nat, d < Len(Times),
           shown = q * Len(Times) + d, q > 0 => looped,
           shown' = shown + 1, last' = q * PassLength + Times[d + 1]
    PROVE  [F!Next]_(F!vars)
<1> DEFINE n == Len(Times)
<1>1. UNCHANGED Times /\ UNCHANGED PassLength /\ UNCHANGED looped /\ (Excuse => Excuse')
    BY SameFilm DEF given
<1>2. StateOf = "playing" /\ StateOf' = "playing"
    BY DEF StateOf
<1>3. n \in Nat /\ n > 0
    BY FedTypes
<1> HIDE DEF n
<1>4. (q * n + d) \div n = q /\ (q * n + d) % n = d /\ q * n + d \in Nat
  <2>1. \A a, b, c \in Nat : b < c => (a * c + b) \div c = a /\ (a * c + b) % c = b /\ a * c + b \in Nat
      OBVIOUS
  <2>2. d < n
      BY DEF n
  <2> QED BY <1>3, <2>1, <2>2
<1>5. last' = F!TimeOf(shown + 1)
  <2>1. shown + 1 - 1 = q * n + d
      BY <1>4 DEF n
  <2>2. F!TimeOf(shown + 1)
        = ((shown + 1 - 1) \div n) * PassLength + Times[((shown + 1 - 1) % n) + 1]
      BY DEF n, F!TimeOf
  <2> QED BY <1>4, <2>1, <2>2
<1>6. Times # <<>> /\ (looped \/ shown < n)
  <2>1. Times # <<>>
    <3>1. Len(<<>>) = 0
        OBVIOUS
    <3> QED BY <1>3, <3>1 DEF n
  <2>2. q = 0 => shown < n
      BY <1>3 DEF n
  <2> QED BY <2>1, <2>2
<1>7. F!Show
    BY <1>2, <1>5, <1>6 DEF F!Show, n
<1> QED BY <1>1, <1>7 DEF F!Next, F!film

\* Where next_frame is; in ImplInv unless it has failed.
Inside == PlayInv /\ CourseInv /\ EngineInv /\ RefusalInv

LEMMA OutsTypes ==
    ASSUME PlayInv, CourseInv
    PROVE  /\ next \in 0..Size /\ Size \in Nat /\ IsFiniteSet(Outs) /\ Cardinality(Outs) \in Nat
           /\ Cardinality(Outs) <= Len(Times) /\ Len(Times) \in Nat
           /\ Cardinality(dec.held) \in Nat /\ Cardinality(dec.held) <= Depth /\ Depth \in Nat
           /\ Quiet(next) \in Nat /\ Quiet(Size) \in Nat /\ Quiet(next) <= Quiet(Size)
           /\ tries \in Nat /\ GuardLimit \in Nat /\ tries <= GuardLimit
<1>1. next \in 0..Size /\ film \in Films
    BY DEF PlayInv, Size
<1>2. Size \in Nat /\ IsFiniteSet(All) /\ Len(Times) = Cardinality(All) /\ Len(Times) \in Nat
    BY <1>1, FedTypes
<1>3. Outs \in SUBSET All
    BY <1>1, FedTypes DEF Outs
<1>4. IsFiniteSet(Outs) /\ Cardinality(Outs) \in Nat /\ Cardinality(Outs) <= Len(Times)
    BY <1>2, <1>3, FS_Subset, FS_CardinalityType
<1>5. Cardinality(dec.held) \in Nat /\ Cardinality(dec.held) <= Depth
    BY FS_CardinalityType DEF PlayInv, Sound
<1>6. Quiet(next) \in Nat /\ Quiet(Size) \in Nat /\ Quiet(next) <= Quiet(Size)
    BY <1>1, QuietTypes
<1>7. GuardLimit \in Nat /\ Depth \in Nat
    BY PlaybackAssumption
<1>8. tries \in Nat /\ tries <= GuardLimit
    BY <1>7 DEF PlayInv
<1> QED BY <1>1, <1>2, <1>4, <1>5, <1>6, <1>7, <1>8

\* Steps that leave the decoder and the file alone.
LEMMA SameDecoder ==
    ASSUME UNCHANGED given, UNCHANGED <<next, dec>>, fault => fault'
    PROVE  /\ UNCHANGED Outs /\ UNCHANGED Fed(next)
           /\ \A k : UNCHANGED Quiet(k)
           /\ UNCHANGED flushed => (EngineInv => EngineInv')
           /\ RefusalInv => RefusalInv'
<1>1. film' = film /\ looped' = looped /\ backend' = backend /\ next' = next /\ dec' = dec
    BY DEF given
<1>2. UNCHANGED Outs /\ UNCHANGED Fed(next)
    BY <1>1 DEF Outs, Fed, Shows, Pictures
<1>3. \A k : UNCHANGED Quiet(k)
    BY <1>1 DEF Quiet
<1>4. ASSUME UNCHANGED flushed, EngineInv PROVE EngineInv'
    BY <1>1, <1>4 DEF EngineInv, Knows, Learnt, Shows, Pictures
<1>5. ASSUME RefusalInv PROVE RefusalInv'
  <2>1. UNCHANGED Times /\ UNCHANGED Size
      BY SameFilm
  <2>2. CASE looped /\ Times = <<>>
      BY <1>1, <2>1, <2>2 DEF RefusalInv
  <2>3. ASSUME NEW i, RefusedRun(i) PROVE RefusedRun(i)'
      BY <1>1, <2>1, <2>3 DEF RefusedRun, OnlyBad, Bads
  <2>4. CASE backend = "openh264" /\ \E i \in 1..Size + 1 : RefusedRun(i)
      BY <1>1, <2>1, <2>3, <2>4 DEF RefusalInv
  <2>5. CASE backend # "openh264"
      BY <1>1, <2>5 DEF RefusalInv
  <2> QED BY <1>5, <2>2, <2>4, <2>5 DEF RefusalInv
<1> QED BY <1>2, <1>3, <1>4, <1>5

\* Steps in which the place in the film stays, too.
LEMMA SamePlace ==
    ASSUME Inside, PlayInv', UNCHANGED given,
           UNCHANGED <<next, dec, ready, flushed, offset, shown>>,
           fault => fault', call' # "running" \/ tries' = 0 \/ UNCHANGED <<call, tries>>
    PROVE  Inside'
<1>1. film' = film /\ looped' = looped /\ backend' = backend
    BY DEF given
<1>2. UNCHANGED Outs /\ UNCHANGED Fed(next) /\ UNCHANGED All /\ UNCHANGED Times
      /\ UNCHANGED Size /\ UNCHANGED PassLength
    BY SameDecoder, SameFilm
<1>3. EngineInv' /\ RefusalInv'
    BY SameDecoder DEF Inside
<1>4. PICK q \in Nat, d \in Nat : Place(q, d) /\ Pace(q, d)
    BY DEF Inside, CourseInv
<1>5. Place(q, d)'
    BY <1>1, <1>2, <1>4 DEF Place
<1>6. Pace(q, d)'
  <2>1. CASE call' # "running"
      BY <2>1 DEF Pace
  <2>2. CASE tries' = 0
    <3>1. Quiet(next)' \in Nat /\ Quiet(Size)' \in Nat /\ Cardinality(dec.held)' \in Nat
      <4>1. Quiet(next) \in Nat /\ Quiet(Size) \in Nat /\ Cardinality(dec.held) \in Nat
          BY OutsTypes DEF Inside
      <4>2. Quiet(next)' = Quiet(next) /\ Quiet(Size)' = Quiet(Size)
          BY <1>1, <1>2 DEF Quiet
      <4> QED BY <4>1, <4>2
    <3>2. Depth \in Nat
        BY PlaybackAssumption
    <3> QED BY <2>2, <3>1, <3>2 DEF Pace
  <2>3. CASE UNCHANGED <<call, tries>>
    <3>1. Quiet(next)' = Quiet(next) /\ Quiet(Size)' = Quiet(Size)
        BY <1>1, <1>2 DEF Quiet
    <3> QED BY <1>1, <1>2, <1>4, <2>3, <3>1 DEF Pace
  <2> QED BY <2>1, <2>2, <2>3
<1>7. (\E a, b \in Nat : Place(a, b) /\ Pace(a, b))'
    BY <1>4, <1>5, <1>6
<1>8. CourseInv'
  <2>1. Begins(Outs, All)'
      BY <1>2 DEF Inside, CourseInv, Begins
  <2>2. dec'.held \subseteq Fed(next)'
      BY <1>2 DEF Inside, CourseInv
  <2>3. flushed' => next' = Size' /\ dec'.held = {}
      BY <1>2 DEF Inside, CourseInv
  <2> QED BY <1>7, <2>1, <2>2, <2>3 DEF CourseInv
<1> QED BY <1>3, <1>8 DEF Inside

LEMMA CallStep ==
    ASSUME Inside, PlayInv', Call
    PROVE  Inside' /\ [F!Next]_(F!vars)
<1>1. Inside'
    BY SamePlace DEF Call
<1>2. UNCHANGED <<shown, last, StateOf>> /\ UNCHANGED given
    BY DEF Call, StateOf
<1> QED BY <1>1, <1>2, Unseen DEF Call

LEMMA BreaksStep ==
    ASSUME Inside, PlayInv', Breaks
    PROVE  [F!Next]_(F!vars)
<1>1. fault' /\ call = "running" /\ call' = "failed" /\ UNCHANGED given /\ UNCHANGED <<shown, last>>
    BY DEF Breaks, Turn
<1>2. Excuse'
    BY <1>1 DEF Excuse
<1> QED BY <1>1, <1>2, Reported

\* The guard is used up only by a looped file with nothing to show.
LEMMA GiveUpStep ==
    ASSUME Inside, WellMade(film), GiveUp
    PROVE  [F!Next]_(F!vars)
<1>1. /\ call = "running" /\ call' = "failed" /\ UNCHANGED given /\ UNCHANGED <<shown, last, fault>>
      /\ tries = GuardLimit
    BY DEF GiveUp
<1>2. looped /\ Times = <<>>
  <2>1. SUFFICES ASSUME ~(looped /\ Times = <<>>) PROVE FALSE
      OBVIOUS
  <2>2. PICK q \in Nat, d \in Nat : Place(q, d) /\ Pace(q, d)
      BY DEF Inside, CourseInv
  <2>3. tries <= Quiet(next) + (IF ready # <<>> THEN Depth + 1
                                ELSE Cardinality(dec.held) + (IF flushed THEN 1 ELSE 0))
                 + (IF q > 0 /\ d = 0 THEN Quiet(Size) + Depth + 2 ELSE 0)
      BY <1>1, <2>1, <2>2 DEF Pace
  <2>4. /\ Cardinality(dec.held) \in Nat /\ Cardinality(dec.held) <= Depth /\ Depth \in Nat
        /\ Quiet(next) \in Nat /\ Quiet(Size) \in Nat /\ Quiet(next) <= Quiet(Size)
        /\ tries \in Nat
      BY OutsTypes DEF Inside
  <2>5. tries <= 2 * (Quiet(Size) + Depth) + 3
    <3> DEFINE a == IF ready # <<>> THEN Depth + 1
                    ELSE Cardinality(dec.held) + (IF flushed THEN 1 ELSE 0)
               b == IF q > 0 /\ d = 0 THEN Quiet(Size) + Depth + 2 ELSE 0
    <3>1. a \in Nat /\ a <= Depth + 1
        BY <2>4
    <3>2. b \in Nat /\ b <= Quiet(Size) + Depth + 2
        BY <2>4
    <3>3. tries <= Quiet(next) + a + b
        BY <2>3
    <3> HIDE DEF a, b
    <3> QED BY <2>4, <3>1, <3>2, <3>3
  <2>6. 2 * (Quiet(Size) + Depth) + 4 <= GuardLimit
    <3>1. DOMAIN film.samples = 1..Size
        BY FedTypes DEF Inside, PlayInv
    <3>2. Quiet(Size) = Cardinality({i \in DOMAIN film.samples : film.samples[i].kind \in {"bad", "hidden"}})
        BY <3>1 DEF Quiet
    <3> QED BY <3>2 DEF WellMade
  <2>7. GuardLimit \in Nat
      BY OutsTypes DEF Inside
  <2> QED BY <1>1, <2>4, <2>5, <2>6, <2>7
<1>3. Excuse'
  <2>1. Times' = Times /\ looped' = looped
      BY <1>1, SameFilm DEF given
  <2> QED BY <1>2, <2>1 DEF Excuse
<1> QED BY <1>1, <1>3, Reported

\* After a flush every picture of the pass is out.
LEMMA AllOut ==
    ASSUME Inside, ready = <<>>, flushed, NEW q \in Nat, NEW d \in Nat, Place(q, d)
    PROVE  d = Len(Times) /\ next = Size
<1>1. next = Size /\ dec.held = {}
    BY DEF Inside, CourseInv
<1>2. Outs = All
    BY <1>1 DEF Outs, All
<1>3. Len(Times) = Cardinality(All)
    BY FedTypes DEF Inside, PlayInv
<1>4. Len(ready) = 0
    OBVIOUS
<1>5. d + Len(ready) = Cardinality(Outs)
    BY DEF Place
<1> QED BY <1>1, <1>2, <1>3, <1>4, <1>5

LEMMA FinishStep ==
    ASSUME Inside, PlayInv', Finish
    PROVE  Inside' /\ [F!Next]_(F!vars)
<1>1. Inside'
    BY SamePlace DEF Finish
<1>2. /\ call = "running" /\ call' = "ended" /\ UNCHANGED given /\ UNCHANGED <<shown, last, fault>>
      /\ ready = <<>> /\ flushed /\ ~looped
    BY DEF Finish, Turn
<1>3. PICK q \in Nat, d \in Nat : Place(q, d) /\ Pace(q, d)
    BY DEF Inside, CourseInv
<1>4. shown = Len(Times)
  <2>1. q = 0 /\ d = Len(Times)
      BY <1>2, <1>3, AllOut DEF Place
  <2>2. shown = q * Len(Times) + d /\ Len(Times) \in Nat
      BY <1>3, OutsTypes DEF Place, Inside
  <2> QED BY <2>1, <2>2
<1>5. F!End
  <2>1. StateOf = "playing" /\ StateOf' = "ended"
      BY <1>2 DEF StateOf
  <2> QED BY <1>2, <1>4, <2>1 DEF F!End
<1>6. UNCHANGED Times /\ UNCHANGED PassLength /\ UNCHANGED looped /\ (Excuse => Excuse')
    BY <1>2, SameFilm DEF given
<1> QED BY <1>1, <1>5, <1>6 DEF F!Next, F!film

LEMMA WiderSeq == ASSUME NEW S, NEW T, S \subseteq T, NEW s \in Seq(S) PROVE s \in Seq(T)
OBVIOUS

LEMMA DeliverStep ==
    ASSUME Inside, PlayInv', Deliver
    PROVE  Inside' /\ [F!Next]_(F!vars)
<1>1. /\ call = "running" /\ call' = "idle" /\ UNCHANGED given /\ UNCHANGED <<next, dec, flushed, offset, fault>>
      /\ ready # <<>> /\ ready' = Tail(ready) /\ last' = Head(ready) + offset /\ shown' = shown + 1
    BY DEF Deliver, Turn
<1>2. film' = film /\ looped' = looped /\ backend' = backend
    BY <1>1 DEF given
<1>3. PICK q \in Nat, d \in Nat : Place(q, d)
    BY DEF Inside, CourseInv
<1>4. ready \in Seq(Nat)
  <2>1. Stamps \subseteq Nat /\ ready \in Seq(Stamps)
      BY FilmTypes DEF Inside, PlayInv
  <2> QED BY <2>1, WiderSeq
<1>5. Len(ready) \in Nat /\ Len(ready) > 0 /\ Head(ready) = ready[1] /\ Len(Tail(ready)) = Len(ready) - 1
      /\ \A i \in 1..Len(ready) - 1 : Tail(ready)[i] = ready[i + 1]
    BY <1>1, <1>4
<1>6. /\ Cardinality(Outs) \in Nat /\ Cardinality(Outs) <= Len(Times) /\ Len(Times) \in Nat
    BY OutsTypes DEF Inside
<1>7. d < Len(Times) /\ d + Len(ready) = Cardinality(Outs) /\ Head(ready) = Times[d + 1]
  <2>1. d + Len(ready) = Cardinality(Outs)
      BY <1>3 DEF Place
  <2>2. 1 \in 1..Len(ready)
      BY <1>5
  <2>3. ready[1] = Times[d + 1]
      BY <1>3, <2>2 DEF Place
  <2> QED BY <1>5, <1>6, <2>1, <2>3
<1>8. shown = q * Len(Times) + d /\ offset = q * PassLength /\ (q > 0 => looped)
    BY <1>3 DEF Place
<1>9. PassLength \in Nat /\ Times[d + 1] \in Nat
  <2>1. film.duration \in Nat \cup {None}
      BY PlaybackAssumption DEF Inside, PlayInv
  <2>2. ready[1] \in Nat
      BY <1>4, <1>5
  <2> QED BY <1>5, <1>7, <2>1, <2>2 DEF PassLength
<1>10. last' = q * PassLength + Times[d + 1]
    BY <1>1, <1>7, <1>8, <1>9
<1>11. [F!Next]_(F!vars)
    BY <1>1, <1>7, <1>8, <1>10, FrameShown DEF Inside, PlayInv
<1>12. UNCHANGED Outs /\ UNCHANGED Fed(next) /\ UNCHANGED All /\ UNCHANGED Times
       /\ UNCHANGED Size /\ UNCHANGED PassLength
    BY <1>1, SameDecoder, SameFilm
<1>13. EngineInv' /\ RefusalInv'
    BY <1>1, SameDecoder DEF Inside
<1>14. Place(q, d + 1)'
  <2>1. offset' = q * PassLength' /\ shown' = q * Len(Times)' + (d + 1) /\ (q > 0 => looped')
    <3>1. q * Len(Times) \in Nat
        BY <1>6
    <3> QED BY <1>1, <1>2, <1>8, <1>12, <3>1
  <2>2. d + 1 + Len(ready)' = Cardinality(Outs)'
      BY <1>1, <1>5, <1>7, <1>12
  <2>3. ASSUME NEW i \in 1..Len(ready)' PROVE ready'[i] = Times'[d + 1 + i]
    <3>1. i \in 1..Len(ready) - 1 /\ i + 1 \in 1..Len(ready) /\ d + (i + 1) = d + 1 + i
        BY <1>1, <1>5
    <3>2. ready'[i] = ready[i + 1]
        BY <1>1, <1>5, <3>1
    <3>3. ready[i + 1] = Times[d + (i + 1)]
        BY <1>3, <3>1 DEF Place
    <3> QED BY <1>12, <3>1, <3>2, <3>3
  <2> QED BY <2>1, <2>2, <2>3 DEF Place
<1>15. Pace(q, d + 1)'
    BY <1>1 DEF Pace
<1>16. d + 1 \in Nat
    OBVIOUS
<1>17. (\E a, b \in Nat : Place(a, b) /\ Pace(a, b))'
    BY <1>14, <1>15, <1>16
<1>18. CourseInv'
  <2>1. Begins(Outs, All)'
      BY <1>12 DEF Inside, CourseInv, Begins
  <2>2. dec'.held \subseteq Fed(next)'
      BY <1>1, <1>12 DEF Inside, CourseInv
  <2>3. flushed' => next' = Size' /\ dec'.held = {}
      BY <1>1, <1>12 DEF Inside, CourseInv
  <2> QED BY <1>17, <2>1, <2>2, <2>3 DEF CourseInv
<1> QED BY <1>11, <1>13, <1>18 DEF Inside

LEMMA NothingFed ==
    ASSUME film \in Films
    PROVE  /\ Fed(0) = {} /\ Quiet(0) = 0
           /\ All = {} => Times = <<>>
           /\ OnlyBad(1..Size) => All = {}
<1>1. 1..0 = {} /\ Cardinality({}) = 0
    BY FS_EmptySet
<1>2. Fed(0) = {} /\ Quiet(0) = 0
    BY <1>1 DEF Fed, Quiet
<1>3. ASSUME All = {} PROVE Times = <<>>
  <2>1. All \subseteq Nat /\ IsFiniteSet(All) /\ Times = InOrder(All)
      BY FedTypes
  <2>2. InOrder(All) \in Seq(All) /\ Len(InOrder(All)) = Cardinality(All)
      BY <2>1, InOrderSorts
  <2>3. Times \in Seq(All) /\ Len(Times) = 0
      BY <1>1, <1>3, <2>1, <2>2
  <2> QED BY <2>3
<1>4. ASSUME OnlyBad(1..Size) PROVE All = {}
    BY <1>4 DEF OnlyBad, All, Fed, Shows, Pictures
<1> QED BY <1>2, <1>3, <1>4

\* A decoder that was reset, or could not be, knows nothing.
LEMMA ResetKnows ==
    ASSUME Sound(dec), Knows(dec, 0), UNCHANGED given, fault => fault',
           dec' = Reset \/ (backend = "nvdec" /\ fault' /\ dec' = ResetFails)
    PROVE  dec'.held = {} /\ dec'.refused = dec.refused /\ Knows(dec, 0)'
<1>1. dec \in Decoders /\ 1..0 = {}
    BY DEF Sound
<1>2. /\ dec'.held = {} /\ dec'.fmt = dec.fmt /\ dec'.pool = dec.pool /\ dec'.refused = dec.refused
      /\ dec'.hidden = None \/ dec'.hidden = dec.hidden
      /\ backend = "nvdec" => (dec'.parser \/ dec'.error) /\ (dec'.error => fault')
  <2>1. CASE backend = "nvdec"
    <3> DEFINE n == [dec EXCEPT !.parser = TRUE, !.held = {}, !.primed = FALSE, !.hidden = None]
               m == [n EXCEPT !.error = FALSE]
               k == [m EXCEPT !.parser = FALSE, !.error = TRUE]
    <3>1. dec' = m \/ (dec' = k /\ fault')
        BY <2>1 DEF Reset, ResetFails, NvNewParser
    <3>2. /\ m.held = {} /\ m.fmt = dec.fmt /\ m.pool = dec.pool /\ m.refused = dec.refused
          /\ m.hidden = None /\ m.parser /\ ~m.error
        BY <1>1 DEF Decoders
    <3>3. /\ k.held = {} /\ k.fmt = dec.fmt /\ k.pool = dec.pool /\ k.refused = dec.refused
          /\ k.hidden = None /\ k.error
        BY <1>1 DEF Decoders
    <3> HIDE DEF m, k
    <3> QED BY <3>1, <3>2, <3>3
  <2>2. CASE backend # "nvdec"
    <3>1. dec' = [dec EXCEPT !.held = {}]
        BY <2>2 DEF Reset, Drained
    <3> QED BY <1>1, <2>2, <3>1 DEF Decoders
  <2> QED BY <2>1, <2>2
<1>3. film.codec \in Reordering => dec'.hidden = None
    BY <1>2 DEF Knows, Learnt
<1>4. film' = film /\ backend' = backend
    BY DEF given
<1>5. Learnt(dec, 0, dec.fmt)'
    BY <1>1, <1>2, <1>3, <1>4 DEF Learnt
<1>6. /\ film.codec \in Reordering /\ backend = "openh264" => dec'.fmt = None
      /\ backend = "vaapi" /\ dec'.fmt # None => dec'.pool = MinFrames + Headroom
      /\ backend = "nvdec" /\ film.chroma # "420" => dec'.fmt = None
    BY <1>2 DEF Knows
<1>7. Knows(dec, 0)'
    BY <1>2, <1>4, <1>5, <1>6 DEF Knows
<1> QED BY <1>2, <1>7


\* A run of damaged packets goes on over a rewind.
LEMMA RefusalRewound ==
    ASSUME Inside, UNCHANGED given, next = Size, next' = 0, dec'.refused = dec.refused, looped
    PROVE  RefusalInv'
<1>1. film' = film /\ looped' = looped /\ backend' = backend
    BY DEF given
<1>2. UNCHANGED Times /\ UNCHANGED Size
    BY SameFilm
<1>3. SUFFICES ASSUME backend = "openh264", ~(looped /\ Times = <<>>) PROVE RefusalInv'
    BY <1>1, <1>2 DEF RefusalInv
<1>4. PICK i \in 1..Size + 1 : RefusedRun(i)
    BY <1>3 DEF Inside, RefusalInv
<1>5. ~OnlyBad(1..Size)
    BY <1>3, NothingFed DEF Inside, PlayInv
<1>6. OnlyBad(i..Size) /\ dec.refused <= Bads(i..Size)
    BY <1>4, <1>5 DEF RefusedRun
<1>7. 1..0 = {} /\ Cardinality({}) = 0 /\ Cardinality({j \in {} : film.samples[j].kind = "bad"}) = 0
  <2>1. {j \in {} : film.samples[j].kind = "bad"} = {}
      OBVIOUS
  <2> QED BY <2>1, FS_EmptySet
<1>8. OnlyBad(1..0) /\ Bads(1..0) = 0
    BY <1>7 DEF OnlyBad, Bads
<1>9. Bads(i..Size) \in Nat
  <2>1. i \in Nat /\ Size \in Nat
      BY OutsTypes DEF Inside
  <2>2. IsFiniteSet(i..Size)
      BY <2>1, FS_Interval
  <2>3. {j \in i..Size : film.samples[j].kind = "bad"} \in SUBSET (i..Size)
      OBVIOUS
  <2>4. IsFiniteSet({j \in i..Size : film.samples[j].kind = "bad"})
      BY <2>2, <2>3, FS_Subset
  <2> QED BY <2>4, FS_CardinalityType DEF Bads
<1>10. RefusedRun(i)'
  <2>1. OnlyBad(i..Size)' /\ OnlyBad(1..0)'
      BY <1>1, <1>2, <1>6, <1>8 DEF OnlyBad
  <2>2. Bads(i..Size)' = Bads(i..Size) /\ Bads(1..0)' = 0
      BY <1>1, <1>2, <1>8 DEF Bads
  <2>3. Bads(i..Size) + 0 = Bads(i..Size)
      BY <1>9
  <2>4. OnlyBad(1..next)' /\ Bads(1..next)' = 0
      BY <1>1, <1>7 DEF OnlyBad, Bads
  <2> QED BY <1>1, <1>6, <2>1, <2>2, <2>3, <2>4 DEF RefusedRun
<1>11. i \in 1..Size' + 1
    BY <1>2
<1> QED BY <1>10, <1>11 DEF RefusalInv

LEMMA RewindStep ==
    ASSUME Inside, PlayInv', Rewind
    PROVE  Inside' /\ [F!Next]_(F!vars)
<1>1. /\ call = "running" /\ call' = "running" /\ UNCHANGED given /\ UNCHANGED <<ready, shown, last>>
      /\ ready = <<>> /\ flushed /\ looped /\ flushed' = FALSE /\ next' = 0 /\ tries' = tries + 1
      /\ offset' = offset + PassLength
      /\ dec' = Reset \/ (backend = "nvdec" /\ fault' /\ dec' = ResetFails)
      /\ fault => fault'
    BY DEF Rewind, Turn
<1>2. film' = film /\ looped' = looped /\ backend' = backend
    BY <1>1 DEF given
<1>3. PICK q \in Nat, d \in Nat : Place(q, d) /\ Pace(q, d)
    BY DEF Inside, CourseInv
<1>4. d = Len(Times) /\ next = Size /\ dec.held = {}
    BY <1>1, <1>3, AllOut DEF Inside, CourseInv
<1>5. dec'.held = {} /\ dec'.refused = dec.refused /\ Knows(dec, 0)'
  <2>1. Sound(dec) /\ Knows(dec, 0)
      BY <1>1 DEF Inside, PlayInv, EngineInv
  <2> QED BY <1>1, <2>1, ResetKnows
<1>6. EngineInv'
  <2>1. flushed' = FALSE /\ next' = 0
      BY <1>1
  <2> QED BY <1>5, <2>1 DEF EngineInv, Knows, Learnt
<1>7. RefusalInv'
    BY <1>1, <1>4, <1>5, RefusalRewound
<1>8. UNCHANGED All /\ UNCHANGED Times /\ UNCHANGED Size /\ UNCHANGED PassLength
    BY <1>1, SameFilm
<1>9. Fed(next)' = {} /\ Outs' = {}
  <2>1. Fed(next)' = {}
    <3>1. next' = 0 /\ 1..0 = {}
        BY <1>1
    <3> QED BY <3>1 DEF Fed
  <2> QED BY <2>1 DEF Outs
<1>10. /\ Len(Times) \in Nat /\ PassLength \in Nat /\ Depth \in Nat /\ tries \in Nat
       /\ Quiet(Size) \in Nat /\ Cardinality(dec.held) = 0 /\ Len(ready) = 0
  <2>1. film.duration \in Nat \cup {None}
      BY PlaybackAssumption DEF Inside, PlayInv
  <2> QED BY <1>1, <1>4, <2>1, OutsTypes, FS_EmptySet DEF PassLength, Inside
<1>11. Place(q + 1, 0)'
  <2>1. \A x, y \in Nat : (x + 1) * y = x * y + y /\ x * y \in Nat
      OBVIOUS
  <2>2. offset' = (q + 1) * PassLength' /\ shown' = (q + 1) * Len(Times)' + 0
    <3>1. offset = q * PassLength /\ shown = q * Len(Times) + d
        BY <1>3 DEF Place
    <3>2. (q + 1) * PassLength = q * PassLength + PassLength
          /\ (q + 1) * Len(Times) = q * Len(Times) + Len(Times) /\ q * Len(Times) \in Nat
        BY <1>10, <2>1
    <3> QED BY <1>1, <1>4, <1>8, <1>10, <3>1, <3>2
  <2>3. 0 + Len(ready)' = Cardinality(Outs)'
      BY <1>1, <1>9, <1>10, FS_EmptySet
  <2>4. \A i \in 1..Len(ready)' : ready'[i] = Times'[0 + i]
    <3>1. 1..Len(ready)' = {}
        BY <1>1, <1>10
    <3> QED BY <3>1
  <2> QED BY <1>1, <1>2, <2>2, <2>3, <2>4 DEF Place
<1>12. Pace(q + 1, 0)'
  <2>1. SUFFICES ASSUME ~(looped' /\ Times' = <<>>)
        PROVE  tries' <= Quiet(next)' + Cardinality(dec.held)' + 0 + (Quiet(Size)' + Depth + 2)
    <3>1. q + 1 > 0 /\ ~(ready' # <<>>) /\ flushed' = FALSE /\ 0 = 0
        BY <1>1
    <3>2. Quiet(next)' \in Nat /\ Cardinality(dec.held)' \in Nat
      <4>1. Cardinality(dec.held)' = 0
          BY <1>5, FS_EmptySet
      <4>2. next' = 0 /\ film' = film /\ 1..0 = {}
          BY <1>1, <1>2
      <4>3. Quiet(next)' = Cardinality({})
          BY <4>2 DEF Quiet
      <4> QED BY <4>1, <4>3, FS_EmptySet
    <3> QED BY <3>1, <3>2 DEF Pace
  <2>2. d # 0
    <3>1. d = 0 => Times = <<>>
      <4>1. Len(Times) = Cardinality(All) /\ IsFiniteSet(All)
          BY FedTypes DEF Inside, PlayInv
      <4>2. d = 0 => All = {}
          BY <1>4, <4>1, FS_EmptySet
      <4> QED BY <4>2, NothingFed DEF Inside, PlayInv
    <3> QED BY <1>1, <1>2, <1>8, <2>1, <3>1
  <2>3. tries <= Quiet(next) + (0 + 1) + 0
    <3>1. ~(looped /\ Times = <<>>)
        BY <1>1, <1>2, <1>8, <2>1
    <3> QED BY <1>1, <1>3, <1>10, <2>2, <3>1 DEF Pace
  <2>4. Quiet(next)' = 0 /\ Quiet(Size)' = Quiet(Size) /\ Cardinality(dec.held)' = 0
    <3>1. next' = 0 /\ 1..0 = {}
        BY <1>1
    <3>2. Quiet(next)' = Cardinality({})
        BY <3>1 DEF Quiet
    <3>3. Quiet(Size)' = Quiet(Size)
        BY <1>2, <1>8 DEF Quiet
    <3> QED BY <1>5, <3>2, <3>3, FS_EmptySet
  <2> QED BY <1>1, <1>4, <1>10, <2>3, <2>4
<1>13. (\E a, b \in Nat : Place(a, b) /\ Pace(a, b))'
  <2>1. q + 1 \in Nat /\ 0 \in Nat
      OBVIOUS
  <2> QED BY <1>11, <1>12, <2>1
<1>14. CourseInv'
  <2>1. Begins(Outs, All)'
      BY <1>9 DEF Begins
  <2>2. dec'.held \subseteq Fed(next)' /\ ~flushed'
      BY <1>1, <1>5
  <2> QED BY <1>13, <2>1, <2>2 DEF CourseInv
<1>15. UNCHANGED <<shown, last, StateOf>>
    BY <1>1 DEF StateOf
<1> QED BY <1>1, <1>6, <1>7, <1>14, <1>15, Unseen DEF Inside

\* The samples taken from one point on, and the damaged ones among them.
LEMMA BadsNext ==
    ASSUME film \in Films, NEW k \in 0..Size, NEW j \in k + 1..Size,
           \A i \in k + 1..j - 1 : film.samples[i].kind = "skip",
           NEW i \in Nat, i <= k + 1, OnlyBad(i..k), film.samples[j].kind = "bad"
    PROVE  OnlyBad(i..j) /\ Bads(i..j) = Bads(i..k) + 1 /\ Bads(i..k) \in Nat
<1> DEFINE B(m) == {x \in i..m : film.samples[x].kind = "bad"}
<1>1. Size \in Nat /\ k \in Nat /\ j \in Nat /\ j > k
    BY FedTypes
<1>2. \A x \in i..j : x \in i..k \/ x \in k + 1..j - 1 \/ x = j
    BY <1>1
<1>3. \A x \in i..k : x \in i..j /\ x # j
    BY <1>1
<1>4. j \in i..j
    BY <1>1
<1>5. OnlyBad(i..j)
    BY <1>2 DEF OnlyBad
<1>6. B(j) = B(k) \cup {j} /\ j \notin B(k)
    BY <1>2, <1>3, <1>4
<1>7. IsFiniteSet(B(k))
  <2>1. IsFiniteSet(i..k)
      BY <1>1, FS_Interval
  <2>2. B(k) \in SUBSET (i..k)
      OBVIOUS
  <2> HIDE DEF B
  <2> QED BY <2>1, <2>2, FS_Subset
<1>8. Bads(i..j) = Cardinality(B(j)) /\ Bads(i..k) = Cardinality(B(k))
    BY DEF Bads
<1> HIDE DEF B
<1>9. Cardinality(B(k) \cup {j}) = Cardinality(B(k)) + 1 /\ Cardinality(B(k)) \in Nat
    BY <1>6, <1>7, FS_AddElement, FS_CardinalityType
<1> QED BY <1>5, <1>6, <1>8, <1>9

\* Samples that are passed over do not end a run, nor do they count.
LEMMA BadsSkip ==
    ASSUME film \in Films, NEW k \in 0..Size,
           \A i \in k + 1..Size : film.samples[i].kind = "skip",
           NEW i \in Nat, i <= k + 1, OnlyBad(i..k)
    PROVE  OnlyBad(i..Size) /\ Bads(i..Size) = Bads(i..k)
<1>1. Size \in Nat /\ k \in Nat
    BY FedTypes
<1>2. \A x \in i..Size : x \in i..k \/ x \in k + 1..Size
    BY <1>1
<1>3. \A x \in i..k : x \in i..Size
    BY <1>1
<1>4. OnlyBad(i..Size)
    BY <1>2 DEF OnlyBad
<1>5. {x \in i..Size : film.samples[x].kind = "bad"} = {x \in i..k : film.samples[x].kind = "bad"}
    BY <1>2, <1>3
<1> QED BY <1>4, <1>5 DEF Bads

\* A refused packet makes the run longer, any other ends it.
LEMMA RefusalFed ==
    ASSUME Inside, UNCHANGED given, NEW j, Coming(j), next' = j,
           backend = "openh264" =>
             dec'.refused = IF film.samples[j].kind = "bad" THEN dec.refused + 1 ELSE 0
    PROVE  RefusalInv'
<1>1. film' = film /\ looped' = looped /\ backend' = backend
    BY DEF given
<1>2. UNCHANGED Times /\ UNCHANGED Size
    BY SameFilm
<1>3. SUFFICES ASSUME backend = "openh264", ~(looped /\ Times = <<>>)
               PROVE  \E i \in 1..Size + 1 : RefusedRun(i)'
    BY <1>1, <1>2 DEF RefusalInv
<1>4. j \in 1..Size /\ Size \in Nat /\ next \in 0..Size /\ film \in Films
      /\ j \in next + 1..Size /\ \A i \in next + 1..j - 1 : film.samples[i].kind = "skip"
    BY FedTypes DEF Coming
<1>5. CASE film.samples[j].kind = "bad"
  <2>1. PICK i \in 1..Size + 1 : RefusedRun(i)
      BY <1>3 DEF Inside, RefusalInv
  <2>2. dec'.refused = dec.refused + 1 /\ dec.refused \in Nat
    <3>1. dec.refused \in 0..MaxRefused
        BY DEF Coming, Sound, Decoders
    <3> QED BY <1>3, <1>5, <3>1
  <2>3. i \in Nat
      BY <1>4
  <2>4. CASE i <= next + 1 /\ OnlyBad(i..next) /\ dec.refused <= Bads(i..next)
    <3>1. OnlyBad(i..j) /\ Bads(i..j) = Bads(i..next) + 1 /\ Bads(i..next) \in Nat
        BY <1>4, <1>5, <2>3, <2>4, BadsNext
    <3>2. OnlyBad(i..next)' /\ dec'.refused <= Bads(i..next)'
      <4>1. OnlyBad(i..next)' = OnlyBad(i..j) /\ Bads(i..next)' = Bads(i..j)
          BY <1>1 DEF OnlyBad, Bads
      <4> QED BY <2>2, <2>4, <3>1, <4>1
    <3>3. i <= next' + 1
        BY <1>4, <2>3, <2>4
    <3>4. RefusedRun(i)'
        BY <3>2, <3>3 DEF RefusedRun
    <3> QED BY <3>4
  <2>5. CASE /\ looped /\ OnlyBad(i..Size) /\ OnlyBad(1..next)
             /\ dec.refused <= Bads(i..Size) + Bads(1..next)
    <3>1. 1 \in Nat /\ 1 <= next + 1
        BY <1>4
    <3>2. OnlyBad(1..j) /\ Bads(1..j) = Bads(1..next) + 1 /\ Bads(1..next) \in Nat
        BY <1>4, <1>5, <2>5, <3>1, BadsNext
    <3>3. Bads(i..Size) \in Nat
      <4>1. IsFiniteSet(i..Size)
          BY <1>4, <2>3, FS_Interval
      <4>2. {x \in i..Size : film.samples[x].kind = "bad"} \in SUBSET (i..Size)
          OBVIOUS
      <4>3. IsFiniteSet({x \in i..Size : film.samples[x].kind = "bad"})
          BY <4>1, <4>2, FS_Subset
      <4> QED BY <4>3, FS_CardinalityType DEF Bads
    <3>4. OnlyBad(1..next)' = OnlyBad(1..j) /\ Bads(1..next)' = Bads(1..j)
          /\ OnlyBad(i..Size)' = OnlyBad(i..Size) /\ Bads(i..Size)' = Bads(i..Size)
        BY <1>1, <1>2 DEF OnlyBad, Bads
    <3>5. dec'.refused <= Bads(i..Size) + Bads(1..j)
        BY <2>2, <2>5, <3>2, <3>3
    <3>6. RefusedRun(i)'
        BY <1>1, <2>5, <3>2, <3>4, <3>5 DEF RefusedRun
    <3> QED BY <3>6
  <2> QED BY <2>1, <2>4, <2>5 DEF RefusedRun
<1>6. CASE film.samples[j].kind # "bad"
  <2>1. j + 1 \in 1..Size + 1 /\ j + 1 <= next' + 1 /\ next' = j /\ j + 1..j = {}
      BY <1>4
  <2>2. OnlyBad({}) /\ {x \in {} : film.samples[x].kind = "bad"} = {}
      BY DEF OnlyBad
  <2>3. Bads({}) = 0
      BY <2>2, FS_EmptySet DEF Bads
  <2>4. OnlyBad(j + 1..next)' /\ Bads(j + 1..next)' = 0
    <3>1. OnlyBad(j + 1..next)' = OnlyBad(j + 1..j) /\ Bads(j + 1..next)' = Bads(j + 1..j)
        BY <1>1 DEF OnlyBad, Bads
    <3> QED BY <2>1, <2>2, <2>3, <3>1
  <2>5. dec'.refused = 0
      BY <1>3, <1>6
  <2>6. RefusedRun(j + 1)'
      BY <2>1, <2>4, <2>5 DEF RefusedRun
  <2> QED BY <2>1, <2>6
<1> QED BY <1>5, <1>6

\* openh264 gives up on such a run only.
LEMMA RefusalExcuse ==
    ASSUME Inside, NEW j, Coming(j), backend = "openh264", film.samples[j].kind = "bad",
           dec.refused + 1 >= MaxRefused
    PROVE  Excuse
<1>1. SUFFICES ASSUME ~(looped /\ Times = <<>>) PROVE BadRun
    BY DEF Excuse
<1>2. PICK i \in 1..Size + 1 : RefusedRun(i)
    BY <1>1 DEF Inside, RefusalInv
<1>3. /\ j \in 0..Size /\ Size \in Nat /\ next \in 0..Size /\ film \in Films /\ i \in Nat
      /\ j \in next + 1..Size /\ \A x \in next + 1..j - 1 : film.samples[x].kind = "skip"
    BY FedTypes DEF Coming
<1>4. dec.refused \in Nat /\ MaxRefused \in Nat
  <2>1. dec.refused \in 0..MaxRefused
      BY DEF Coming, Sound, Decoders
  <2> QED BY <2>1, PlaybackAssumption
<1>5. CASE i <= next + 1 /\ OnlyBad(i..next) /\ dec.refused <= Bads(i..next)
  <2>1. OnlyBad(i..j) /\ Bads(i..j) = Bads(i..next) + 1 /\ Bads(i..next) \in Nat
      BY <1>3, <1>5, BadsNext
  <2>2. Bads(i..j) >= MaxRefused
      BY <1>4, <1>5, <2>1
  <2> QED BY <1>2, <1>3, <2>1, <2>2 DEF BadRun, Size
<1>6. CASE /\ looped /\ OnlyBad(i..Size) /\ OnlyBad(1..next)
           /\ dec.refused <= Bads(i..Size) + Bads(1..next)
  <2>1. 1 \in Nat /\ 1 <= next + 1
      BY <1>3
  <2>2. OnlyBad(1..j) /\ Bads(1..j) = Bads(1..next) + 1 /\ Bads(1..next) \in Nat
      BY <1>3, <1>6, <2>1, BadsNext
  <2>3. Bads(i..Size) \in Nat
    <3>1. IsFiniteSet(i..Size)
        BY <1>3, FS_Interval
    <3>2. {x \in i..Size : film.samples[x].kind = "bad"} \in SUBSET (i..Size)
        OBVIOUS
    <3>3. IsFiniteSet({x \in i..Size : film.samples[x].kind = "bad"})
        BY <3>1, <3>2, FS_Subset
    <3> QED BY <3>3, FS_CardinalityType DEF Bads
  <2>4. Bads(i..Size) + Bads(1..j) >= MaxRefused
      BY <1>4, <1>6, <2>2, <2>3
  <2> QED BY <1>2, <1>3, <1>6, <2>2, <2>4 DEF BadRun, Size
<1> QED BY <1>2, <1>5, <1>6 DEF RefusedRun

\* What one decoded packet means for the place in the film.
LEMMA FedOn ==
    ASSUME Inside, UNCHANGED given, NEW j, Coming(j), next' = j, ready = <<>>, ~flushed, ~flushed',
           call = "running", call' = "running", tries' = tries + 1, UNCHANGED <<offset, shown>>,
           NEW out, ready' = out, Course(j, dec', out), Len(out) \in Nat
    PROVE  CourseInv'
<1>1. film' = film /\ looped' = looped /\ backend' = backend
    BY DEF given
<1>2. UNCHANGED Times /\ UNCHANGED Size /\ UNCHANGED All /\ UNCHANGED PassLength
    BY SameFilm
<1>3. Fed(next)' = Fed(j) /\ Outs' = Fed(j) \ dec'.held
  <2>1. Fed(next)' = Fed(j)
      BY <1>1 DEF Fed, Shows, Pictures
  <2> QED BY <2>1 DEF Outs
<1>4. PICK q \in Nat, d \in Nat : Place(q, d) /\ Pace(q, d)
    BY DEF Inside, CourseInv
<1>5. /\ Cardinality(Outs) \in Nat /\ Cardinality(dec.held) \in Nat /\ Cardinality(dec.held) <= Depth
      /\ Depth \in Nat /\ Quiet(next) \in Nat /\ Quiet(Size) \in Nat /\ tries \in Nat
    BY OutsTypes DEF Inside
<1>6. d = Cardinality(Outs)
  <2>1. Len(ready) = 0
      OBVIOUS
  <2> QED BY <1>4, <1>5, <2>1 DEF Place
<1>7. Place(q, d)'
  <2>1. d + Len(ready)' = Cardinality(Outs)'
      BY <1>3, <1>6 DEF Course
  <2>2. \A i \in 1..Len(ready)' : ready'[i] = Times'[d + i]
      BY <1>2, <1>6 DEF Course
  <2>3. offset = q * PassLength /\ shown = q * Len(Times) + d /\ (q > 0 => looped)
      BY <1>4 DEF Place
  <2> QED BY <1>1, <1>2, <2>1, <2>2, <2>3 DEF Place
<1>8. Pace(q, d)'
  <2> DEFINE R == IF q > 0 /\ d = 0 THEN Quiet(Size) + Depth + 2 ELSE 0
  <2>1. R \in Nat
      BY <1>5
  <2>2. Quiet(next)' = Quiet(j) /\ Quiet(Size)' = Quiet(Size)
      BY <1>1, <1>2 DEF Quiet
  <2>3. Quiet(j) \in Nat /\ Quiet(j) >= Quiet(next)
    <3>1. /\ film \in Films /\ next \in 0..Size /\ j \in next + 1..Size /\ j \in 0..Size
          /\ \A i \in next + 1..j - 1 : film.samples[i].kind = "skip"
        BY FedTypes DEF Coming
    <3>2. Quiet(j) \in Nat
        BY <3>1, QuietTypes
    <3>3. Quiet(j) = Quiet(next) \/ Quiet(j) = Quiet(next) + 1
        BY <3>1, QuietNext
    <3> QED BY <1>5, <3>2, <3>3
  <2>4. SUFFICES ASSUME ~(looped' /\ Times' = <<>>)
        PROVE  tries' <= Quiet(j) + (IF out # <<>> THEN Depth + 1 ELSE Cardinality(dec'.held)) + R
    <3>1. out = <<>> => Cardinality(dec'.held) + Quiet(j) >= Cardinality(dec.held) + Quiet(next) + 1
        BY DEF Course
    <3>2. (IF flushed' THEN 1 ELSE 0) = 0
        OBVIOUS
    <3>3. Cardinality(dec'.held) \in Nat
      <4>1. IsFiniteSet(Fed(j)) /\ dec'.held \in SUBSET Fed(j)
          BY FedTypes DEF Course, Coming
      <4> QED BY <4>1, FS_Subset, FS_CardinalityType
    <3>4. R' = R
        BY <2>2 DEF R
    <3> HIDE DEF R
    <3>5. Cardinality(dec'.held) + 0 = Cardinality(dec'.held)
        BY <3>3
    <3> QED BY <2>2, <3>2, <3>4, <3>5 DEF Pace, R
  <2>5. tries <= Quiet(next) + (Cardinality(dec.held) + 0) + R
    <3>1. ~(looped /\ Times = <<>>)
        BY <1>1, <1>2, <2>4
    <3>2. ~(ready # <<>>)
        OBVIOUS
    <3> QED BY <1>4, <3>1, <3>2 DEF Pace
  <2> HIDE DEF R
  <2>6. CASE out # <<>>
    <3>1. tries + 1 <= Quiet(j) + (Depth + 1) + R
        BY <1>5, <2>1, <2>3, <2>5, SMTT(20)
    <3> QED BY <2>6, <3>1
  <2>7. CASE out = <<>>
    <3>1. Cardinality(dec'.held) + Quiet(j) >= Cardinality(dec.held) + Quiet(next) + 1
        BY <2>7 DEF Course
    <3>2. Cardinality(dec'.held) \in Nat
      <4>1. IsFiniteSet(Fed(j)) /\ dec'.held \in SUBSET Fed(j)
          BY FedTypes DEF Course, Coming
      <4> QED BY <4>1, FS_Subset, FS_CardinalityType
    <3>3. tries + 1 <= Quiet(j) + Cardinality(dec'.held) + R
        BY <1>5, <2>1, <2>3, <2>5, <3>1, <3>2, SMTT(20)
    <3> QED BY <2>7, <3>3
  <2> QED BY <2>6, <2>7
<1>9. (\E a, b \in Nat : Place(a, b) /\ Pace(a, b))'
    BY <1>7, <1>8
<1>10. Begins(Outs, All)'
  <2>1. Begins(Fed(j) \ dec'.held, All)
      BY DEF Course
  <2> QED BY <1>2, <1>3, <2>1 DEF Begins
<1>11. dec'.held \subseteq Fed(next)'
    BY <1>3 DEF Course
<1> QED BY <1>9, <1>10, <1>11 DEF CourseInv

LEMMA FeedStep ==
    ASSUME Inside, call # "failed", WellMade(film), PlayInv', Feed
    PROVE  (call' # "failed" => Inside') /\ [F!Next]_(F!vars)
<1> DEFINE j == NextSample
           p == Packet(film.samples[j])
           r == Decode(p)
<1>1. /\ call = "running" /\ UNCHANGED given /\ UNCHANGED <<flushed, offset, shown, last, fault>>
      /\ ready = <<>> /\ ~flushed /\ j # None /\ next' = j /\ tries' = tries + 1
    BY DEF Feed, Turn
<1>2. Take(r)
    BY DEF Feed
<1>3. film' = film /\ looped' = looped /\ backend' = backend
    BY <1>1 DEF given
<1>4. Coming(j)
  <2>1. film \in Films /\ next \in 0..Size /\ backend \in Engines(film.codec) /\ Sound(dec)
        /\ dec.refused < MaxRefused
      BY <1>1 DEF Inside, PlayInv, Size
  <2>2. /\ j \in next + 1..Size /\ film.samples[j].kind # "skip"
        /\ \A i \in next + 1..j - 1 : film.samples[i].kind = "skip"
      BY <1>1, <2>1, NextSampleIs
  <2>3. Knows(dec, next)
      BY <1>1 DEF Inside, EngineInv
  <2> HIDE DEF j
  <2> QED BY <2>1, <2>2, <2>3 DEF Coming, Inside, CourseInv
<1> HIDE DEF j
<1>5. Answers(j, r)
    BY <1>4, DecodeAnswers
<1>6. SoundResult(r)
  <2>1. p \in Packets
      BY <1>4, EngineResult
  <2> QED BY <1>4, <2>1, DecodeSound DEF Coming
<1> HIDE DEF p, r
<1>7. CASE ~r.ok
  <2>1. call' = "failed"
      BY <1>2, <1>7 DEF Take
  <2>2. Excuse
      BY <1>4, <1>5, <1>7, RefusalExcuse DEF Answers
  <2>3. Excuse'
      BY <1>1, <2>2, SameFilm
  <2>4. [F!Next]_(F!vars)
      BY <1>1, <2>1, <2>3, Reported
  <2> QED BY <2>1, <2>4
<1>8. CASE r.ok
  <2>1. dec' = r.dec /\ ready' = ready \o r.out /\ call' = call
      BY <1>2, <1>8 DEF Take
  <2>2. r.out \in Seq(Stamps)
      BY <1>6 DEF SoundResult, Results
  <2>3. ready' = r.out /\ Len(r.out) \in Nat
    <3>1. \A S : \A s \in Seq(S) : <<>> \o s = s /\ Len(s) \in Nat
        OBVIOUS
    <3> QED BY <1>1, <2>1, <2>2, <3>1
  <2>4. Course(j, r.dec, r.out) /\ Knows(r.dec, j)
      BY <1>5, <1>8 DEF Answers
  <2>5. backend = "openh264" =>
             dec'.refused = IF film.samples[j].kind = "bad" THEN dec.refused + 1 ELSE 0
      BY <1>5, <1>8, <2>1 DEF Answers
  <2>6. CourseInv'
      BY <1>1, <1>4, <2>1, <2>3, <2>4, FedOn
  <2>7. EngineInv'
    <3>1. Learnt(dec, next, dec.fmt)'
        BY <1>1, <1>3, <2>1, <2>4 DEF Knows, Learnt, Shows, Pictures
    <3>2. Knows(dec, next)'
        BY <1>1, <1>3, <2>1, <2>4, <3>1 DEF Knows
    <3> QED BY <1>1, <3>2 DEF EngineInv
  <2>8. RefusalInv'
      BY <1>1, <1>4, <2>5, RefusalFed
  <2>9. [F!Next]_(F!vars)
    <3>1. UNCHANGED <<shown, last, StateOf>>
        BY <1>1, <2>1 DEF StateOf
    <3> QED BY <1>1, <3>1, Unseen
  <2> QED BY <2>6, <2>7, <2>8, <2>9 DEF Inside
<1> QED BY <1>7, <1>8

----------------------------------------------------------------------------
(* A flush that succeeds brings out all that is held. *)
LEMMA FlushIs ==
    ASSUME film \in Films, Sound(dec), Knows(dec, next)
    PROVE  /\ Flush.ok => Flush.out = Held /\ Flush.dec.held = {}
           /\ Flush.ok => /\ Flush.dec.refused = dec.refused /\ Flush.dec.fmt = dec.fmt
                          /\ Flush.dec.pool = dec.pool
                          /\ Flush.dec.hidden \in {None, dec.hidden}
                          /\ backend = "nvdec" => Flush.dec.parser /\ ~Flush.dec.error
           /\ ~Flush.ok => fault
<1>1. dec \in Decoders
    BY DEF Sound
<1> DEFINE e == [dec EXCEPT !.held = {}]
<1>2. Drained = e
    BY DEF Drained
<1>3. /\ e.held = {} /\ e.refused = dec.refused /\ e.fmt = dec.fmt /\ e.pool = dec.pool
      /\ e.hidden = dec.hidden
    BY <1>1 DEF Decoders
<1>4. CASE backend = "nvdec"
  <2> DEFINE n == [e EXCEPT !.parser = TRUE, !.held = {}, !.primed = FALSE, !.hidden = None]
             r == NvFeed(dec, Result(e, Held, TRUE))
  <2>1. Flush = [r EXCEPT !.dec = NvNewParser(@)]
      BY <1>2, <1>4 DEF Flush
  <2>2. (dec.parser \/ dec.error) /\ (dec.error => fault)
      BY <1>4 DEF Knows
  <2>3. CASE dec.error
    <3> DEFINE x == [dec EXCEPT !.error = FALSE]
    <3>1. r = Result(x, <<>>, FALSE)
        BY <2>3 DEF NvFeed
    <3> HIDE DEF r, x
    <3>2. ~Flush.ok
        BY <2>1, <3>1 DEF Result
    <3> QED BY <2>2, <2>3, <3>2
  <2>4. CASE ~dec.error
    <3>1. r = Result(e, Held, dec.parser)
      <4> HIDE DEF e
      <4> QED BY <2>4 DEF NvFeed, Result
    <3> HIDE DEF r, e
    <3>2. Flush.ok = dec.parser /\ Flush.out = Held /\ Flush.dec = NvNewParser(e)
        BY <2>1, <3>1 DEF Result
    <3>3. NvNewParser(e) = n
        BY DEF NvNewParser
    <3>4. /\ n.held = {} /\ n.refused = dec.refused /\ n.fmt = dec.fmt /\ n.pool = dec.pool
          /\ n.hidden = None /\ n.parser /\ ~n.error
        BY <1>1, <2>4 DEF Decoders, e
    <3> HIDE DEF n
    <3>5. Flush.ok
        BY <2>2, <2>4, <3>2
    <3>6. Flush.dec = n
        BY <3>2, <3>3
    <3> QED BY <3>2, <3>4, <3>5, <3>6
  <2> QED BY <2>3, <2>4
<1>5. CASE backend # "nvdec"
  <2>1. Flush = Result(e, Held, TRUE)
    <3>1. VaTimes(Held, None) = Held
        BY DEF VaTimes
    <3> HIDE DEF e
    <3> QED BY <1>2, <1>5, <3>1 DEF Flush
  <2> HIDE DEF e
  <2>2. Flush.ok /\ Flush.dec = e /\ Flush.out = Held
      BY <2>1 DEF Result
  <2> QED BY <1>3, <1>5, <2>2
<1> QED BY <1>4, <1>5

\* The pictures that were held are the last of the pass.
LEMMA HeldIsLast ==
    ASSUME Inside, Fed(next) = All
    PROVE  /\ Cardinality(All) = Cardinality(Outs) + Len(Held)
           /\ \A i \in 1..Len(Held) : Held[i] = Times[Cardinality(Outs) + i]
           /\ Held = <<>> => Cardinality(dec.held) = 0
<1>1. /\ All \subseteq Nat /\ IsFiniteSet(All) /\ Times = InOrder(All) /\ Held = InOrder(dec.held)
    BY FedTypes DEF Inside, PlayInv, Held
<1>2. dec.held \subseteq All /\ dec.held \cap Outs = {} /\ Outs \cup dec.held = All
    BY DEF Inside, CourseInv, Outs
<1>3. Begins(Outs, All)
    BY DEF Inside, CourseInv
<1>4. Begins(All, All)
    BY DEF Begins
<1>5. Begins(Outs \cup dec.held, All)
    BY <1>2, <1>4
<1> DEFINE S == dec.held
<1>6. S \cap Outs = {} /\ Begins(Outs \cup S, All) /\ S \subseteq All
    BY <1>2, <1>5
<1> HIDE DEF S
<1>7. GoesOn(Outs, S, All)
    BY <1>1, <1>3, <1>6, Segment, Zenon
<1>8. IsFiniteSet(S) /\ S \subseteq Nat
    BY <1>1, <1>6, FS_Subset
<1>9. Cardinality(Outs \cup S) = Cardinality(Outs) + Cardinality(S)
  <2>1. IsFiniteSet(Outs) /\ Cardinality(Outs) \in Nat
      BY OutsTypes DEF Inside
  <2>2. Cardinality(Outs \cap S) = 0
      BY <1>6, FS_EmptySet
  <2>3. Cardinality(Outs \cup S)
        = Cardinality(Outs) + Cardinality(S) - Cardinality(Outs \cap S)
      BY <1>8, <2>1, FS_Union
  <2>4. Cardinality(S) \in Nat
      BY <1>8, FS_CardinalityType
  <2> QED BY <2>1, <2>2, <2>3, <2>4
<1>10. Len(InOrder(S)) = Cardinality(S)
    BY <1>8, InOrderSorts
<1>11. Held = InOrder(S) /\ Outs \cup S = All
    BY <1>1, <1>2 DEF S
<1>12. Held = <<>> => Cardinality(S) = 0
  <2>1. Len(<<>>) = 0
      OBVIOUS
  <2> QED BY <1>10, <1>11, <2>1
<1>13. \A i \in 1..Len(Held) : Held[i] = Times[Cardinality(Outs) + i]
    BY <1>1, <1>7, <1>10, <1>11 DEF GoesOn
<1> QED BY <1>9, <1>10, <1>11, <1>12, <1>13 DEF S

\* A run of damaged packets goes on to the end of the file.
LEMMA RefusalAtEnd ==
    ASSUME Inside, UNCHANGED given, \A i \in next + 1..Size : film.samples[i].kind = "skip",
           next' = Size, dec'.refused = dec.refused
    PROVE  RefusalInv'
<1>1. film' = film /\ looped' = looped /\ backend' = backend
    BY DEF given
<1>2. UNCHANGED Times /\ UNCHANGED Size
    BY SameFilm
<1>3. SUFFICES ASSUME backend = "openh264", ~(looped /\ Times = <<>>)
               PROVE  \E i \in 1..Size + 1 : RefusedRun(i)'
    BY <1>1, <1>2 DEF RefusalInv
<1>4. PICK i \in 1..Size + 1 : RefusedRun(i)
    BY <1>3 DEF Inside, RefusalInv
<1>5. Size \in Nat /\ next \in 0..Size /\ film \in Films /\ i \in Nat
    BY OutsTypes DEF Inside, PlayInv
<1>6. OnlyBad(i..next)' = OnlyBad(i..Size) /\ Bads(i..next)' = Bads(i..Size)
      /\ OnlyBad(1..next)' = OnlyBad(1..Size) /\ Bads(1..next)' = Bads(1..Size)
      /\ OnlyBad(i..Size)' = OnlyBad(i..Size) /\ Bads(i..Size)' = Bads(i..Size)
    BY <1>1, <1>2 DEF OnlyBad, Bads
<1>7. CASE i <= next + 1 /\ OnlyBad(i..next) /\ dec.refused <= Bads(i..next)
  <2>1. OnlyBad(i..Size) /\ Bads(i..Size) = Bads(i..next)
      BY <1>5, <1>7, BadsSkip
  <2>2. i <= next' + 1
      BY <1>5
  <2>3. RefusedRun(i)'
      BY <1>6, <1>7, <2>1, <2>2 DEF RefusedRun
  <2> QED BY <2>3
<1>8. CASE /\ looped /\ OnlyBad(i..Size) /\ OnlyBad(1..next)
           /\ dec.refused <= Bads(i..Size) + Bads(1..next)
  <2>1. 1 \in Nat /\ 1 <= next + 1
      BY <1>5
  <2>2. OnlyBad(1..Size) /\ Bads(1..Size) = Bads(1..next)
      BY <1>5, <1>8, <2>1, BadsSkip
  <2>3. RefusedRun(i)'
      BY <1>1, <1>6, <1>8, <2>2 DEF RefusedRun
  <2> QED BY <2>3
<1> QED BY <1>4, <1>7, <1>8 DEF RefusedRun

LEMMA EndOfFileStep ==
    ASSUME Inside, PlayInv', EndOfFile
    PROVE  (call' # "failed" => Inside') /\ [F!Next]_(F!vars)
<1>1. /\ call = "running" /\ UNCHANGED given /\ UNCHANGED <<offset, shown, last, fault>>
      /\ ready = <<>> /\ ~flushed /\ NextSample = None /\ next' = Size /\ tries' = tries + 1
      /\ Take(Flush) /\ flushed' = (call' # "failed")
    BY DEF EndOfFile, Turn, Size
<1>2. film' = film /\ looped' = looped /\ backend' = backend
    BY <1>1 DEF given
<1>3. film \in Films /\ next \in 0..Size /\ Sound(dec) /\ Knows(dec, next)
    BY <1>1 DEF Inside, PlayInv, EngineInv, Size
<1>4. \A i \in next + 1..Size : film.samples[i].kind = "skip"
    BY <1>1, <1>3, NextSampleIs
<1>5. CASE ~Flush.ok
  <2>1. call' = "failed" /\ fault
      BY <1>1, <1>3, <1>5, FlushIs DEF Take
  <2>2. Excuse'
      BY <1>1, <2>1 DEF Excuse
  <2> QED BY <1>1, <2>1, <2>2, Reported
<1>6. CASE Flush.ok
  <2>1. /\ dec' = Flush.dec /\ ready' = ready \o Held /\ call' = call /\ flushed' = TRUE
    <3>1. Flush.out = Held
        BY <1>3, <1>6, FlushIs
    <3>2. dec' = Flush.dec /\ ready' = ready \o Flush.out /\ call' = call
        BY <1>1, <1>6 DEF Take
    <3> QED BY <1>1, <3>1, <3>2
  <2>2. /\ dec'.held = {} /\ dec'.refused = dec.refused /\ dec'.fmt = dec.fmt
        /\ dec'.pool = dec.pool /\ dec'.hidden \in {None, dec.hidden}
        /\ backend = "nvdec" => dec'.parser /\ ~dec'.error
    <3> DEFINE f == Flush
    <3>1. /\ f.dec.held = {} /\ f.dec.refused = dec.refused /\ f.dec.fmt = dec.fmt
          /\ f.dec.pool = dec.pool /\ f.dec.hidden \in {None, dec.hidden}
          /\ backend = "nvdec" => f.dec.parser /\ ~f.dec.error
        BY <1>3, <1>6, FlushIs
    <3>2. dec' = f.dec
        BY <2>1
    <3> HIDE DEF f
    <3> QED BY <3>1, <3>2
  <2>3. ready' = Held /\ Len(Held) \in Nat
    <3>1. Held \in Seq(Stamps)
      <4>1. dec.held \subseteq Stamps /\ IsFiniteSet(dec.held)
          BY <1>3 DEF Sound, Decoders
      <4> QED BY <1>3, <4>1, SortedStamps DEF Held
    <3>2. \A S : \A s \in Seq(S) : <<>> \o s = s /\ Len(s) \in Nat
        OBVIOUS
    <3> QED BY <1>1, <2>1, <3>1, <3>2
  <2>4. UNCHANGED Times /\ UNCHANGED Size /\ UNCHANGED All /\ UNCHANGED PassLength
      BY <1>1, SameFilm
  <2>5. Fed(next) = All
      BY <1>3, <1>4, FedEnd
  <2>6. Fed(next)' = All /\ Outs' = All
    <3>1. Fed(next)' = All
        BY <1>1, <1>2, <2>4 DEF Fed, All, Shows, Pictures
    <3> QED BY <2>2, <3>1 DEF Outs
  <2>7. PICK q \in Nat, d \in Nat : Place(q, d) /\ Pace(q, d)
      BY DEF Inside, CourseInv
  <2>8. /\ Cardinality(Outs) \in Nat /\ Cardinality(dec.held) \in Nat /\ Cardinality(dec.held) <= Depth
        /\ Depth \in Nat /\ Quiet(next) \in Nat /\ Quiet(Size) \in Nat /\ tries \in Nat
      BY OutsTypes DEF Inside
  <2>9. d = Cardinality(Outs)
    <3>1. Len(ready) = 0
        BY <1>1
    <3> QED BY <2>7, <2>8, <3>1 DEF Place
  <2>10. /\ Cardinality(All) = Cardinality(Outs) + Len(Held)
         /\ \A i \in 1..Len(Held) : Held[i] = Times[Cardinality(Outs) + i]
         /\ Held = <<>> => Cardinality(dec.held) = 0
      BY <2>5, HeldIsLast
  <2>11. Place(q, d)'
    <3>1. d + Len(ready)' = Cardinality(Outs)'
        BY <2>3, <2>6, <2>9, <2>10
    <3>2. \A i \in 1..Len(ready)' : ready'[i] = Times'[d + i]
        BY <2>3, <2>4, <2>9, <2>10
    <3>3. offset = q * PassLength /\ shown = q * Len(Times) + d /\ (q > 0 => looped)
        BY <2>7 DEF Place
    <3> QED BY <1>1, <1>2, <2>4, <3>1, <3>2, <3>3 DEF Place
  <2>12. Pace(q, d)'
    <3> DEFINE R == IF q > 0 /\ d = 0 THEN Quiet(Size) + Depth + 2 ELSE 0
    <3>1. R \in Nat
        BY <2>8
    <3>2. Quiet(next)' = Quiet(next) /\ Quiet(Size)' = Quiet(Size)
      <4>1. Quiet(Size) = Quiet(next)
          BY <1>3, <1>4, QuietEnd
      <4>2. Quiet(next)' = Quiet(Size) /\ Quiet(Size)' = Quiet(Size)
          BY <1>1, <1>2, <2>4 DEF Quiet
      <4> QED BY <4>1, <4>2
    <3>3. Cardinality(dec.held)' = 0
        BY <2>2, FS_EmptySet
    <3>4. SUFFICES ASSUME ~(looped' /\ Times' = <<>>)
          PROVE  tries' <= Quiet(next) + (IF Held # <<>> THEN Depth + 1 ELSE 0 + 1) + R
      <4>1. R' = R
          BY <3>2 DEF R
      <4>2. (IF flushed' THEN 1 ELSE 0) = 1
          BY <2>1
      <4> HIDE DEF R
      <4> QED BY <2>3, <3>2, <3>3, <4>1, <4>2 DEF Pace, R
    <3>5. tries <= Quiet(next) + (Cardinality(dec.held) + 0) + R
      <4>1. ~(looped /\ Times = <<>>)
          BY <1>2, <2>4, <3>4
      <4>2. ~(ready # <<>>) /\ ~flushed
          BY <1>1
      <4> QED BY <1>1, <2>7, <4>1, <4>2 DEF Pace
    <3> HIDE DEF R
    <3>6. tries' = tries + 1
        BY <1>1
    <3>7. CASE Held # <<>>
        BY <2>8, <3>1, <3>5, <3>6, <3>7
    <3>8. CASE Held = <<>>
      <4>1. Cardinality(dec.held) = 0
          BY <2>10, <3>8
      <4> QED BY <2>8, <3>1, <3>5, <3>6, <3>8, <4>1
    <3> QED BY <3>7, <3>8
  <2>13. (\E a, b \in Nat : Place(a, b) /\ Pace(a, b))'
      BY <2>11, <2>12
  <2>14. CourseInv'
    <3>1. Begins(Outs, All)'
        BY <2>4, <2>6 DEF Begins
    <3>2. dec'.held \subseteq Fed(next)' /\ next' = Size'
        BY <1>1, <2>2, <2>4
    <3> QED BY <2>2, <2>13, <3>1, <3>2 DEF CourseInv
  <2>15. EngineInv'
    <3>1. film.codec \in Reordering => dec'.hidden = None
        BY <1>3, <2>2 DEF Knows, Learnt
    <3>2. Learnt(dec, 0, dec.fmt)'
      <4>1. 1..0 = {}
          OBVIOUS
      <4> QED BY <1>2, <2>2, <3>1, <4>1 DEF Learnt
    <3>3. Knows(dec, 0)'
        BY <1>2, <1>3, <2>2, <3>2 DEF Knows
    <3> QED BY <2>1, <3>3 DEF EngineInv, Knows, Learnt
  <2>16. RefusalInv'
      BY <1>1, <1>4, <2>2, RefusalAtEnd
  <2>17. UNCHANGED <<shown, last, StateOf>>
      BY <1>1, <2>1 DEF StateOf
  <2>18. [F!Next]_(F!vars)
      BY <1>1, <2>17, Unseen
  <2> QED BY <2>14, <2>15, <2>16, <2>18 DEF Inside
<1> QED BY <1>5, <1>6

----------------------------------------------------------------------------
LEMMA ImplInvInit ==
    ASSUME Init
    PROVE  ImplInv /\ F!Init
<1>1. PlayInv
    BY PlayInvInit
<1>2. /\ next = 0 /\ ready = <<>> /\ ~flushed /\ offset = 0 /\ shown = 0 /\ call = "idle"
      /\ last = None /\ fault = FALSE
      /\ dec.held = {} /\ dec.hidden = None /\ dec.fmt = None /\ dec.refused = 0
      /\ dec.parser /\ ~dec.error
    BY DEF Init, NewDecoder
<1>3. film \in Films /\ Size \in Nat /\ 1..0 = {} /\ Fed(0) = {}
    BY <1>1, FedTypes, NothingFed DEF PlayInv
<1>4. Outs = {}
    BY <1>2, <1>3 DEF Outs
<1>5. Place(0, 0)
  <2>1. 0 * PassLength = 0 /\ 0 * Len(Times) + 0 = 0
    <3>1. film.duration \in Nat \cup {None}
        BY <1>3, PlaybackAssumption
    <3>2. PassLength \in Nat /\ Len(Times) \in Nat
        BY <1>3, <3>1, FedTypes DEF PassLength
    <3>3. \A x \in Nat : 0 * x = 0
        OBVIOUS
    <3> QED BY <3>2, <3>3
  <2>2. Len(ready) = 0 /\ 1..Len(ready) = {}
      BY <1>2
  <2>3. 0 + Len(ready) = Cardinality(Outs)
      BY <1>4, <2>2, FS_EmptySet
  <2> QED BY <1>2, <2>1, <2>2, <2>3 DEF Place
<1>6. Pace(0, 0)
    BY <1>2 DEF Pace
<1>7. CourseInv
  <2>1. \E q, d \in Nat : Place(q, d) /\ Pace(q, d)
      BY <1>5, <1>6
  <2>2. Begins(Outs, All)
      BY <1>4 DEF Begins
  <2> QED BY <1>2, <2>1, <2>2 DEF CourseInv
<1>8. EngineInv
  <2>1. Learnt(dec, 0, dec.fmt)
      BY <1>2, <1>3 DEF Learnt
  <2>2. Knows(dec, 0)
      BY <1>2, <2>1 DEF Knows
  <2> QED BY <1>2, <2>2 DEF EngineInv
<1>9. RefusalInv
  <2>1. OnlyBad(1..0)
      BY <1>3 DEF OnlyBad
  <2>2. {x \in {} : film.samples[x].kind = "bad"} = {}
      OBVIOUS
  <2>3. Bads(1..0) = 0
      BY <1>3, <2>2, FS_EmptySet DEF Bads
  <2>4. RefusedRun(1)
      BY <1>2, <2>1, <2>3 DEF RefusedRun
  <2>5. 1 \in 1..Size + 1
      BY <1>3
  <2> QED BY <2>4, <2>5 DEF RefusalInv
<1>10. F!Init
  <2>1. StateOf = "playing"
      BY <1>2 DEF StateOf
  <2>2. Excuse \in BOOLEAN
      BY <1>2 DEF Excuse, HasBad, BadRun
  <2> QED BY <1>2, <2>1, <2>2 DEF F!Init
<1> QED BY <1>1, <1>7, <1>8, <1>9, <1>10 DEF ImplInv

LEMMA ImplInvNext ==
    ASSUME \A f \in Films : WellMade(f), ImplInv, [Next]_vars
    PROVE  ImplInv' /\ [F!Next]_(F!vars)
<1>1. PlayInv /\ PlayInv' /\ WellMade(film)
    BY PlayInvNext DEF ImplInv, PlayInv
<1>2. call # "failed" => Inside
    BY DEF ImplInv, Inside
<1>3. Inside' => ImplInv'
    BY DEF ImplInv, Inside
<1>4. CASE UNCHANGED vars
  <2>1. UNCHANGED given /\ UNCHANGED <<next, dec, ready, flushed, offset, shown, call, tries, fault, last>>
      BY <1>4 DEF vars, given
  <2>2. call # "failed" => Inside'
      BY <1>1, <1>2, <2>1, SamePlace
  <2>3. UNCHANGED StateOf
      BY <2>1 DEF StateOf
  <2>4. ImplInv'
      BY <1>1, <1>3, <2>1, <2>2 DEF ImplInv
  <2> QED BY <2>1, <2>3, <2>4, Unseen
<1>5. CASE Call
    BY <1>1, <1>2, <1>3, <1>5, CallStep DEF Call
<1>6. CASE Deliver
  <2>1. call # "failed"
      BY <1>6 DEF Deliver, Turn
  <2> QED BY <1>1, <1>2, <1>3, <1>6, <2>1, DeliverStep
<1>7. CASE Finish
  <2>1. call # "failed"
      BY <1>7 DEF Finish, Turn
  <2> QED BY <1>1, <1>2, <1>3, <1>7, <2>1, FinishStep
<1>8. CASE Rewind
  <2>1. call # "failed"
      BY <1>8 DEF Rewind, Turn
  <2> QED BY <1>1, <1>2, <1>3, <1>8, <2>1, RewindStep
<1>9. CASE Feed
  <2>1. call # "failed"
      BY <1>9 DEF Feed, Turn
  <2>2. (call' # "failed" => Inside') /\ [F!Next]_(F!vars)
      BY <1>1, <1>2, <1>9, <2>1, FeedStep
  <2>3. ImplInv'
      BY <1>1, <1>3, <2>2 DEF ImplInv
  <2> QED BY <2>2, <2>3
<1>10. CASE EndOfFile
  <2>1. call # "failed"
      BY <1>10 DEF EndOfFile, Turn
  <2>2. (call' # "failed" => Inside') /\ [F!Next]_(F!vars)
      BY <1>1, <1>2, <1>10, <2>1, EndOfFileStep
  <2>3. ImplInv'
      BY <1>1, <1>3, <2>2 DEF ImplInv
  <2> QED BY <2>2, <2>3
<1>11. CASE Breaks
  <2>1. call # "failed" /\ call' = "failed"
      BY <1>11 DEF Breaks, Turn
  <2> QED BY <1>1, <1>2, <1>11, <2>1, BreaksStep DEF ImplInv
<1>12. CASE GiveUp
  <2>1. call # "failed" /\ call' = "failed"
      BY <1>12 DEF GiveUp
  <2> QED BY <1>1, <1>2, <1>12, <2>1, GiveUpStep DEF ImplInv
<1> QED BY <1>4, <1>5, <1>6, <1>7, <1>8, <1>9, <1>10, <1>11, <1>12 DEF Next, Step

(* Of every well-made file, whatever is damaged in it, of whatever length   *)
(* and with whatever decoder, the caller of next_frame gets each picture    *)
(* that can be decoded exactly once per pass, in display order and at its   *)
(* time plus the length of the passes before, the end only after the last   *)
(* one, and an error only when a call failed, a decoder met damage it does  *)
(* not skip, or a looped file shows nothing at all; the turns of the loop   *)
(* are never used up otherwise.                                             *)
THEOREM ImplementsFilmCorrect ==
    ASSUME \A f \in Films : WellMade(f)
    PROVE  Spec => ImplementsFilm
<1>1. Init => ImplInv /\ F!Init
    BY ImplInvInit
<1>2. ImplInv /\ [Next]_vars => ImplInv' /\ [F!Next]_(F!vars)
    BY ImplInvNext
<1> QED BY <1>1, <1>2, PTL DEF Spec, ImplementsFilm, F!Spec
=============================================================================
