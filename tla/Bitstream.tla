----------------------------- MODULE Bitstream -----------------------------
(***************************************************************************)
(* What an H.264 or HEVC decoder is fed: the parameter sets from avcC or   *)
(* hvcC and the NAL units of a sample, from the container's "length + NAL" *)
(* to Annex B (src/media/video/bitstream.rs), with the SPS level lowered   *)
(* for openh264 (decode/h264.rs).  Bytes are 0..255; a payload keeps only  *)
(* the bytes that matter.                                                  *)
(***************************************************************************)
EXTENDS Naturals, Sequences, SequencesExt

CONSTANTS
    Nals,           \* payloads of NAL units
    ParameterSets,  \* payloads of parameter sets
    SampleNals,     \* bound: NAL units in a sample
    Unparsed,       \* the file has not been opened
    NoBytes         \* None

Byte == 0..255

(* A writer keeps the start code out of a NAL unit (emulation prevention,  *)
(* ISO/IEC 14496-10, 7.4.1).                                               *)
NoStartCode(nal) == \A i \in 3..Len(nal) : SubSeq(nal, i - 2, i) # <<0, 0, 1>>

(* n after k bytes have been shifted out; a length fits in a field of size *)
(* bytes if that leaves nothing.                                           *)
Shifted(n, k) == LET s[i \in 0..k] == IF i = 0 THEN n ELSE s[i - 1] \div 256 IN s[k]
Fits(nal, size) == Shifted(Len(nal), size) = 0

ASSUME BitstreamAssumption ==
    /\ Nals \cup ParameterSets \subseteq Seq(Byte)
    /\ \A nal \in Nals \cup ParameterSets : NoStartCode(nal)
    /\ \A set \in ParameterSets : Fits(set, 2)
    /\ SampleNals \in Nat
    /\ {Unparsed, NoBytes} \cap (Nat \cup Seq(Byte)) = {}
    /\ {Unparsed, NoBytes} \cap [length : 1..4, sets : Seq(Seq(Byte))] = {}
    /\ Unparsed # NoBytes

VARIABLES
    codecOf,    \* "h264" or "hevc"
    sets,       \* the parameter sets the file was written with
    lengthSize, \* bytes of a length
    cfg,        \* NalConfig: [length, sets], Unparsed, or None
    units,      \* the NAL units the last sample was written with
    cut,        \* bytes missing at its end
    keyframe,
    data        \* what came out of to_annexb, or None

bitstreamVars == <<codecOf, sets, lengthSize, cfg, units, cut, keyframe, data>>

-----------------------------------------------------------------------------
(* External: how a file stores them (ISO/IEC 14496-15). *)

BigEndian(n, size) == [i \in 1..size |-> Shifted(n, size - i) % 256]
Stored(nal, size) == BigEndian(Len(nal), size) \o nal
StoredAll(nals, size) == FlattenSeq([i \in DOMAIN nals |-> Stored(nals[i], size)])
Zeros(n) == [i \in 1..n |-> 0]

AvcC(sps, pps, size) == <<1>> \o Zeros(3) \o <<252 + size - 1, 224 + Len(sps)>>
                        \o StoredAll(sps, 2) \o <<Len(pps)>> \o StoredAll(pps, 2)
HvcC(all, size) == <<1>> \o Zeros(20) \o <<12 + size - 1, Len(all)>>
                   \o FlattenSeq([i \in DOMAIN all |-> <<32>> \o BigEndian(1, 2)
                                                       \o Stored(all[i], 2)])

-----------------------------------------------------------------------------
(* Reader: [pos, got]; None once a read went past the end. *)

Value(bytes) == LET v[i \in 0..Len(bytes)] == IF i = 0 THEN 0 ELSE v[i - 1] * 256 + bytes[i]
                IN v[Len(bytes)]

(* n bytes from pos, which counts the bytes read *)
Bytes(buf, pos, n) == IF pos + n <= Len(buf) THEN SubSeq(buf, pos + 1, pos + n) ELSE NoBytes

(* `bytes(u16)': a payload with its length in front *)
Prefixed(buf, pos, size) ==
    LET len == Bytes(buf, pos, size)
    IN IF len = NoBytes THEN [pos |-> NoBytes, got |-> NoBytes]
       ELSE LET got == Bytes(buf, pos + size, Value(len))
            IN [pos |-> IF got = NoBytes THEN NoBytes ELSE pos + size + Value(len), got |-> got]

(* count payloads from pos, each after a header of skip bytes *)
Several(buf, start, count, skip) ==
    LET r[i \in 0..count] ==
          IF i = 0 THEN [pos |-> start, sets |-> <<>>]
          ELSE IF r[i - 1].pos = NoBytes \/ r[i - 1].pos + skip > Len(buf)
          THEN [pos |-> NoBytes, sets |-> <<>>]
          ELSE LET p == Prefixed(buf, r[i - 1].pos + skip, 2)
               IN [pos |-> p.pos, sets |-> Append(r[i - 1].sets, p.got)]
    IN r[count]

Config(bytes, list) == IF list.pos = NoBytes \/ bytes = 3 THEN NoBytes
                       ELSE [length |-> bytes, sets |-> list.sets]

ParseAvcc(raw) ==
    IF Len(raw) < 6 \/ raw[1] # 1 THEN NoBytes
    ELSE LET sps == Several(raw, 6, raw[6] % 32, 0)
         IN IF sps.pos = NoBytes \/ sps.pos >= Len(raw) THEN NoBytes
            ELSE LET pps == Several(raw, sps.pos + 1, raw[sps.pos + 1], 0)
                 IN Config((raw[5] % 4) + 1, [pps EXCEPT !.sets = sps.sets \o @])

(* hvcC has arrays of sets; a set here is an array of its own. *)
ParseHvcc(raw) ==
    IF Len(raw) < 23 \/ raw[1] # 1 THEN NoBytes
    ELSE Config((raw[22] % 4) + 1, Several(raw, 23, raw[23], 3))

StartCode == <<0, 0, 0, 1>>
Framed(nal) == StartCode \o nal
AnnexB(nals) == FlattenSeq([i \in DOMAIN nals |-> Framed(nals[i])])

\* Variant: an empty NAL unit ends the sample.
StopsAtEmpty(sample, size, r) ==
    LET p == Prefixed(sample, r.pos, size)
    IN IF r.pos \in {NoBytes, Len(sample)} THEN r
       ELSE IF p.pos = NoBytes THEN [pos |-> NoBytes, out |-> r.out]
       ELSE IF p.got = <<>> THEN [pos |-> Len(sample), out |-> r.out]
       ELSE [pos |-> p.pos, out |-> r.out \o Framed(p.got)]

(* A turn of the loop of to_annexb: an empty NAL unit is left out; a length *)
(* past the end breaks the sample.                                          *)
Turn(sample, size, r) ==
    LET p == Prefixed(sample, r.pos, size)
    IN IF r.pos \in {NoBytes, Len(sample)} THEN r
       ELSE IF p.pos = NoBytes THEN [pos |-> NoBytes, out |-> r.out]
       ELSE [pos |-> p.pos, out |-> IF p.got = <<>> THEN r.out ELSE r.out \o Framed(p.got)]

(* A turn takes a byte at least. *)
ToAnnexB(sample, c, key) ==
    LET r[i \in 0..Len(sample)] ==
          IF i = 0 THEN [pos |-> 0, out |-> IF key THEN AnnexB(c.sets) ELSE <<>>]
          ELSE Turn(sample, c.length, r[i - 1])
        end == r[Len(sample)]
    IN IF end.pos = NoBytes THEN NoBytes ELSE end.out

MaxLevel == 52

(* clamp_sps_level: byte i is the level of an SPS after a start code.  The *)
(* scan goes on behind the start code.                                     *)
IsLevel(d, i) == /\ i > 6 /\ SubSeq(d, i - 6, i - 4) = <<0, 0, 1>>
                 /\ d[i - 3] % 32 = 7 /\ d[i] > MaxLevel
ClampSpsLevel(d) == [i \in DOMAIN d |-> IF IsLevel(d, i) THEN MaxLevel ELSE d[i]]

-----------------------------------------------------------------------------
BitstreamInit ==
    /\ codecOf \in {"h264", "hevc"}
    /\ sets \in ParameterSets \X ParameterSets
    /\ lengthSize \in {1, 2, 3, 4}
    /\ cfg = Unparsed /\ units = <<>> /\ cut = 0 /\ keyframe = FALSE /\ data = NoBytes

(* Framing::for_codec *)
OpenTrack ==
    /\ cfg = Unparsed
    /\ cfg' = IF codecOf = "h264"
              THEN ParseAvcc(AvcC(<<sets[1]>>, <<sets[2]>>, lengthSize))
              ELSE ParseHvcc(HvcC(sets, lengthSize))
    /\ UNCHANGED <<codecOf, sets, lengthSize, units, cut, keyframe, data>>

(* Framing::packet, then openh264's own copy of a keyframe *)
NextUnits ==
    /\ cfg \notin {Unparsed, NoBytes} /\ units = <<>>
    /\ units' \in SeqOf(Nals, SampleNals) \ {<<>>} /\ keyframe' \in BOOLEAN /\ cut' \in {0, 1}
    /\ \A i \in DOMAIN units' : Fits(units'[i], lengthSize)
    /\ \E stored \in {StoredAll(units', lengthSize)} :
       \E annexb \in {ToAnnexB(SubSeq(stored, 1, Len(stored) - cut'), cfg, keyframe')} :
          data' = IF annexb = NoBytes \/ codecOf # "h264" \/ ~keyframe' THEN annexb
                  ELSE ClampSpsLevel(annexb)
    /\ UNCHANGED <<codecOf, sets, lengthSize, cfg>>

BitstreamNext == OpenTrack \/ NextUnits
BitstreamSpec == BitstreamInit /\ [][BitstreamNext]_bitstreamVars

-----------------------------------------------------------------------------
Lowered(nal) ==
    IF codecOf = "h264" /\ keyframe /\ Len(nal) >= 4 /\ nal[1] % 32 = 7 /\ nal[4] > 52
    THEN [nal EXCEPT ![4] = 52] ELSE nal

(* "Decoders expect Annex-B ... with parameter sets in-stream before each   *)
(* keyframe" (bitstream.rs:5), "the sample is broken (a length runs past    *)
(* the end); drop that frame" (bitstream.rs:98): whatever lengths and NAL   *)
(* units a file holds, the decoder gets exactly the sets it was written     *)
(* with and every NAL unit of the sample in order, nothing else changed but *)
(* an SPS level above 5.2 in a keyframe for openh264, and nothing of a      *)
(* damaged sample.                                                          *)
NalsKept ==
    /\ cfg \notin {Unparsed, NoBytes} => cfg = [length |-> lengthSize, sets |-> sets]
    /\ cfg = NoBytes => lengthSize = 3
    /\ data # NoBytes =>
         data = (IF keyframe THEN AnnexB([i \in DOMAIN sets |-> Lowered(sets[i])]) ELSE <<>>)
                \o FlattenSeq([i \in DOMAIN units |->
                                 IF units[i] = <<>> THEN <<>> ELSE Framed(Lowered(units[i]))])
    /\ cut = 0 /\ units # <<>> => data # NoBytes
=============================================================================
