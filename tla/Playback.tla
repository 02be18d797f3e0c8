------------------------------ MODULE Playback ------------------------------
(***************************************************************************)
(* The video pipeline behind the decode thread: Pipeline::next_frame       *)
(* (src/media/video/pipeline.rs) with the demuxers (demux.rs) and the five *)
(* decoders (decode/*.rs and vaapi-helper/src/lib.rs).  One action is one  *)
(* turn of next_frame's loop.                                              *)
(*                                                                         *)
(* External: the engines the decoders wrap (openh264, libvpx, rav1d, the   *)
(* NVIDIA parser, cros-codecs), see Engine.  A sample is abstracted to     *)
(* what they tell apart:                                                   *)
(*   pts   when its picture is shown                                       *)
(*   key   whether the container says it is a keyframe: "yes", "no", or    *)
(*         "unknown" (a Matroska block that is not a SimpleBlock)          *)
(*   size  the coded format of its pictures                                *)
(*   kind  "pic" a picture; "hidden" one that is only shown by a later     *)
(*         "again" sample; "bad" damaged data; "skip" a sample the demuxer *)
(*         never hands out (no data, too large, truncated NAL units,       *)
(*         another track, invisible)                                       *)
(*                                                                         *)
(* A picture that comes out is handed on.  The wrappers drop one that      *)
(* to_bgra refuses (nvdec.rs:783, vaapi.rs:201, h264.rs:404, vpx.rs:219,   *)
(* av1.rs:66); by Planes!ReadsInside it refuses NVDEC's odd widths only,   *)
(* and then every picture of the file.                                     *)
(***************************************************************************)
EXTENDS Integers, Sequences, FiniteSets, SequencesExt, FiniteSetsExt

CONSTANTS
    Films,          \* [container, codec, duration, chroma, samples]
    Depth,          \* pictures an H.264 or HEVC engine holds back to reorder
    MaxRefused,     \* refused packets in a row before openh264 gives up
    GuardLimit,     \* turns of next_frame's loop in one call
    Headroom,       \* VA-API frames in the pool above the stream's minimum
    MaxShown,       \* bound: pictures returned
    None

ASSUME PlaybackAssumption ==
    /\ {Depth, MaxRefused, GuardLimit, Headroom, MaxShown} \subseteq Nat
    /\ MaxRefused > 0 /\ Headroom > 0
    /\ None \notin Nat
    /\ None \notin [pts : Nat, size : Nat, kind : {"pic", "hidden", "again", "bad"},
                     keyframe : BOOLEAN, sets : BOOLEAN]
    /\ \A f \in Films :
        /\ f.codec \in {"h264", "hevc", "vp8", "vp9", "av1"}
        /\ f.duration \in Nat \cup {None}
        /\ f.samples \in Seq([pts : Nat, size : Nat, key : {"yes", "no", "unknown"},
                              kind : {"pic", "hidden", "again", "bad", "skip"}])
Reordering == {"h264", "hevc"}
Engines(codec) == CASE codec = "h264" -> {"openh264", "nvdec", "vaapi"}
                    [] codec = "hevc" -> {"nvdec", "vaapi"}
                    [] codec \in {"vp8", "vp9"} -> {"libvpx", "nvdec", "vaapi"}
                    [] codec = "av1" -> {"rav1d", "nvdec", "vaapi"}

VARIABLES
    film, looped, backend,      \* what plays, and with which decoder
    next,       \* samples taken from the file in this pass
    packet,     \* the packet the decoder got last in this pass, or None
    dec,        \* the decoder
    ready,      \* Pipeline::ready: the times of the decoded frames
    flushed,    \* Pipeline::flushed
    offset,     \* Pipeline::loop_offset
    tries,      \* turns of the loop in this call
    call,       \* "idle", "running", "ended" or "failed"
    shown,      \* frames returned so far
    last,       \* the time of the last one
    fault       \* a read, a seek or a driver call has failed

vars == <<film, looped, backend, next, packet, dec, ready, flushed, offset, tries, call,
          shown, last, fault>>
given == <<film, looped, backend>>

-----------------------------------------------------------------------------
(* Demuxers *)

IsKey(s) == s.key = "yes"       \* is_sync; is_keyframe.unwrap_or(false)

(* The sample next_packet returns, None at the end of the file: the skipped *)
(* ones are passed over in the same call.                                   *)
NextSample ==
    LET left == {i \in next + 1..Len(film.samples) : film.samples[i].kind # "skip"}
    IN IF left = {} THEN None ELSE Min(left)

(* Framing::packet: parameter sets go in front of what the container calls *)
(* a keyframe; codecs without NAL framing carry their own headers.         *)
Packet(s) == [pts |-> s.pts, size |-> s.size, kind |-> s.kind, keyframe |-> IsKey(s),
              sets |-> film.codec \notin Reordering \/ IsKey(s)]

-----------------------------------------------------------------------------
(* Decoders.  A result is [dec, out, ok]: the decoder afterwards, the times *)
(* of the frames that came out, and whether the call returned Ok.           *)

Result(d, out, ok) == [dec |-> d, out |-> out, ok |-> ok]

\* SetToSortSeq(S, <), by rank
InOrder(S) == [k \in 1..Cardinality(S) |->
                  CHOOSE x \in S : Cardinality({y \in S : y < x}) = k - 1]

NewDecoder ==
    [held |-> {},           \* pictures decoded and not yet out (engine)
     hidden |-> None,       \* the hidden picture kept for "again" (engine)
     primed |-> FALSE,      \* the parameter sets are known (engine)
     refused |-> 0,         \* openh264: refused
     fmt |-> None,          \* NVDEC: fmt of the decoder; VA-API: the format negotiated
     pool |-> 0,            \* VA-API: frames in the pool
     parser |-> TRUE,       \* NVDEC: there is a parser
     error |-> FALSE]       \* NVDEC: state.error

(* External: what an engine makes of one packet.  Pictures come out in      *)
(* display order once Depth are held, at once for a codec that does not     *)
(* reorder; a new format first brings out what was held.  A picture is      *)
(* named by the time of the packet it was decoded in.                       *)
Engine(d, p) ==
    LET seen == [d EXCEPT !.primed = @ \/ p.sets]
        old  == IF d.fmt \notin {None, p.size} THEN d.held ELSE {}
        held == (d.held \ old) \cup {p.pts}
    IN IF p.kind = "bad" \/ ~seen.primed THEN Result(seen, <<>>, FALSE) ELSE
       CASE p.kind = "hidden" -> Result([seen EXCEPT !.hidden = p.pts], <<>>, TRUE)
         [] p.kind = "again" -> IF d.hidden = None THEN Result(seen, <<>>, FALSE)
                                ELSE Result(seen, <<d.hidden>>, TRUE)
         [] p.kind = "pic" /\ film.codec \notin Reordering -> Result(seen, <<p.pts>>, TRUE)
         [] OTHER ->
              LET first == IF Cardinality(held) > Depth THEN {Min(held)} ELSE {}
              IN Result([seen EXCEPT !.held = held \ first], InOrder(old) \o InOrder(first), TRUE)

(* External: every engine but cros-codecs stamps a picture it shows again  *)
(* with the time of the packet that shows it.                              *)
Stamped(r, p) == [r EXCEPT !.out = IF film.codec \in Reordering THEN @
                                   ELSE [i \in DOMAIN @ |-> p.pts]]

\* Variant: one refusal more.
RefusesLate(d, p) ==
    LET r == Engine(d, p)
        refused == IF r.out = <<>> /\ ~r.ok THEN d.refused + 1 ELSE 0
    IN Result([r.dec EXCEPT !.refused = refused], r.out, refused <= MaxRefused)

OpenH264Decode(d, p) ==
    LET r == Engine(d, p)
        refused == IF r.out = <<>> /\ ~r.ok THEN d.refused + 1 ELSE 0
    IN Result([r.dec EXCEPT !.refused = refused], r.out, refused < MaxRefused)

(* A broken frame is skipped: `if r == 0 { drain }', Ok either way. *)
VpxDecode(d, p) == [Stamped(Engine(d, p), p) EXCEPT !.ok = TRUE]

(* send_data and drain until the packet is consumed; an error is returned. *)
Rav1dDecode(d, p) == Stamped(Engine(d, p), p)

(* NVDEC: cuvidParseVideoData calls on_sequence, on_decode and on_display. *)
(* sequence keeps the decoder when the format is the same, and otherwise   *)
(* needs a chroma it can convert and replaces the decoder.                 *)
NvSequence(d, p) ==
    IF d.fmt = p.size THEN d
    ELSE IF film.chroma # "420" THEN [d EXCEPT !.error = TRUE]
    ELSE [d EXCEPT !.fmt = p.size]

(* feed: the callbacks' error comes first, then parse's own result. *)
NvFeed(d, r) ==
    IF d.error THEN Result([d EXCEPT !.error = FALSE], <<>>, FALSE)
    ELSE Result(r.dec, r.out, d.parser)

NvDecode(d, p) ==
    LET r  == Engine(d, p)
        sq == IF p.kind = "bad" \/ ~r.dec.primed \/ ~d.parser THEN d ELSE NvSequence(d, p)
    IN NvFeed([sq EXCEPT !.parser = d.parser],
              Stamped([r EXCEPT !.dec.fmt = sq.fmt], p))

NvNewParser(d) == [d EXCEPT !.parser = TRUE, !.held = {}, !.primed = FALSE, !.hidden = None]

(* VA-API: Dec::decode.  A new format is an event that drain answers by    *)
(* resizing the pool; a packet that finds no free frame gets no further    *)
(* event, so four stalls end in an error.                                  *)
MinFrames == Depth + 1          \* external: min_num_frames of the stream

VaNegotiate(d, p) == IF d.fmt = p.size THEN d ELSE [d EXCEPT !.pool = MinFrames + Headroom]

\* Variant: always the handle's time.
HandleTimes(out, p) == out

(* drain: AV1 and VP9 frames get the time of the packet showing them. *)
VaTimes(out, p) == IF p # None /\ film.codec \notin Reordering
                   THEN [i \in DOMAIN out |-> p.pts] ELSE out

VaDecode(d, p) ==
    LET r    == Engine(d, p)
        neg  == IF r.ok THEN VaNegotiate(d, p) ELSE d
        busy == Cardinality(r.dec.held) + (IF r.dec.hidden = None THEN 0 ELSE 1)
    IN Result([r.dec EXCEPT !.fmt = IF r.ok THEN p.size ELSE @, !.pool = neg.pool],
              VaTimes(r.out, p), r.ok /\ busy < neg.pool)

Decode(p) ==
    CASE backend = "openh264" -> OpenH264Decode(dec, p)
      [] backend = "libvpx"   -> VpxDecode(dec, p)
      [] backend = "rav1d"    -> Rav1dDecode(dec, p)
      [] backend = "nvdec"    -> NvDecode(dec, p)
      [] backend = "vaapi"    -> VaDecode(dec, p)

(* Everything still held comes out.  NVDEC also needs a new parser, whose  *)
(* creation may fail; VA-API goes by the handles' own times.               *)
Held == InOrder(dec.held)
Drained == [dec EXCEPT !.held = {}]
Flush == CASE backend = "nvdec" -> LET r == NvFeed(dec, Result(Drained, Held, TRUE))
                                   IN [r EXCEPT !.dec = NvNewParser(@)]
           [] backend = "vaapi" -> Result(Drained, VaTimes(Held, None), TRUE)
           [] OTHER             -> Result(Drained, Held, TRUE)

(* reset drops what is held; only NVDEC's can fail, and it keeps the error *)
(* for the next call.                                                      *)
Reset == IF backend = "nvdec" THEN [NvNewParser(dec) EXCEPT !.error = FALSE] ELSE Drained
ResetFails == [Reset EXCEPT !.parser = FALSE, !.error = TRUE]

-----------------------------------------------------------------------------
(* Pipeline *)

Init ==
    /\ film \in Films /\ looped \in BOOLEAN /\ backend \in Engines(film.codec)
    /\ next = 0 /\ packet = None /\ dec = NewDecoder /\ ready = <<>> /\ flushed = FALSE
    /\ offset = 0 /\ tries = 0 /\ call = "idle"
    /\ shown = 0 /\ last = None /\ fault = FALSE

(* The decode thread asks for a frame; after the end or an error it never  *)
(* does again.                                                             *)
Call ==
    /\ call = "idle" /\ shown < MaxShown
    /\ call' = "running" /\ tries' = 0
    /\ UNCHANGED <<given, next, packet, dec, ready, flushed, offset, shown, last, fault>>

Turn == call = "running" /\ tries < GuardLimit

Deliver ==
    /\ Turn /\ ready # <<>>
    /\ ready' = Tail(ready) /\ last' = Head(ready) + offset /\ shown' = shown + 1
    /\ call' = "idle"
    /\ UNCHANGED <<given, next, packet, dec, flushed, offset, tries, fault>>

Finish ==
    /\ Turn /\ ready = <<>> /\ flushed /\ ~looped
    /\ call' = "ended"
    /\ UNCHANGED <<given, next, packet, dec, ready, flushed, offset, tries, shown, last, fault>>

PassLength == IF film.duration = None THEN 0 ELSE film.duration

Rewind ==
    /\ Turn /\ ready = <<>> /\ flushed /\ looped
    /\ offset' = offset + PassLength
    /\ next' = 0 /\ packet' = None /\ flushed' = FALSE /\ tries' = tries + 1
    /\ \/ dec' = Reset /\ UNCHANGED fault
       \/ backend = "nvdec" /\ ~fault /\ dec' = ResetFails /\ fault' = TRUE
    /\ UNCHANGED <<given, ready, call, shown, last>>

(* The outcome of a decoder call: `?' leaves next_frame with its error. *)
Take(r) ==
    /\ dec' = r.dec
    /\ IF r.ok THEN ready' = ready \o r.out /\ UNCHANGED call
               ELSE call' = "failed" /\ UNCHANGED ready

Feed ==
    /\ Turn /\ ready = <<>> /\ ~flushed /\ NextSample # None
    /\ next' = NextSample /\ packet' = Packet(film.samples[NextSample])
    /\ Take(Decode(packet'))
    /\ tries' = tries + 1
    /\ UNCHANGED <<given, flushed, offset, shown, last, fault>>

EndOfFile ==
    /\ Turn /\ ready = <<>> /\ ~flushed /\ NextSample = None
    /\ next' = Len(film.samples)
    /\ Take(Flush)
    /\ flushed' = (call' # "failed") /\ tries' = tries + 1
    /\ UNCHANGED <<given, packet, offset, shown, last, fault>>

(* A call that fails for a reason of its own: reading or seeking the file, *)
(* out of memory, the driver.  openh264 and libvpx report none of theirs.  *)
Breaks ==
    /\ Turn /\ ready = <<>> /\ ~fault
    /\ \/ ~flushed /\ NextSample # None                               \* next_packet, decode
       \/ ~flushed /\ NextSample = None /\ backend \in {"nvdec", "vaapi", "rav1d"}  \* flush
       \/ flushed /\ looped /\ film.container = "mkv"                 \* MkvDemux::rewind
    /\ call' = "failed" /\ fault' = TRUE
    /\ UNCHANGED <<given, next, packet, dec, ready, flushed, offset, tries, shown, last>>

\* Variant: the guard starts again.
SpinsOn ==
    /\ call = "running" /\ tries = GuardLimit /\ tries' = 0
    /\ UNCHANGED <<given, next, packet, dec, ready, flushed, offset, call, shown, last, fault>>

GiveUp ==
    /\ call = "running" /\ tries = GuardLimit
    /\ call' = "failed"
    /\ UNCHANGED <<given, next, packet, dec, ready, flushed, offset, tries, shown, last, fault>>

Step == Deliver \/ Finish \/ Rewind \/ Feed \/ EndOfFile \/ Breaks \/ GiveUp
Next == Call \/ Step
Spec == Init /\ [][Next]_vars /\ WF_vars(Step)

-----------------------------------------------------------------------------
(* What the file contains, independently of the way it is decoded. *)

Pictures(f) == {i \in DOMAIN f.samples : f.samples[i].kind \in {"pic", "again"}}
Shows(i) == /\ i \in Pictures(film)
            /\ backend = "nvdec" => film.chroma = "420"
            /\ film.samples[i].kind = "again" => \E j \in 1..i - 1 : film.samples[j].kind = "hidden"
Times == InOrder({film.samples[i].pts : i \in {j \in DOMAIN film.samples : Shows(j)}})

(* A run of damaged packets long enough for openh264 to give up, also one  *)
(* that spans the end of a pass and the start of the next.                 *)
OnlyBad(D) == \A j \in D : film.samples[j].kind \in {"bad", "skip"}
Bads(D) == Cardinality({j \in D : film.samples[j].kind = "bad"})
BadRun == LET n == Len(film.samples) IN
    \E i \in 1..n + 1, k \in 0..n :
        \/ OnlyBad(i..k) /\ Bads(i..k) >= MaxRefused
        \/ looped /\ OnlyBad(i..n) /\ OnlyBad(1..k) /\ Bads(i..n) + Bads(1..k) >= MaxRefused

HasBad == \E i \in DOMAIN film.samples : film.samples[i].kind = "bad"

(* The reasons for which a caller may get an error. *)
Excuse == \/ fault
          \/ looped /\ Times = <<>>
          \/ backend \in {"rav1d", "vaapi"} /\ HasBad
          \/ backend = "openh264" /\ BadRun
          \/ backend = "nvdec" /\ film.chroma # "420"

StateOf == IF call \in {"ended", "failed"} THEN call ELSE "playing"

F == INSTANCE Film WITH times <- Times, length <- PassLength, NoFrame <- None,
                        state <- StateOf, excuse <- Excuse

(* A file as an encoder writes it, whatever was damaged since: pictures    *)
(* have times of their own, in order or, with B-frames, at most Depth      *)
(* late, but not across a new format, and come after a keyframe; "again"   *)
(* shows what was hidden before; and what shows nothing is far less than   *)
(* next_frame has turns.                                                   *)
WellMade(f) ==
    LET s == f.samples
        reorders == f.codec \in Reordering
    IN  /\ \A i, j \in Pictures(f) : i < j => s[i].pts # s[j].pts
        /\ \A i, j \in Pictures(f) :
              i < j /\ (~reorders \/ s[i].size # s[j].size) => s[i].pts < s[j].pts
        /\ reorders => \A j \in Pictures(f) :
              /\ Cardinality({i \in Pictures(f) : i < j /\ s[i].pts > s[j].pts}) <= Depth
              /\ \E i \in 1..j : s[i].kind # "skip" /\ IsKey(s[i])
        /\ reorders => \A i \in DOMAIN s : s[i].kind \in {"pic", "bad", "skip"}
        /\ \A j \in DOMAIN s :
              s[j].kind = "again" => \E i \in 1..j - 1 : s[i].kind = "hidden"
        /\ 2 * (Cardinality({i \in DOMAIN s : s[i].kind \in {"bad", "hidden"}}) + Depth) + 4
              <= GuardLimit

-----------------------------------------------------------------------------
(* Properties *)

TypeOK ==
    /\ film \in Films /\ looped \in BOOLEAN /\ backend \in Engines(film.codec)
    /\ next \in 0..Len(film.samples)
    /\ DOMAIN dec = DOMAIN NewDecoder
    /\ Cardinality(dec.held) <= Depth /\ dec.refused \in 0..MaxRefused
    /\ \A i \in DOMAIN ready : ready[i] \in {s.pts : s \in ToSet(film.samples)}
    /\ flushed \in BOOLEAN /\ offset \in Nat
    /\ tries \in 0..GuardLimit
    /\ call \in {"idle", "running", "ended", "failed"}
    /\ shown \in 0..MaxShown /\ fault \in BOOLEAN

(* Whatever the decoder holds back, hides, refuses or drops at a loop, the *)
(* caller of next_frame gets each decodable picture of the file exactly    *)
(* once per pass, in display order and at its time, the end only after the *)
(* last one and an error only with a reason.                               *)
ImplementsFilm == F!Spec

(* "a broken file must not spin the thread forever" (pipeline.rs:97): every *)
(* call of next_frame returns.                                              *)
CallReturns == (call = "running") ~> (call # "running")

(* "pts offset added after each loop pass so time stays monotonic"         *)
(* (pipeline.rs:66): a frame is never timed before the one returned before *)
(* it.                                                                     *)
TimeGoesOn == [][shown' > shown /\ last # None => last' > last]_vars

(* "is_keyframe is only known for SimpleBlock; otherwise treat the first   *)
(* frame as a keyframe" (demux.rs:273), where it matters: the first packet *)
(* of a pass of an H.264 or HEVC file comes with the parameter sets also   *)
(* when the container does not mark it.                                    *)
FirstIsKey ==
    [][packet = None /\ packet' # None /\ film.samples[next'].key = "unknown"
       => packet'.sets]_vars
=============================================================================
