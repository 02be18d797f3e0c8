------------------------------ MODULE Backends ------------------------------
(***************************************************************************)
(* Opening and closing what plays a video: open_pipeline                   *)
(* (src/media/video/backend.rs) with the demuxer's and the five decoders'  *)
(* constructors, error paths and drops, for several videos opened and      *)
(* closed at the same time by threads of their own.                        *)
(*                                                                         *)
(* A constructor is a sequence of steps.  Each may fail (nondeterministic: *)
(* missing libraries and symbols, no device, an unsupported codec, the     *)
(* driver), and gives the thread a resource when it works.  Resources are  *)
(* released one at a time, in the order the code's error path or drop has. *)
(* The VA-API helper is one library shared by all decoders.                *)
(*                                                                         *)
(* External: files, /dev/dri, the driver libraries and what they return.   *)
(***************************************************************************)
EXTENDS Naturals, Sequences, FiniteSets, SequencesExt

CONSTANTS
    Players,        \* threads that open and close a video
    Requests,       \* [file, backend, node]: what they may be asked to play
    MaxLoads,       \* bound: times the VA-API helper is loaded
    None

VARIABLES
    request,    \* request[p]
    phase,      \* "idle", "opening", "releasing", "ready" or "failed"
    left,       \* left[p]: candidates still to try, the current one first
    at,         \* at[p]: its next constructor step
    held,       \* held[p]: the resources of p
    todo,       \* todo[p]: the order in which they are being released
    rejected,   \* rejected[p]: the candidates that failed
    reasons,    \* reasons[p]: open_decoder's reasons
    told,       \* told[p]: what the caller learned
    lock,       \* HELPER: the player that has the mutex, or None
    slot,       \* HELPER: the instance the Weak refers to, 0 at first
    arc,        \* arc[p]: the instance p's Arc<Helper> refers to, or 0
    loaded,     \* instances of the helper library in the process
    loads       \* how often it was loaded

Names == {"cuda", "cuvid", "ctx", "lock", "parser", "surfaces", "helper", "display", "gbm",
          "context", "lib", "decoder"}
Decoders == {"nvdec", "vaapi", "openh264", "libvpx", "rav1d"}
Codecs == {"h264", "hevc", "vp8", "vp9", "av1", "other"}   \* "other": Codec::Other
Files == [head : STRING, ext : STRING, is : STRING, track : BOOLEAN, codec : Codecs,
          config : BOOLEAN]

ASSUME BackendsAssumption ==
    /\ MaxLoads \in Nat
    /\ None \notin Names /\ None \notin Requests
    /\ Requests \subseteq [file : Files, backend : {"auto", "gpu", "cpu"},
                           node : {"nvidia", "other", "none"}]

helper == <<lock, slot, arc, loaded, loads>>
vars == <<request, phase, left, at, held, todo, rejected, reasons, told, helper>>

-----------------------------------------------------------------------------
(* The demuxer: a file is [head, ext, is, track, codec, config]. *)

Containers == {"mp4", "mkv"}

(* The first bytes decide; the extension only when they say nothing. *)
Sniff(f) == IF f.head \in Containers THEN f.head
            ELSE IF f.ext \in Containers THEN f.ext ELSE None

(* Framing::for_codec: H.264 and HEVC need their parameter sets. *)
Framed(f) == f.codec \in {"h264", "hevc"} => f.config

Mp4Opens(f) == f.is = "mp4" /\ f.track /\ Framed(f)
MkvOpens(f) == f.is = "mkv" /\ f.track /\ Framed(f)
DemuxOpens(f) == CASE Sniff(f) = "mp4" -> Mp4Opens(f)
                   [] Sniff(f) = "mkv" -> MkvOpens(f)
                   [] OTHER -> FALSE

-----------------------------------------------------------------------------
(* Which decoders are tried, and in which order. *)

(* pick_render_node fails without a node; node_is_nvidia asks its vendor. *)
Hardware(node) == CASE node = "nvidia" -> <<"nvdec", "vaapi">>
                    [] node = "none"   -> <<>>
                    [] OTHER           -> <<"vaapi">>

Software(codec) == CASE codec = "av1" -> <<"rav1d">>
                     [] codec = "h264" -> <<"openh264">>
                     [] codec \in {"vp8", "vp9"} -> <<"libvpx">>
                     [] OTHER -> <<>>

WantsGpu(r) == r.backend \in {"auto", "gpu"}

\* Variant: "gpu" falls back to the CPU.
FallsBack(r) == (IF WantsGpu(r) THEN Hardware(r.node) ELSE <<>>) \o Software(r.file.codec)

Candidates(r) ==
    (IF WantsGpu(r) THEN Hardware(r.node) ELSE <<>>)
    \o (IF r.backend = "gpu" THEN <<>> ELSE Software(r.file.codec))

(* The reasons that stand before any candidate is tried: no render node, a *)
(* codec without a software decoder.                                       *)
Unavailable(r) ==
    (IF WantsGpu(r) /\ r.node = "none" THEN {"node"} ELSE {})
    \cup (IF r.backend # "gpu" /\ Software(r.file.codec) = <<>> THEN {"cpu"} ELSE {})

-----------------------------------------------------------------------------
(* Constructors: [does, gets] in order.  "helper" stands for helper().     *)

Step(does, gets) == [does |-> does, gets |-> gets]
Check(does) == Step(does, None)

CudaLoad   == Step("libcuda", "cuda")
CuvidLoad  == Step("libnvcuvid", "cuvid")
PickDevice == Check("device")
NvNewParser == Step("cuvidCreateVideoParser", "parser")
NvdecNew == <<Check("codec"), CudaLoad, CuvidLoad, Check("cuInit"), PickDevice,
              Step("cuCtxCreate", "ctx"), Check("caps"), Step("cuvidCtxLockCreate", "lock"),
              NvNewParser>>

(* nsc_vaapi_open on the helper's side *)
VaOpen == <<Step("display", "display"), Step("gbm", "gbm"), Step("context", "context")>>
VaapiNew == <<Check("codec"), Step("helper", "helper"), Check("path")>> \o VaOpen

H264OpenLib == Step("libopenh264", "lib")
H264New == <<H264OpenLib, Check("symbols"), Step("WelsCreateDecoder", "decoder"),
             Check("vtable"), Check("Initialize"), Check("SetOption")>>
VpxOpenLib == Step("libvpx", "lib")
VpxNew == <<VpxOpenLib, Check("symbols"), Check("iface"), Step("vpx_codec_dec_init", "context")>>
Av1New == <<Step("dav1d_open", "decoder")>>

New(c) == CASE c = "nvdec"    -> NvdecNew
            [] c = "vaapi"    -> VaapiNew
            [] c = "openh264" -> H264New
            [] c = "libvpx"   -> VpxNew
            [] c = "rav1d"    -> Av1New

-----------------------------------------------------------------------------
(* Releases, in order.  What is not held is passed over (null pointers,    *)
(* early errors).                                                          *)

(* State::destroy, then the fields of State. *)
NvDestroy == <<"surfaces", "lock", "ctx">>
NvLibraries == <<"cuda", "cuvid">>
NvdecDrop == <<"parser">> \o NvDestroy \o NvLibraries

\* Variant: the helper's Arc goes first.
ArcFirst == <<"helper", "surfaces", "context", "gbm", "display">>

(* nsc_vaapi_close drops Dec: decoder, pool, display; then the Arc.        *)
VaapiDrop == <<"surfaces", "context", "gbm", "display", "helper">>

H264Drop == <<"decoder", "lib">>
VpxDrop == <<"context", "lib">>
Av1Drop == <<"decoder">>

Drop(c) == CASE c = "nvdec"    -> NvdecDrop
             [] c = "vaapi"    -> VaapiDrop
             [] c = "openh264" -> H264Drop
             [] c = "libvpx"   -> VpxDrop
             [] c = "rav1d"    -> Av1Drop

\* Variant: a failed lock leaves the context behind.
ForgetsContext(c, does) == CASE c = "nvdec" /\ does = "cuvidCtxLockCreate" -> NvLibraries
                             [] OTHER -> Drop(c)

(* The error path of a constructor.  Before State exists NVDEC's libraries *)
(* are locals; every other path runs what the drop would run, openh264 by  *)
(* its closure `fail'.                                                     *)
Unwind(c, does) ==
    CASE c = "nvdec" /\ does \in {"codec", "libcuda", "libnvcuvid", "cuInit", "device",
                                  "cuCtxCreate"} -> <<"cuvid", "cuda">>
      [] c = "nvdec" /\ does \in {"caps", "cuvidCtxLockCreate"} -> NvDestroy \o NvLibraries
      [] OTHER -> Drop(c)

(* What a resource needs while it exists, its own release included. *)
Needs(c, r) ==
    CASE c = "nvdec" -> (CASE r = "ctx" -> {"cuda"}
                           [] r = "lock" -> {"cuvid", "ctx"}
                           [] r = "parser" -> {"cuvid", "ctx"}
                           [] r = "surfaces" -> {"cuda", "cuvid", "ctx", "lock"}
                           [] OTHER -> {})
      [] c = "vaapi" -> (CASE r \in {"display", "gbm"} -> {"helper"}
                           [] r \in {"context", "surfaces"} -> {"display", "helper"}
                           [] OTHER -> {})
      [] c \in {"openh264", "libvpx"} -> IF r \in {"decoder", "context"} THEN {"lib"} ELSE {}
      [] OTHER -> {}
Resources(c) == ({New(c)[i].gets : i \in DOMAIN New(c)} \ {None})
                \cup (IF c \in {"nvdec", "vaapi"} THEN {"surfaces"} ELSE {})

-----------------------------------------------------------------------------
Init ==
    /\ request = [p \in Players |-> None] /\ phase = [p \in Players |-> "idle"]
    /\ left = [p \in Players |-> <<>>] /\ at = [p \in Players |-> 1]
    /\ held = [p \in Players |-> {}] /\ todo = [p \in Players |-> <<>>]
    /\ rejected = [p \in Players |-> {}] /\ reasons = [p \in Players |-> {}]
    /\ told = [p \in Players |-> {}]
    /\ lock = None /\ slot = 0 /\ arc = [p \in Players |-> 0] /\ loaded = {} /\ loads = 0

Opening(p) == phase[p] = "opening" /\ left[p] # <<>>
Doing(p) == New(Head(left[p]))[at[p]]

(* open_pipeline: the demuxer first, then open_decoder's list. *)
Open(p, r) ==
    /\ phase[p] = "idle"
    /\ request' = [request EXCEPT ![p] = r]
    /\ IF DemuxOpens(r.file)
       THEN /\ phase' = [phase EXCEPT ![p] = "opening"]
            /\ left' = [left EXCEPT ![p] = Candidates(r)]
            /\ reasons' = [reasons EXCEPT ![p] = Unavailable(r)]
            /\ UNCHANGED told
       ELSE /\ phase' = [phase EXCEPT ![p] = "failed"]
            /\ told' = [told EXCEPT ![p] = {"file"}]
            /\ UNCHANGED <<left, reasons>>
    /\ UNCHANGED <<at, held, todo, rejected, helper>>

Works(p) ==
    /\ held' = [held EXCEPT ![p] = @ \cup ({Doing(p).gets} \ {None})]
    /\ IF at[p] = Len(New(Head(left[p])))
       THEN /\ phase' = [phase EXCEPT ![p] = "ready"]
            /\ UNCHANGED at
       ELSE /\ at' = [at EXCEPT ![p] = @ + 1]
            /\ UNCHANGED phase
    /\ UNCHANGED <<request, left, todo, rejected, reasons, told>>

Fails(p) ==
    /\ phase' = [phase EXCEPT ![p] = "releasing"]
    /\ todo' = [todo EXCEPT ![p] = Unwind(Head(left[p]), Doing(p).does)]
    /\ rejected' = [rejected EXCEPT ![p] = @ \cup {Head(left[p])}]
    /\ reasons' = [reasons EXCEPT ![p] = @ \cup {Head(left[p])}]
    /\ UNCHANGED <<request, left, at, held, told>>

(* cuda_codec and helper_codec know every codec but Codec::Other. *)
Refused(p) == request[p].file.codec = "other"

(* A step of a constructor that touches nothing shared. *)
Construct(p) ==
    /\ Opening(p) /\ Doing(p).does # "helper"
    /\ \/ (Doing(p).does = "codec" => ~Refused(p)) /\ Works(p)
       \/ (Doing(p).does = "codec" => Refused(p)) /\ Fails(p)
    /\ UNCHANGED helper

InHelper(p) == Opening(p) /\ Doing(p).does = "helper"

(* helper(): the mutex is held from the look at the Weak until the new     *)
(* instance is stored, also while it loads.                                *)
LockHelper(p) ==
    /\ InHelper(p) /\ lock = None
    /\ lock' = p
    /\ UNCHANGED <<request, phase, left, at, held, todo, rejected, reasons, told,
                   slot, arc, loaded, loads>>

InUse(i) == \E q \in Players : arc[q] = i

UpgradeHelper(p) ==
    /\ InHelper(p) /\ lock = p /\ slot # 0 /\ InUse(slot)
    /\ arc' = [arc EXCEPT ![p] = slot] /\ lock' = None
    /\ Works(p)
    /\ UNCHANGED <<slot, loaded, loads>>

\* Variant: the Weak is not stored, so the next thread loads the library again.
LoadsForgotten(p) ==
    /\ InHelper(p) /\ lock = p /\ (slot = 0 \/ ~InUse(slot)) /\ loads < MaxLoads
    /\ loads' = loads + 1 /\ loaded' = loaded \cup {loads'}
    /\ arc' = [arc EXCEPT ![p] = loads'] /\ lock' = None
    /\ Works(p)
    /\ UNCHANGED slot

LoadHelper(p) ==
    /\ InHelper(p) /\ lock = p /\ (slot = 0 \/ ~InUse(slot)) /\ loads < MaxLoads
    /\ loads' = loads + 1 /\ loaded' = loaded \cup {loads'} /\ slot' = loads'
    /\ arc' = [arc EXCEPT ![p] = loads'] /\ lock' = None
    /\ Works(p)

\* Variant: the mutex is not given back.
KeepsMutex(p) ==
    /\ InHelper(p) /\ lock = p /\ (slot = 0 \/ ~InUse(slot))
    /\ Fails(p)
    /\ UNCHANGED helper

(* load() failed: `?' leaves helper() and the guard goes with it. *)
HelperFails(p) ==
    /\ InHelper(p) /\ lock = p /\ (slot = 0 \/ ~InUse(slot))
    /\ lock' = None
    /\ Fails(p)
    /\ UNCHANGED <<slot, arc, loaded, loads>>

(* The first pictures: NVDEC's decoder (State::sequence), the VA-API pool. *)
Play(p) ==
    /\ phase[p] = "ready" /\ Head(left[p]) \in {"nvdec", "vaapi"}
    /\ "surfaces" \notin held[p]
    /\ held' = [held EXCEPT ![p] = @ \cup {"surfaces"}]
    /\ UNCHANGED <<request, phase, left, at, todo, rejected, reasons, told, helper>>

(* The pipeline is dropped. *)
Close(p) ==
    /\ phase[p] = "ready"
    /\ phase' = [phase EXCEPT ![p] = "releasing"]
    /\ todo' = [todo EXCEPT ![p] = Drop(Head(left[p]))]
    /\ left' = [left EXCEPT ![p] = <<>>]
    /\ at' = [at EXCEPT ![p] = 1]
    /\ rejected' = [rejected EXCEPT ![p] = {}] /\ reasons' = [reasons EXCEPT ![p] = {}]
    /\ UNCHANGED <<request, held, told, helper>>

Emptied(p) == \A i \in DOMAIN todo[p] : todo[p][i] \notin held[p]

(* One resource goes.  The helper's Arc only counts down; the library is   *)
(* unloaded, outside the mutex, by whoever dropped the last one.           *)
Release(p) ==
    /\ phase[p] = "releasing"
    /\ \E i \in DOMAIN todo[p] :
         LET r == todo[p][i]
         IN  /\ r \in held[p] /\ \A j \in 1..i - 1 : todo[p][j] \notin held[p]
             /\ held' = [held EXCEPT ![p] = @ \ {r}]
             /\ arc' = IF r = "helper" THEN [arc EXCEPT ![p] = 0] ELSE arc
    /\ UNCHANGED <<request, phase, left, at, todo, rejected, reasons, told, lock, slot, loaded,
                   loads>>

Unload(i) ==
    /\ i \in loaded /\ ~InUse(i)
    /\ loaded' = loaded \ {i}
    /\ UNCHANGED <<request, phase, left, at, held, todo, rejected, reasons, told, lock, slot,
                   arc, loads>>

(* After a rejected candidate comes the next one. *)
Released(p) ==
    /\ phase[p] = "releasing" /\ Emptied(p) /\ left[p] # <<>>
    /\ phase' = [phase EXCEPT ![p] = "opening"]
    /\ left' = [left EXCEPT ![p] = Tail(@)]
    /\ at' = [at EXCEPT ![p] = 1] /\ todo' = [todo EXCEPT ![p] = <<>>]
    /\ UNCHANGED <<request, held, rejected, reasons, told, helper>>

(* No candidate is left: the reasons are the error. *)
OutOfCandidates(p) ==
    /\ phase[p] = "opening" /\ left[p] = <<>>
    /\ phase' = [phase EXCEPT ![p] = "failed"]
    /\ told' = [told EXCEPT ![p] = reasons[p]]
    /\ UNCHANGED <<request, left, at, held, todo, rejected, reasons, helper>>

(* After a close, or when the caller has reported the error, the next      *)
(* request may come.                                                       *)
Forget(p) ==
    /\ phase[p] = "failed" \/ (phase[p] = "releasing" /\ Emptied(p) /\ left[p] = <<>>)
    /\ phase' = [phase EXCEPT ![p] = "idle"]
    /\ request' = [request EXCEPT ![p] = None] /\ at' = [at EXCEPT ![p] = 1]
    /\ rejected' = [rejected EXCEPT ![p] = {}] /\ reasons' = [reasons EXCEPT ![p] = {}]
    /\ told' = [told EXCEPT ![p] = {}] /\ todo' = [todo EXCEPT ![p] = <<>>]
    /\ UNCHANGED <<left, held, helper>>

Runs(p) == Construct(p) \/ LockHelper(p) \/ UpgradeHelper(p) \/ LoadHelper(p) \/ HelperFails(p)
           \/ Release(p) \/ Released(p) \/ OutOfCandidates(p)
Next == \/ \E p \in Players : \/ \E r \in Requests : Open(p, r)
                              \/ Runs(p) \/ Play(p) \/ Close(p) \/ Forget(p)
        \/ \E i \in loaded : Unload(i)

(* A thread that has work does it; the mutex is taken in turn. *)
Spec == Init /\ [][Next]_vars /\ \A p \in Players : WF_vars(Runs(p)) /\ SF_vars(LockHelper(p))

-----------------------------------------------------------------------------
(* Properties *)

TypeOK ==
    /\ request \in [Players -> Requests \cup {None}]
    /\ phase \in [Players -> {"idle", "opening", "releasing", "ready", "failed"}]
    /\ \A p \in Players : /\ ToSet(left[p]) \subseteq Decoders
                          /\ ToSet(todo[p]) \subseteq Names
                          /\ Opening(p) => at[p] \in DOMAIN New(Head(left[p]))
    /\ rejected \in [Players -> SUBSET Decoders]
    /\ lock \in Players \cup {None}
    /\ slot \in 0..MaxLoads /\ arc \in [Players -> 0..MaxLoads] /\ loaded \subseteq 1..MaxLoads
    /\ loads \in 0..MaxLoads

(* "One shared helper, alive while at least one decoder is" (vaapi.rs:49):  *)
(* however the threads' opens, failures and closes interleave, whoever      *)
(* holds an Arc has the same instance as everybody else, and its library   *)
(* is in the process.                                                      *)
HelperShared ==
    /\ \A p \in Players : "helper" \in held[p] <=> arc[p] # 0
    /\ \A p, q \in Players : arc[p] # 0 => arc[p] \in loaded /\ arc[q] \in {0, arc[p]}

(* "released in reverse creation order" (nvdec.rs:601): in whatever order   *)
(* several decoders open, fail and close, no resource outlives what its    *)
(* own release still needs, the helper's Arc included (HelperShared says   *)
(* that the Arc keeps the library).                                        *)
Lives(p, c) == held[p] \subseteq Resources(c) /\ \A r \in held[p] : Needs(c, r) \subseteq held[p]
NothingDangles == \A p \in Players : \E c \in Decoders : Lives(p, c)

(* A rejected candidate leaves nothing behind for the next one, and neither *)
(* does a failed open or a closed video.                                    *)
NothingHeld ==
    \A p \in Players :
        /\ phase[p] \in {"idle", "failed"} => held[p] = {}
        /\ Opening(p) => held[p] \subseteq {New(Head(left[p]))[i].gets : i \in 1..at[p] - 1}

(* "`backend = gpu`: VA-API only, error if unavailable; `cpu`: software     *)
(* only; `auto`: VA-API if a GPU is present and supports the codec,         *)
(* otherwise software" (backend.rs:3), "NVDEC directly first" (backend.rs:57)*)
(* and "extensions can't be trusted" (demux.rs:58): what plays is the best  *)
(* the request allows, and nothing plays only when each of them failed,     *)
(* with a reason for each.                                                  *)
BestChosen ==
    \A p \in Players :
        LET r == request[p]
            d == Head(left[p])
            gpu == {c \in {"nvdec", "vaapi"} :
                      r.backend # "cpu" /\ r.node # "none" /\ (c = "nvdec" => r.node = "nvidia")}
            cpu == {c \in {"openh264", "libvpx", "rav1d"} :
                      r.backend # "gpu" /\ r.file.codec \in (CASE c = "openh264" -> {"h264"}
                                                              [] c = "libvpx" -> {"vp8", "vp9"}
                                                              [] c = "rav1d" -> {"av1"})}
        IN /\ phase[p] = "ready" => /\ d \in gpu \cup cpu
                                    /\ d = "vaapi" => gpu \ {"vaapi"} \subseteq rejected[p]
                                    /\ d \in cpu => gpu \subseteq rejected[p]
           /\ phase[p] = "failed" =>
                told[p] # {} /\ (r.file.is \in Containers /\ r.file.is = r.file.head
                                   /\ r.file.track /\ Framed(r.file)
                                 => gpu \cup cpu \subseteq told[p])

(* Opening a video ends, whatever another thread does with the helper: it  *)
(* plays or fails.                                                         *)
OpenEnds == \A p \in Players : phase[p] = "opening" ~> phase[p] \in {"ready", "failed"}

(* "Every rejection comes with a reason that is shown to the user instead  *)
(* of being silently dropped" (backend.rs:5): also when something else     *)
(* plays in the end.                                                       *)
RejectionsShown == \A p \in Players : phase[p] = "ready" => rejected[p] \subseteq told[p]
=============================================================================
