--------------------------- MODULE BackendsProofs ---------------------------
(***************************************************************************)
(* Theorems about Backends: the VA-API helper shared by any number of      *)
(* threads that open and close videos.                                     *)
(***************************************************************************)
EXTENDS Backends, TLAPS

LEMMA SeqOfOne == ASSUME NEW S, NEW a \in S PROVE <<a>> \in Seq(S) /\ Len(<<a>>) = 1
OBVIOUS

LEMMA SeqOfTwo ==
    ASSUME NEW S, NEW a \in S, NEW b \in S
    PROVE  <<a, b>> \in Seq(S) /\ Len(<<a, b>>) = 2
OBVIOUS

LEMMA SeqOfThree ==
    ASSUME NEW S, NEW a \in S, NEW b \in S, NEW c \in S
    PROVE  <<a, b, c>> \in Seq(S) /\ Len(<<a, b, c>>) = 3
OBVIOUS

LEMMA SeqsJoined ==
    ASSUME NEW S, NEW a \in Seq(S), NEW b \in Seq(S)
    PROVE  a \o b \in Seq(S) /\ Len(a \o b) = Len(a) + Len(b) /\ Len(b) \in Nat /\ Len(a) \in Nat
OBVIOUS

LEMMA JoinAt ==
    ASSUME NEW S, NEW a \in Seq(S), NEW b \in Seq(S)
    PROVE  /\ \A i \in 1..Len(a) : (a \o b)[i] = a[i]
           /\ \A i \in Len(a) + 1..Len(a) + Len(b) : (a \o b)[i] = b[i - Len(a)]
OBVIOUS

(* The steps of all constructors. *)
Steps ==
    {Check(d) : d \in {"codec", "cuInit", "device", "caps", "path", "symbols", "vtable", "Initialize",
                       "SetOption", "iface"}}
    \cup {Step("libcuda", "cuda"), Step("libnvcuvid", "cuvid"), Step("cuCtxCreate", "ctx"),
          Step("cuvidCtxLockCreate", "lock"), Step("cuvidCreateVideoParser", "parser"),
          Step("helper", "helper"), Step("display", "display"), Step("gbm", "gbm"),
          Step("context", "context"), Step("libopenh264", "lib"),
          Step("WelsCreateDecoder", "decoder"), Step("libvpx", "lib"),
          Step("vpx_codec_dec_init", "context"), Step("dav1d_open", "decoder")}

\* A step gives the helper exactly when it is helper().
LEMMA HelperSteps == ASSUME NEW s \in Steps PROVE s.gets = "helper" <=> s.does = "helper"
<1>1. None # "helper"
    BY BackendsAssumption DEF Names
<1> QED BY <1>1 DEF Steps, Step, Check

\* The five constructors, step by step.
LEMMA NvdecAt ==
    /\ Len(NvdecNew) = 9 /\ NvdecNew \in Seq(Steps)
    /\ NvdecNew[1] = Check("codec")
    /\ NvdecNew[2] = Step("libcuda", "cuda")
    /\ NvdecNew[3] = Step("libnvcuvid", "cuvid")
    /\ NvdecNew[4] = Check("cuInit")
    /\ NvdecNew[5] = Check("device")
    /\ NvdecNew[6] = Step("cuCtxCreate", "ctx")
    /\ NvdecNew[7] = Check("caps")
    /\ NvdecNew[8] = Step("cuvidCtxLockCreate", "lock")
    /\ NvdecNew[9] = Step("cuvidCreateVideoParser", "parser")
<1>1. Len(NvdecNew) = 9
    BY DEF NvdecNew
<1>2. /\ NvdecNew[1] = Check("codec") /\ NvdecNew[2] = CudaLoad /\ NvdecNew[3] = CuvidLoad
      /\ NvdecNew[4] = Check("cuInit") /\ NvdecNew[5] = PickDevice
      /\ NvdecNew[6] = Step("cuCtxCreate", "ctx") /\ NvdecNew[7] = Check("caps")
      /\ NvdecNew[8] = Step("cuvidCtxLockCreate", "lock") /\ NvdecNew[9] = NvNewParser
    BY DEF NvdecNew
<1>3. /\ Check("codec") \in Steps /\ CudaLoad \in Steps /\ CuvidLoad \in Steps
      /\ Check("cuInit") \in Steps /\ PickDevice \in Steps /\ Step("cuCtxCreate", "ctx") \in Steps
      /\ Check("caps") \in Steps /\ Step("cuvidCtxLockCreate", "lock") \in Steps
      /\ NvNewParser \in Steps
    BY DEF Steps, CudaLoad, CuvidLoad, PickDevice, NvNewParser
<1>4. NvdecNew \in Seq(Steps)
    BY <1>3 DEF NvdecNew
<1> QED BY <1>1, <1>2, <1>4 DEF CudaLoad, CuvidLoad, PickDevice, NvNewParser

LEMMA VaapiAt ==
    /\ Len(VaapiNew) = 6 /\ VaapiNew \in Seq(Steps)
    /\ VaapiNew[1] = Check("codec")
    /\ VaapiNew[2] = Step("helper", "helper")
    /\ VaapiNew[3] = Check("path")
    /\ VaapiNew[4] = Step("display", "display")
    /\ VaapiNew[5] = Step("gbm", "gbm")
    /\ VaapiNew[6] = Step("context", "context")
<1> DEFINE a == <<Check("codec"), Step("helper", "helper"), Check("path")>>
<1>1. /\ Check("codec") \in Steps /\ Step("helper", "helper") \in Steps /\ Check("path") \in Steps
      /\ Step("display", "display") \in Steps /\ Step("gbm", "gbm") \in Steps
      /\ Step("context", "context") \in Steps
    BY DEF Steps
<1>2. /\ a \in Seq(Steps) /\ Len(a) = 3 /\ VaOpen \in Seq(Steps) /\ Len(VaOpen) = 3
    BY <1>1, SeqOfThree DEF VaOpen
<1>3. /\ a[1] = Check("codec") /\ a[2] = Step("helper", "helper") /\ a[3] = Check("path")
      /\ VaOpen[1] = Step("display", "display") /\ VaOpen[2] = Step("gbm", "gbm")
      /\ VaOpen[3] = Step("context", "context")
    BY DEF VaOpen
<1>4. VaapiNew = a \o VaOpen
    BY DEF VaapiNew
<1> HIDE DEF a
<1>5. VaapiNew \in Seq(Steps) /\ Len(VaapiNew) = 6
  <2>1. a \o VaOpen \in Seq(Steps) /\ Len(a \o VaOpen) = Len(a) + Len(VaOpen)
      BY <1>2, SeqsJoined
  <2> QED BY <2>1, <1>2, <1>4
<1>6. /\ VaapiNew[1] = a[1] /\ VaapiNew[2] = a[2] /\ VaapiNew[3] = a[3]
      /\ VaapiNew[4] = VaOpen[1] /\ VaapiNew[5] = VaOpen[2] /\ VaapiNew[6] = VaOpen[3]
  <2>1. /\ \A i \in 1..Len(a) : VaapiNew[i] = a[i]
        /\ \A i \in Len(a) + 1..Len(a) + Len(VaOpen) : VaapiNew[i] = VaOpen[i - Len(a)]
      BY <1>2, <1>4, JoinAt, Zenon
  <2>2. \A i \in 1..3 : VaapiNew[i] = a[i]
      BY <2>1, <1>2, Zenon
  <2>3. \A i \in 3 + 1..3 + 3 : VaapiNew[i] = VaOpen[i - 3]
      BY <2>1, <1>2, Zenon
  <2>4. VaapiNew[4] = VaOpen[4 - 3] /\ VaapiNew[5] = VaOpen[5 - 3] /\ VaapiNew[6] = VaOpen[6 - 3]
      BY <2>3
  <2> QED BY <2>2, <2>4
<1> QED BY <1>3, <1>5, <1>6

LEMMA H264At ==
    /\ Len(H264New) = 6 /\ H264New \in Seq(Steps)
    /\ H264New[1] = Step("libopenh264", "lib")
    /\ H264New[2] = Check("symbols")
    /\ H264New[3] = Step("WelsCreateDecoder", "decoder")
    /\ H264New[4] = Check("vtable")
    /\ H264New[5] = Check("Initialize")
    /\ H264New[6] = Check("SetOption")
<1>1. /\ H264OpenLib \in Steps /\ Check("symbols") \in Steps
      /\ Step("WelsCreateDecoder", "decoder") \in Steps /\ Check("vtable") \in Steps
      /\ Check("Initialize") \in Steps /\ Check("SetOption") \in Steps
    BY DEF Steps, H264OpenLib
<1>2. Len(H264New) = 6 /\ H264New \in Seq(Steps)
    BY <1>1 DEF H264New
<1> QED BY <1>2 DEF H264New, H264OpenLib

LEMMA VpxAt ==
    /\ Len(VpxNew) = 4 /\ VpxNew \in Seq(Steps)
    /\ VpxNew[1] = Step("libvpx", "lib")
    /\ VpxNew[2] = Check("symbols")
    /\ VpxNew[3] = Check("iface")
    /\ VpxNew[4] = Step("vpx_codec_dec_init", "context")
<1>1. /\ VpxOpenLib \in Steps /\ Check("symbols") \in Steps /\ Check("iface") \in Steps
      /\ Step("vpx_codec_dec_init", "context") \in Steps
    BY DEF Steps, VpxOpenLib
<1>2. Len(VpxNew) = 4 /\ VpxNew \in Seq(Steps)
    BY <1>1 DEF VpxNew
<1> QED BY <1>2 DEF VpxNew, VpxOpenLib

LEMMA Av1At == Len(Av1New) = 1 /\ Av1New \in Seq(Steps) /\ Av1New[1] = Step("dav1d_open", "decoder")
<1>1. Step("dav1d_open", "decoder") \in Steps
    BY DEF Steps
<1> QED BY <1>1, SeqOfOne DEF Av1New

LEMMA NewCases ==
    /\ New("nvdec") = NvdecNew /\ New("vaapi") = VaapiNew /\ New("openh264") = H264New
    /\ New("libvpx") = VpxNew /\ New("rav1d") = Av1New
BY DEF New

LEMMA NewType == ASSUME NEW c \in Decoders PROVE New(c) \in Seq(Steps) /\ Len(New(c)) > 0
<1>1. NvdecNew \in Seq(Steps) /\ Len(NvdecNew) > 0
    BY NvdecAt
<1>2. VaapiNew \in Seq(Steps) /\ Len(VaapiNew) > 0
    BY VaapiAt
<1>3. H264New \in Seq(Steps) /\ Len(H264New) > 0
    BY H264At
<1>4. VpxNew \in Seq(Steps) /\ Len(VpxNew) > 0
    BY VpxAt
<1>5. Av1New \in Seq(Steps) /\ Len(Av1New) > 0
    BY Av1At
<1> QED BY <1>1, <1>2, <1>3, <1>4, <1>5, NewCases DEF Decoders

LEMMA CandidatesType == ASSUME NEW r PROVE Candidates(r) \in Seq(Decoders)
<1> DEFINE D == Decoders
<1>1. /\ "nvdec" \in D /\ "vaapi" \in D /\ "openh264" \in D /\ "libvpx" \in D /\ "rav1d" \in D
    BY DEF Decoders
<1> HIDE DEF D
<1>2. /\ <<>> \in Seq(D) /\ <<"nvdec", "vaapi">> \in Seq(D) /\ <<"vaapi">> \in Seq(D)
      /\ <<"rav1d">> \in Seq(D) /\ <<"openh264">> \in Seq(D) /\ <<"libvpx">> \in Seq(D)
    BY <1>1, SeqOfOne, SeqOfTwo
<1>3. Hardware(r.node) \in Seq(D) /\ Software(r.file.codec) \in Seq(D)
    BY <1>2 DEF Hardware, Software
<1> QED BY <1>2, <1>3, SeqsJoined DEF Candidates, D

-----------------------------------------------------------------------------
Phases == {"idle", "opening", "releasing", "ready", "failed"}

(* Where each thread is: a constructor's next step exists. *)
Places ==
    /\ phase \in [Players -> Phases]
    /\ left \in [Players -> Seq(Decoders)]
    /\ at \in [Players -> Nat]
    /\ \A p \in Players : phase[p] = "idle" => at[p] = 1
    /\ \A p \in Players : Opening(p) => at[p] \in 1..Len(New(Head(left[p])))

(* Every Arc there is belongs to the instance the Weak refers to. *)
Shared ==
    /\ DOMAIN held = Players
    /\ arc \in [Players -> Nat] /\ slot \in Nat /\ loads \in Nat
    /\ \A p \in Players : arc[p] # 0 => arc[p] = slot /\ slot \in loaded
    /\ \A p \in Players : "helper" \in held[p] <=> arc[p] # 0

ShareInv == Places /\ Shared

LEMMA ShareInvInit == Init => ShareInv
<1> SUFFICES ASSUME Init PROVE ShareInv
    OBVIOUS
<1>1. \A S : <<>> \in Seq(S)
    OBVIOUS
<1> QED BY <1>1 DEF Init, ShareInv, Places, Shared, Opening, Phases

\* The step a constructor is at.
LEMMA DoingStep ==
    ASSUME Places, NEW p \in Players, Opening(p)
    PROVE  Doing(p) \in Steps /\ Head(left[p]) \in Decoders /\ at[p] \in Nat
<1>1. Head(left[p]) \in Decoders
    BY DEF Places, Opening
<1>2. New(Head(left[p])) \in Seq(Steps)
    BY <1>1, NewType
<1>3. at[p] \in 1..Len(New(Head(left[p])))
    BY DEF Places
<1> QED BY <1>1, <1>2, <1>3 DEF Doing, Places

\* Works and Fails: the constructor goes on, is done, or is unwound.
LEMMA WorksPlaces ==
    ASSUME Places, NEW p \in Players, Opening(p), Works(p)
    PROVE  Places'
<1>1. New(Head(left[p])) \in Seq(Steps) /\ at[p] \in 1..Len(New(Head(left[p])))
    BY DoingStep, NewType DEF Places
<1>2. Len(New(Head(left[p]))) \in Nat /\ left' = left
    BY <1>1 DEF Works
<1>3. CASE at[p] = Len(New(Head(left[p])))
  <2>1. phase' = [phase EXCEPT ![p] = "ready"] /\ at' = at
      BY <1>3 DEF Works
  <2> QED BY <2>1, <1>2 DEF Places, Opening, Phases
<1>4. CASE at[p] # Len(New(Head(left[p])))
  <2>1. at' = [at EXCEPT ![p] = @ + 1] /\ phase' = phase
      BY <1>4 DEF Works
  <2>2. at[p] + 1 \in 1..Len(New(Head(left[p])))
      BY <1>1, <1>2, <1>4
  <2>3. phase[p] = "opening"
      BY DEF Opening
  <2> QED BY <2>1, <2>2, <2>3, <1>2 DEF Places, Opening
<1> QED BY <1>3, <1>4

LEMMA FailsPlaces ==
    ASSUME Places, NEW p \in Players, Opening(p), Fails(p)
    PROVE  Places'
BY DEF Fails, Places, Opening, Phases

\* A constructor step outside helper() leaves the Arcs alone.
LEMMA ConstructKeeps == ASSUME ShareInv, NEW p \in Players, Construct(p) PROVE ShareInv'
<1>1. Doing(p).gets # "helper" /\ Opening(p)
    BY DoingStep, HelperSteps DEF Construct, ShareInv
<1>2. UNCHANGED <<arc, slot, loads, loaded>>
    BY DEF Construct, helper
<1>3. CASE Works(p)
  <2>1. held' = [held EXCEPT ![p] = @ \cup ({Doing(p).gets} \ {None})]
      BY <1>3 DEF Works
  <2> QED BY <1>1, <1>2, <1>3, <2>1, WorksPlaces DEF ShareInv, Shared
<1>4. CASE Fails(p)
  <2>1. held' = held
      BY <1>4 DEF Fails
  <2> QED BY <1>1, <1>2, <1>4, <2>1, FailsPlaces DEF ShareInv, Shared
<1> QED BY <1>3, <1>4 DEF Construct

\* helper(): the Weak is upgraded while somebody has an Arc.
LEMMA UpgradeKeeps == ASSUME ShareInv, NEW p \in Players, UpgradeHelper(p) PROVE ShareInv'
<1>1. Opening(p) /\ Doing(p).gets = "helper" /\ Doing(p).gets # None /\ Works(p)
    BY DoingStep, HelperSteps, BackendsAssumption DEF UpgradeHelper, InHelper, ShareInv, Names
<1>2. held' = [held EXCEPT ![p] = @ \cup ({Doing(p).gets} \ {None})]
    BY <1>1 DEF Works
<1>3. slot # 0 /\ slot \in loaded /\ arc' = [arc EXCEPT ![p] = slot] /\ UNCHANGED <<slot, loaded, loads>>
    BY DEF UpgradeHelper, InUse, ShareInv, Shared
<1> QED BY <1>1, <1>2, <1>3, WorksPlaces DEF ShareInv, Shared

\* helper(): a new instance is loaded only when nobody has an Arc of another.
LEMMA LoadKeeps == ASSUME ShareInv, NEW p \in Players, LoadHelper(p) PROVE ShareInv'
<1>1. Opening(p) /\ Doing(p).gets = "helper" /\ Doing(p).gets # None /\ Works(p)
    BY DoingStep, HelperSteps, BackendsAssumption DEF LoadHelper, InHelper, ShareInv, Names
<1>2. held' = [held EXCEPT ![p] = @ \cup ({Doing(p).gets} \ {None})]
    BY <1>1 DEF Works
<1>3. \A q \in Players : arc[q] = 0
    BY DEF LoadHelper, InUse, ShareInv, Shared
<1>4. /\ loads' = loads + 1 /\ slot' = loads' /\ arc' = [arc EXCEPT ![p] = loads']
      /\ loaded' = loaded \cup {loads'} /\ loads \in Nat
    BY DEF LoadHelper, ShareInv, Shared
<1>5. loads' \in Nat /\ loads' # 0
    BY <1>4
<1> QED BY <1>1, <1>2, <1>3, <1>4, <1>5, WorksPlaces DEF ShareInv, Shared

\* load() fails, or the mutex is taken: nobody's Arc changes.
LEMMA LockKeeps ==
    ASSUME ShareInv, NEW p \in Players, LockHelper(p) \/ HelperFails(p)
    PROVE  ShareInv'
<1>1. CASE LockHelper(p)
    BY <1>1 DEF LockHelper, ShareInv, Places, Shared, Opening
<1>2. CASE HelperFails(p)
  <2>1. Opening(p) /\ Fails(p) /\ UNCHANGED <<slot, arc, loaded, loads>>
      BY <1>2 DEF HelperFails, InHelper
  <2>2. held' = held
      BY <2>1 DEF Fails
  <2> QED BY <2>1, <2>2, FailsPlaces DEF ShareInv, Shared
<1> QED BY <1>1, <1>2

\* open_pipeline starts with the first step of the first candidate.
LEMMA OpenKeeps ==
    ASSUME ShareInv, NEW p \in Players, NEW r \in Requests, Open(p, r)
    PROVE  ShareInv'
<1>1. UNCHANGED <<at, held, arc, slot, loads, loaded>> /\ at[p] = 1
    BY DEF Open, helper, ShareInv, Places
<1>2. CASE DemuxOpens(r.file)
  <2>1. phase' = [phase EXCEPT ![p] = "opening"] /\ left' = [left EXCEPT ![p] = Candidates(r)]
      BY <1>2 DEF Open
  <2>2. Candidates(r) \in Seq(Decoders)
      BY CandidatesType
  <2>3. Candidates(r) # <<>> => 1 \in 1..Len(New(Head(Candidates(r))))
    <3> SUFFICES ASSUME Candidates(r) # <<>> PROVE 1 \in 1..Len(New(Head(Candidates(r))))
        OBVIOUS
    <3>1. Head(Candidates(r)) \in Decoders
        BY <2>2
    <3>2. New(Head(Candidates(r))) \in Seq(Steps) /\ Len(New(Head(Candidates(r)))) > 0
        BY <3>1, NewType
    <3> QED BY <3>2
  <2> QED BY <1>1, <2>1, <2>2, <2>3 DEF ShareInv, Places, Shared, Opening, Phases
<1>3. CASE ~DemuxOpens(r.file)
  <2>1. phase' = [phase EXCEPT ![p] = "failed"] /\ left' = left
      BY <1>3 DEF Open
  <2> QED BY <1>1, <2>1 DEF ShareInv, Places, Shared, Opening, Phases
<1> QED BY <1>2, <1>3

\* A release: the Arc goes with the thread's share of the helper.
LEMMA ReleaseKeeps == ASSUME ShareInv, NEW p \in Players, Release(p) PROVE ShareInv'
<1>1. PICK i \in DOMAIN todo[p] :
          /\ held' = [held EXCEPT ![p] = @ \ {todo[p][i]}]
          /\ arc' = IF todo[p][i] = "helper" THEN [arc EXCEPT ![p] = 0] ELSE arc
    BY DEF Release
<1> DEFINE r == todo[p][i]
<1>2. /\ held' = [held EXCEPT ![p] = @ \ {r}]
      /\ arc' = IF r = "helper" THEN [arc EXCEPT ![p] = 0] ELSE arc
      /\ UNCHANGED <<phase, left, at, slot, loaded, loads>>
    BY <1>1 DEF Release
<1> HIDE DEF r
<1>3. Places'
    BY <1>2 DEF ShareInv, Places, Opening
<1>4. Shared'
    BY <1>2 DEF ShareInv, Shared
<1> QED BY <1>3, <1>4 DEF ShareInv

\* The next candidate starts at its first step.
LEMMA ReleasedKeeps == ASSUME ShareInv, NEW p \in Players, Released(p) PROVE ShareInv'
<1>1. /\ phase' = [phase EXCEPT ![p] = "opening"] /\ left' = [left EXCEPT ![p] = Tail(@)]
      /\ at' = [at EXCEPT ![p] = 1] /\ UNCHANGED <<held, arc, slot, loaded, loads>>
    BY DEF Released, helper
<1>2. Tail(left[p]) \in Seq(Decoders)
    BY DEF Released, ShareInv, Places
<1>3. Tail(left[p]) # <<>> => 1 \in 1..Len(New(Head(Tail(left[p]))))
  <2> SUFFICES ASSUME Tail(left[p]) # <<>> PROVE 1 \in 1..Len(New(Head(Tail(left[p]))))
      OBVIOUS
  <2>1. Head(Tail(left[p])) \in Decoders
      BY <1>2
  <2>2. New(Head(Tail(left[p]))) \in Seq(Steps) /\ Len(New(Head(Tail(left[p])))) > 0
      BY <2>1, NewType
  <2> QED BY <2>2
<1> QED BY <1>1, <1>2, <1>3 DEF ShareInv, Places, Shared, Opening, Phases

\* The rest moves a thread from one phase to another, or unloads what nobody
\* has an Arc of.
LEMMA OthersKeep ==
    ASSUME ShareInv, NEW p \in Players,
           OutOfCandidates(p) \/ Play(p) \/ Close(p) \/ Forget(p)
    PROVE  ShareInv'
<1>1. CASE OutOfCandidates(p)
    BY <1>1 DEF OutOfCandidates, helper, ShareInv, Places, Shared, Opening, Phases
<1>2. CASE Play(p)
    BY <1>2 DEF Play, helper, ShareInv, Places, Shared, Opening
<1>3. CASE Close(p)
  <2>1. <<>> \in Seq(Decoders)
      OBVIOUS
  <2> QED BY <1>3, <2>1 DEF Close, helper, ShareInv, Places, Shared, Opening, Phases
<1>4. CASE Forget(p)
    BY <1>4 DEF Forget, helper, ShareInv, Places, Shared, Opening, Phases
<1> QED BY <1>1, <1>2, <1>3, <1>4

LEMMA UnloadKeeps == ASSUME ShareInv, NEW i \in loaded, Unload(i) PROVE ShareInv'
BY DEF Unload, InUse, ShareInv, Places, Shared, Opening

LEMMA ShareInvNext == ShareInv /\ [Next]_vars => ShareInv'
<1> SUFFICES ASSUME ShareInv, [Next]_vars PROVE ShareInv'
    OBVIOUS
<1>1. CASE UNCHANGED vars
    BY <1>1 DEF vars, helper, ShareInv, Places, Shared, Opening
<1>2. ASSUME NEW p \in Players, NEW r \in Requests, Open(p, r) PROVE ShareInv'
    BY <1>2, OpenKeeps
<1>3. ASSUME NEW p \in Players, Runs(p) PROVE ShareInv'
    BY <1>3, ConstructKeeps, LockKeeps, UpgradeKeeps, LoadKeeps, ReleaseKeeps, ReleasedKeeps,
       OthersKeep DEF Runs
<1>4. ASSUME NEW p \in Players, Play(p) \/ Close(p) \/ Forget(p) PROVE ShareInv'
    BY <1>4, OthersKeep
<1>5. ASSUME NEW i \in loaded, Unload(i) PROVE ShareInv'
    BY <1>5, UnloadKeeps
<1> QED BY <1>1, <1>2, <1>3, <1>4, <1>5 DEF Next

\* Everybody who holds the VA-API helper holds the same, loaded instance, for any
\* number of threads opening, failing and closing at any time.
THEOREM HelperSharedCorrect == Spec => []HelperShared
<1>1. ShareInv => HelperShared
    BY DEF ShareInv, Shared, HelperShared
<1> QED BY ShareInvInit, ShareInvNext, <1>1, PTL DEF Spec

-----------------------------------------------------------------------------
(***************************************************************************)
(* What a thread holds.  While a constructor runs it holds exactly what    *)
(* its steps gave; while it releases, the order of the release names       *)
(* everything it holds, and names nothing before what still needs it.      *)
(***************************************************************************)

(* What the first n steps of c's constructor give. *)
Gains(c, n) == {New(c)[i].gets : i \in 1..n} \ {None}

(* Nothing in the order is released before what needs it. *)
Ordered(c, s) == \A i, j \in DOMAIN s : s[j] \in Needs(c, s[i]) => i < j

Closed(c, h) == h \subseteq Resources(c) /\ \A r \in h : Needs(c, r) \subseteq h

Named(h, s) == \A r \in h : \E i \in DOMAIN s : s[i] = r

Unwinds(c, h, s) == Closed(c, h) /\ Ordered(c, s) /\ Named(h, s) /\ s \in Seq(Names)

\* One step more.
LEMMA GainsGrow ==
    ASSUME NEW c \in Decoders, NEW n \in Nat
    PROVE  /\ Gains(c, 0) = {}
           /\ Gains(c, n + 1) = Gains(c, n) \cup ({New(c)[n + 1].gets} \ {None})
<1>1. 1..0 = {} /\ 1..n + 1 = (1..n) \cup {n + 1}
    OBVIOUS
<1> QED BY <1>1 DEF Gains

LEMMA SomeNames ==
    /\ None \notin {"cuda", "cuvid", "ctx", "lock", "parser", "surfaces", "helper", "display",
                    "gbm", "context", "lib", "decoder"}
BY BackendsAssumption DEF Names

\* The five constructors, resource by resource.
LEMMA NvdecGains ==
    LET c == "nvdec"
    IN  /\ Gains(c, 0) = {} /\ Gains(c, 1) = {} /\ Gains(c, 2) = {"cuda"}
        /\ Gains(c, 3) = {"cuda", "cuvid"} /\ Gains(c, 4) = {"cuda", "cuvid"}
        /\ Gains(c, 5) = {"cuda", "cuvid"} /\ Gains(c, 6) = {"cuda", "cuvid", "ctx"}
        /\ Gains(c, 7) = {"cuda", "cuvid", "ctx"}
        /\ Gains(c, 8) = {"cuda", "cuvid", "ctx", "lock"}
        /\ Gains(c, 9) = {"cuda", "cuvid", "ctx", "lock", "parser"}
<1> DEFINE c == "nvdec"
<1>1. \A n \in Nat : /\ Gains(c, 0) = {}
                     /\ Gains(c, n + 1) = Gains(c, n) \cup ({NvdecNew[n + 1].gets} \ {None})
    BY GainsGrow, NewCases DEF Decoders
<1>2. /\ NvdecNew[0 + 1].gets = None /\ NvdecNew[1 + 1].gets = "cuda"
      /\ NvdecNew[2 + 1].gets = "cuvid" /\ NvdecNew[3 + 1].gets = None
      /\ NvdecNew[4 + 1].gets = None /\ NvdecNew[5 + 1].gets = "ctx"
      /\ NvdecNew[6 + 1].gets = None /\ NvdecNew[7 + 1].gets = "lock"
      /\ NvdecNew[8 + 1].gets = "parser"
    BY NvdecAt DEF Check, Step
<1> HIDE DEF c
<1>3. Gains(c, 0) = {}
    BY <1>1
<1>4. Gains(c, 0 + 1) = {}
    BY <1>1, <1>2, <1>3
<1>5. Gains(c, 1 + 1) = {"cuda"}
    BY <1>1, <1>2, <1>4, SomeNames
<1>6. Gains(c, 2 + 1) = {"cuda", "cuvid"}
    BY <1>1, <1>2, <1>5, SomeNames
<1>7. Gains(c, 3 + 1) = {"cuda", "cuvid"}
    BY <1>1, <1>2, <1>6
<1>8. Gains(c, 4 + 1) = {"cuda", "cuvid"}
    BY <1>1, <1>2, <1>7
<1>9. Gains(c, 5 + 1) = {"cuda", "cuvid", "ctx"}
    BY <1>1, <1>2, <1>8, SomeNames
<1>10. Gains(c, 6 + 1) = {"cuda", "cuvid", "ctx"}
    BY <1>1, <1>2, <1>9
<1>11. Gains(c, 7 + 1) = {"cuda", "cuvid", "ctx", "lock"}
    BY <1>1, <1>2, <1>10, SomeNames
<1>12. Gains(c, 8 + 1) = {"cuda", "cuvid", "ctx", "lock", "parser"}
    BY <1>1, <1>2, <1>11, SomeNames
<1> QED BY <1>3, <1>4, <1>5, <1>6, <1>7, <1>8, <1>9, <1>10, <1>11, <1>12 DEF c

LEMMA VaapiGains ==
    LET c == "vaapi"
    IN  /\ Gains(c, 0) = {} /\ Gains(c, 1) = {} /\ Gains(c, 2) = {"helper"}
        /\ Gains(c, 3) = {"helper"} /\ Gains(c, 4) = {"helper", "display"}
        /\ Gains(c, 5) = {"helper", "display", "gbm"}
        /\ Gains(c, 6) = {"helper", "display", "gbm", "context"}
<1> DEFINE c == "vaapi"
<1>1. \A n \in Nat : /\ Gains(c, 0) = {}
                     /\ Gains(c, n + 1) = Gains(c, n) \cup ({VaapiNew[n + 1].gets} \ {None})
    BY GainsGrow, NewCases DEF Decoders
<1>2. /\ VaapiNew[0 + 1].gets = None /\ VaapiNew[1 + 1].gets = "helper"
      /\ VaapiNew[2 + 1].gets = None /\ VaapiNew[3 + 1].gets = "display"
      /\ VaapiNew[4 + 1].gets = "gbm" /\ VaapiNew[5 + 1].gets = "context"
    BY VaapiAt DEF Check, Step
<1> HIDE DEF c
<1>3. Gains(c, 0) = {}
    BY <1>1
<1>4. Gains(c, 0 + 1) = {}
    BY <1>1, <1>2, <1>3
<1>5. Gains(c, 1 + 1) = {"helper"}
    BY <1>1, <1>2, <1>4, SomeNames
<1>6. Gains(c, 2 + 1) = {"helper"}
    BY <1>1, <1>2, <1>5
<1>7. Gains(c, 3 + 1) = {"helper", "display"}
    BY <1>1, <1>2, <1>6, SomeNames
<1>8. Gains(c, 4 + 1) = {"helper", "display", "gbm"}
    BY <1>1, <1>2, <1>7, SomeNames
<1>9. Gains(c, 5 + 1) = {"helper", "display", "gbm", "context"}
    BY <1>1, <1>2, <1>8, SomeNames
<1> QED BY <1>3, <1>4, <1>5, <1>6, <1>7, <1>8, <1>9 DEF c

LEMMA SoftwareGains ==
    /\ Gains("openh264", 0) = {} /\ Gains("openh264", 1) = {"lib"}
    /\ Gains("openh264", 2) = {"lib"} /\ Gains("openh264", 3) = {"lib", "decoder"}
    /\ Gains("openh264", 4) = {"lib", "decoder"} /\ Gains("openh264", 5) = {"lib", "decoder"}
    /\ Gains("openh264", 6) = {"lib", "decoder"}
    /\ Gains("libvpx", 0) = {} /\ Gains("libvpx", 1) = {"lib"} /\ Gains("libvpx", 2) = {"lib"}
    /\ Gains("libvpx", 3) = {"lib"} /\ Gains("libvpx", 4) = {"lib", "context"}
    /\ Gains("rav1d", 0) = {} /\ Gains("rav1d", 1) = {"decoder"}
<1>1. \A n \in Nat :
         /\ Gains("openh264", 0) = {}
         /\ Gains("openh264", n + 1) = Gains("openh264", n) \cup ({H264New[n + 1].gets} \ {None})
    BY GainsGrow, NewCases DEF Decoders
<1>2. /\ H264New[0 + 1].gets = "lib" /\ H264New[1 + 1].gets = None
      /\ H264New[2 + 1].gets = "decoder" /\ H264New[3 + 1].gets = None
      /\ H264New[4 + 1].gets = None /\ H264New[5 + 1].gets = None
    BY H264At DEF Check, Step
<1>3. Gains("openh264", 0) = {}
    BY <1>1
<1>4. Gains("openh264", 0 + 1) = {"lib"}
    BY <1>1, <1>2, <1>3, SomeNames
<1>5. Gains("openh264", 1 + 1) = {"lib"}
    BY <1>1, <1>2, <1>4
<1>6. Gains("openh264", 2 + 1) = {"lib", "decoder"}
    BY <1>1, <1>2, <1>5, SomeNames
<1>7. Gains("openh264", 3 + 1) = {"lib", "decoder"}
    BY <1>1, <1>2, <1>6
<1>8. Gains("openh264", 4 + 1) = {"lib", "decoder"}
    BY <1>1, <1>2, <1>7
<1>9. Gains("openh264", 5 + 1) = {"lib", "decoder"}
    BY <1>1, <1>2, <1>8
<1>10. /\ Gains("libvpx", 0) = {} /\ Gains("libvpx", 1) = {"lib"} /\ Gains("libvpx", 2) = {"lib"}
       /\ Gains("libvpx", 3) = {"lib"} /\ Gains("libvpx", 4) = {"lib", "context"}
  <2>1. \A n \in Nat :
           /\ Gains("libvpx", 0) = {}
           /\ Gains("libvpx", n + 1) = Gains("libvpx", n) \cup ({VpxNew[n + 1].gets} \ {None})
      BY GainsGrow, NewCases DEF Decoders
  <2>2. /\ VpxNew[0 + 1].gets = "lib" /\ VpxNew[1 + 1].gets = None
        /\ VpxNew[2 + 1].gets = None /\ VpxNew[3 + 1].gets = "context"
      BY VpxAt DEF Check, Step
  <2>3. Gains("libvpx", 0) = {}
      BY <2>1
  <2>4. Gains("libvpx", 0 + 1) = {"lib"}
      BY <2>1, <2>2, <2>3, SomeNames
  <2>5. Gains("libvpx", 1 + 1) = {"lib"}
      BY <2>1, <2>2, <2>4
  <2>6. Gains("libvpx", 2 + 1) = {"lib"}
      BY <2>1, <2>2, <2>5
  <2>7. Gains("libvpx", 3 + 1) = {"lib", "context"}
      BY <2>1, <2>2, <2>6, SomeNames
  <2> QED BY <2>3, <2>4, <2>5, <2>6, <2>7
<1>11. Gains("rav1d", 0) = {} /\ Gains("rav1d", 1) = {"decoder"}
  <2>1. /\ Gains("rav1d", 0) = {}
        /\ Gains("rav1d", 0 + 1) = Gains("rav1d", 0) \cup ({Av1New[0 + 1].gets} \ {None})
      BY GainsGrow, NewCases DEF Decoders
  <2>2. Av1New[0 + 1].gets = "decoder"
      BY Av1At DEF Step
  <2> QED BY <2>1, <2>2, SomeNames
<1> QED BY <1>3, <1>4, <1>5, <1>6, <1>7, <1>8, <1>9, <1>10, <1>11

LEMMA ResourcesAre ==
    /\ Resources("nvdec") = {"cuda", "cuvid", "ctx", "lock", "parser", "surfaces"}
    /\ Resources("vaapi") = {"helper", "display", "gbm", "context", "surfaces"}
    /\ Resources("openh264") = {"lib", "decoder"}
    /\ Resources("libvpx") = {"lib", "context"}
    /\ Resources("rav1d") = {"decoder"}
<1>1. /\ DOMAIN NvdecNew = 1..9 /\ DOMAIN VaapiNew = 1..6 /\ DOMAIN H264New = 1..6
      /\ DOMAIN VpxNew = 1..4 /\ DOMAIN Av1New = 1..1
    BY NvdecAt, VaapiAt, H264At, VpxAt, Av1At
<1>2. \A c \in Decoders : Resources(c) = ({New(c)[i].gets : i \in DOMAIN New(c)} \ {None})
                                          \cup (IF c \in {"nvdec", "vaapi"} THEN {"surfaces"} ELSE {})
    BY DEF Resources
<1>3. /\ Resources("nvdec") = Gains("nvdec", 9) \cup {"surfaces"}
      /\ Resources("vaapi") = Gains("vaapi", 6) \cup {"surfaces"}
      /\ Resources("openh264") = Gains("openh264", 6)
      /\ Resources("libvpx") = Gains("libvpx", 4)
      /\ Resources("rav1d") = Gains("rav1d", 1)
    BY <1>1, <1>2, NewCases DEF Gains, Decoders
<1> QED BY <1>3, NvdecGains, VaapiGains, SoftwareGains

LEMMA NeedsAre ==
    /\ Needs("nvdec", "cuda") = {} /\ Needs("nvdec", "cuvid") = {}
    /\ Needs("nvdec", "ctx") = {"cuda"} /\ Needs("nvdec", "lock") = {"cuvid", "ctx"}
    /\ Needs("nvdec", "parser") = {"cuvid", "ctx"}
    /\ Needs("nvdec", "surfaces") = {"cuda", "cuvid", "ctx", "lock"}
    /\ Needs("vaapi", "helper") = {} /\ Needs("vaapi", "display") = {"helper"}
    /\ Needs("vaapi", "gbm") = {"helper"} /\ Needs("vaapi", "context") = {"display", "helper"}
    /\ Needs("vaapi", "surfaces") = {"display", "helper"}
    /\ Needs("openh264", "lib") = {} /\ Needs("openh264", "decoder") = {"lib"}
    /\ Needs("libvpx", "lib") = {} /\ Needs("libvpx", "context") = {"lib"}
    /\ \A r : Needs("rav1d", r) = {}
BY DEF Needs

\* Whatever step a constructor is at, what it has is usable.
LEMMA GainsClosed ==
    ASSUME NEW c \in Decoders, NEW n \in 0..Len(New(c))
    PROVE  Closed(c, Gains(c, n))
<1>1. CASE c = "nvdec"
  <2>1. n \in 0..9
      BY <1>1, NewCases, NvdecAt
  <2>2. n = 0 \/ n = 1 \/ n = 2 \/ n = 3 \/ n = 4 \/ n = 5 \/ n = 6 \/ n = 7 \/ n = 8 \/ n = 9
      BY <2>1
  <2> QED BY <1>1, <2>2, NvdecGains, NeedsAre, ResourcesAre DEF Closed
<1>2. CASE c = "vaapi"
  <2>1. n \in 0..6
      BY <1>2, NewCases, VaapiAt
  <2>2. n = 0 \/ n = 1 \/ n = 2 \/ n = 3 \/ n = 4 \/ n = 5 \/ n = 6
      BY <2>1
  <2> QED BY <1>2, <2>2, VaapiGains, NeedsAre, ResourcesAre DEF Closed
<1>3. CASE c = "openh264"
  <2>1. n \in 0..6
      BY <1>3, NewCases, H264At
  <2>2. n = 0 \/ n = 1 \/ n = 2 \/ n = 3 \/ n = 4 \/ n = 5 \/ n = 6
      BY <2>1
  <2> QED BY <1>3, <2>2, SoftwareGains, NeedsAre, ResourcesAre DEF Closed
<1>4. CASE c = "libvpx"
  <2>1. n \in 0..4
      BY <1>4, NewCases, VpxAt
  <2>2. n = 0 \/ n = 1 \/ n = 2 \/ n = 3 \/ n = 4
      BY <2>1
  <2> QED BY <1>4, <2>2, SoftwareGains, NeedsAre, ResourcesAre DEF Closed
<1>5. CASE c = "rav1d"
  <2>1. n \in 0..1
      BY <1>5, NewCases, Av1At
  <2>2. n = 0 \/ n = 1
      BY <2>1
  <2> QED BY <1>5, <2>2, SoftwareGains, NeedsAre, ResourcesAre DEF Closed
<1> QED BY <1>1, <1>2, <1>3, <1>4, <1>5 DEF Decoders

\* The first pictures need what the constructor gave.
LEMMA SurfacesClosed ==
    ASSUME NEW c \in {"nvdec", "vaapi"}
    PROVE  Closed(c, Gains(c, Len(New(c))) \cup {"surfaces"})
<1>1. CASE c = "nvdec"
  <2>1. Gains(c, Len(New(c))) = {"cuda", "cuvid", "ctx", "lock", "parser"}
      BY <1>1, NewCases, NvdecAt, NvdecGains
  <2> QED BY <1>1, <2>1, NeedsAre, ResourcesAre DEF Closed
<1>2. CASE c = "vaapi"
  <2>1. Gains(c, Len(New(c))) = {"helper", "display", "gbm", "context"}
      BY <1>2, NewCases, VaapiAt, VaapiGains
  <2> QED BY <1>2, <2>1, NeedsAre, ResourcesAre DEF Closed
<1> QED BY <1>1, <1>2

-----------------------------------------------------------------------------
(* The orders of release. *)

LEMMA NvStateAt ==
    LET s == NvDestroy \o NvLibraries
    IN  /\ s \in Seq(Names) /\ Len(s) = 5 /\ DOMAIN s = 1..5 /\ s[1] = "surfaces" /\ s[2] = "lock" /\ s[3] = "ctx"
        /\ s[4] = "cuda" /\ s[5] = "cuvid"
<1> DEFINE s == NvDestroy \o NvLibraries
<1>1. NvDestroy \in Seq(Names) /\ Len(NvDestroy) = 3 /\ NvLibraries \in Seq(Names) /\ Len(NvLibraries) = 2
    BY SeqOfThree, SeqOfTwo DEF NvDestroy, NvLibraries, Names
<1>2. /\ NvDestroy[1] = "surfaces" /\ NvDestroy[2] = "lock" /\ NvDestroy[3] = "ctx"
      /\ NvLibraries[1] = "cuda" /\ NvLibraries[2] = "cuvid"
    BY DEF NvDestroy, NvLibraries
<1>3. s \in Seq(Names) /\ Len(s) = Len(NvDestroy) + Len(NvLibraries)
    BY <1>1, SeqsJoined
<1>4. /\ \A i \in 1..Len(NvDestroy) : s[i] = NvDestroy[i]
      /\ \A i \in Len(NvDestroy) + 1..Len(NvDestroy) + Len(NvLibraries) :
            s[i] = NvLibraries[i - Len(NvDestroy)]
    BY <1>1, JoinAt, Zenon
<1> HIDE DEF s
<1>5. \A i \in 1..3 : s[i] = NvDestroy[i]
    BY <1>1, <1>4, Zenon
<1>6. \A i \in 3 + 1..3 + 2 : s[i] = NvLibraries[i - 3]
    BY <1>1, <1>4, Zenon
<1>7. s[4] = NvLibraries[4 - 3] /\ s[5] = NvLibraries[5 - 3]
    BY <1>6
<1>8. /\ s \in Seq(Names) /\ Len(s) = 5 /\ DOMAIN s = 1..5 /\ s[1] = "surfaces" /\ s[2] = "lock" /\ s[3] = "ctx"
      /\ s[4] = "cuda" /\ s[5] = "cuvid"
    BY <1>1, <1>2, <1>3, <1>5, <1>7
<1> QED BY <1>8 DEF s

LEMMA NvdecDropAt ==
    /\ NvdecDrop \in Seq(Names) /\ Len(NvdecDrop) = 6
    /\ NvdecDrop[1] = "parser" /\ NvdecDrop[2] = "surfaces" /\ NvdecDrop[3] = "lock"
    /\ NvdecDrop[4] = "ctx" /\ NvdecDrop[5] = "cuda" /\ NvdecDrop[6] = "cuvid"
<1> DEFINE a == <<"parser">>
           s == NvDestroy \o NvLibraries
<1>1. a \in Seq(Names) /\ Len(a) = 1 /\ a[1] = "parser"
    BY SeqOfOne DEF Names
<1>2. /\ s \in Seq(Names) /\ Len(s) = 5 /\ s[1] = "surfaces" /\ s[2] = "lock" /\ s[3] = "ctx"
      /\ s[4] = "cuda" /\ s[5] = "cuvid"
    BY NvStateAt
<1>3. NvdecDrop = a \o s
  <2>1. NvDestroy \in Seq(Names) /\ NvLibraries \in Seq(Names)
      BY SeqOfThree, SeqOfTwo DEF NvDestroy, NvLibraries, Names
  <2> QED BY <1>1, <2>1 DEF NvdecDrop
<1> HIDE DEF a, s
<1>4. NvdecDrop \in Seq(Names) /\ Len(NvdecDrop) = Len(a) + Len(s)
    BY <1>1, <1>2, <1>3, SeqsJoined
<1>5. /\ \A i \in 1..Len(a) : NvdecDrop[i] = a[i]
      /\ \A i \in Len(a) + 1..Len(a) + Len(s) : NvdecDrop[i] = s[i - Len(a)]
    BY <1>1, <1>2, <1>3, JoinAt, Zenon
<1>6. \A i \in 1..1 : NvdecDrop[i] = a[i]
    BY <1>1, <1>5, Zenon
<1>7. \A i \in 1 + 1..1 + 5 : NvdecDrop[i] = s[i - 1]
    BY <1>1, <1>2, <1>5, Zenon
<1>8. /\ NvdecDrop[2] = s[2 - 1] /\ NvdecDrop[3] = s[3 - 1] /\ NvdecDrop[4] = s[4 - 1]
      /\ NvdecDrop[5] = s[5 - 1] /\ NvdecDrop[6] = s[6 - 1]
    BY <1>7
<1> QED BY <1>1, <1>2, <1>4, <1>6, <1>8

\* Every drop lists all the resources, each before what it needs.
LEMMA DropOrder ==
    ASSUME NEW c \in Decoders
    PROVE  Ordered(c, Drop(c)) /\ Named(Resources(c), Drop(c)) /\ Drop(c) \in Seq(Names)
<1>1. CASE c = "nvdec"
  <2>1. Drop(c) = NvdecDrop
      BY <1>1 DEF Drop
  <2>2. DOMAIN NvdecDrop = 1..6
      BY NvdecDropAt
  <2>3. Ordered(c, NvdecDrop)
      BY <1>1, <2>2, NvdecDropAt, NeedsAre DEF Ordered
  <2>4. Named(Resources(c), NvdecDrop)
      BY <1>1, <2>2, NvdecDropAt, ResourcesAre DEF Named
  <2> QED BY <2>1, <2>3, <2>4, NvdecDropAt
<1>2. CASE c = "vaapi"
  <2>1. Drop(c) = VaapiDrop
      BY <1>2 DEF Drop
  <2>2. /\ VaapiDrop \in Seq(Names) /\ DOMAIN VaapiDrop = 1..5
        /\ VaapiDrop[1] = "surfaces" /\ VaapiDrop[2] = "context" /\ VaapiDrop[3] = "gbm"
        /\ VaapiDrop[4] = "display" /\ VaapiDrop[5] = "helper"
      BY DEF VaapiDrop, Names
  <2>3. Ordered(c, VaapiDrop)
      BY <1>2, <2>2, NeedsAre DEF Ordered
  <2>4. Named(Resources(c), VaapiDrop)
      BY <1>2, <2>2, ResourcesAre DEF Named
  <2> QED BY <2>1, <2>2, <2>3, <2>4
<1>3. CASE c = "openh264"
  <2>1. Drop(c) = H264Drop
      BY <1>3 DEF Drop
  <2>2. /\ H264Drop \in Seq(Names) /\ DOMAIN H264Drop = 1..2
        /\ H264Drop[1] = "decoder" /\ H264Drop[2] = "lib"
      BY DEF H264Drop, Names
  <2>3. Ordered(c, H264Drop) /\ Named(Resources(c), H264Drop)
      BY <1>3, <2>2, NeedsAre, ResourcesAre DEF Ordered, Named
  <2> QED BY <2>1, <2>2, <2>3
<1>4. CASE c = "libvpx"
  <2>1. Drop(c) = VpxDrop
      BY <1>4 DEF Drop
  <2>2. /\ VpxDrop \in Seq(Names) /\ DOMAIN VpxDrop = 1..2
        /\ VpxDrop[1] = "context" /\ VpxDrop[2] = "lib"
      BY DEF VpxDrop, Names
  <2>3. Ordered(c, VpxDrop) /\ Named(Resources(c), VpxDrop)
      BY <1>4, <2>2, NeedsAre, ResourcesAre DEF Ordered, Named
  <2> QED BY <2>1, <2>2, <2>3
<1>5. CASE c = "rav1d"
  <2>1. Drop(c) = Av1Drop
      BY <1>5 DEF Drop
  <2>2. Av1Drop \in Seq(Names) /\ DOMAIN Av1Drop = 1..1 /\ Av1Drop[1] = "decoder"
      BY DEF Av1Drop, Names
  <2>3. Ordered(c, Av1Drop) /\ Named(Resources(c), Av1Drop)
      BY <1>5, <2>2, NeedsAre, ResourcesAre DEF Ordered, Named
  <2> QED BY <2>1, <2>2, <2>3
<1> QED BY <1>1, <1>2, <1>3, <1>4, <1>5 DEF Decoders

\* So is every error path, for what the constructor had when its step n failed.
LEMMA UnwindOrder ==
    ASSUME NEW c \in Decoders, NEW n \in 1..Len(New(c))
    PROVE  Unwinds(c, Gains(c, n - 1), Unwind(c, New(c)[n].does))
<1> DEFINE s == Unwind(c, New(c)[n].does)
           h == Gains(c, n - 1)
<1>1. Len(New(c)) \in Nat
    BY NewType
<1>2. Closed(c, h)
    BY <1>1, GainsClosed
<1>3. h \subseteq Resources(c)
    BY <1>2 DEF Closed
<1>4. CASE c # "nvdec"
  <2>1. s = Drop(c)
      BY <1>4 DEF Unwind
  <2> HIDE DEF s, h
  <2>2. Ordered(c, s) /\ Named(h, s) /\ s \in Seq(Names)
      BY <2>1, <1>3, DropOrder DEF Named
  <2> QED BY <1>2, <2>2 DEF Unwinds, s, h
<1>5. CASE c = "nvdec" /\ n = 9
  <2>1. New(c)[n].does = "cuvidCreateVideoParser"
      BY <1>5, NewCases, NvdecAt DEF Step
  <2>2. s = Drop(c)
      BY <1>5, <2>1 DEF Unwind
  <2> HIDE DEF s, h
  <2>3. Ordered(c, s) /\ Named(h, s) /\ s \in Seq(Names)
      BY <2>2, <1>3, DropOrder DEF Named
  <2> QED BY <1>2, <2>3 DEF Unwinds, s, h
<1>6. CASE c = "nvdec" /\ n \in {7, 8}
  <2>1. New(c)[n].does \in {"caps", "cuvidCtxLockCreate"}
      BY <1>6, NewCases, NvdecAt DEF Step, Check
  <2>2. s = NvDestroy \o NvLibraries
      BY <1>6, <2>1 DEF Unwind
  <2>3. h = {"cuda", "cuvid", "ctx"}
      BY <1>6, NvdecGains
  <2> HIDE DEF s, h
  <2>4. DOMAIN s = 1..5 /\ s \in Seq(Names) /\ s[1] = "surfaces" /\ s[2] = "lock" /\ s[3] = "ctx"
        /\ s[4] = "cuda" /\ s[5] = "cuvid"
      BY <2>2, NvStateAt, Zenon
  <2>5. Ordered(c, s)
      BY <1>6, <2>4, NeedsAre DEF Ordered
  <2>6. Named(h, s)
      BY <2>3, <2>4 DEF Named
  <2> QED BY <1>2, <2>4, <2>5, <2>6 DEF Unwinds, s, h
<1>7. CASE c = "nvdec" /\ n \in 1..6
  <2>1. n = 1 \/ n = 2 \/ n = 3 \/ n = 4 \/ n = 5 \/ n = 6
      BY <1>7
  <2>2. New(c)[n].does \in {"codec", "libcuda", "libnvcuvid", "cuInit", "device", "cuCtxCreate"}
      BY <1>7, <2>1, NewCases, NvdecAt DEF Step, Check
  <2>3. s = <<"cuvid", "cuda">>
      BY <1>7, <2>2 DEF Unwind
  <2>4. h \subseteq {"cuda", "cuvid"}
      BY <1>7, <2>1, NvdecGains
  <2>5. DOMAIN s = 1..2 /\ s \in Seq(Names) /\ s[1] = "cuvid" /\ s[2] = "cuda"
      BY <2>3 DEF Names
  <2> HIDE DEF s, h
  <2>6. Ordered(c, s)
      BY <1>7, <2>5, NeedsAre DEF Ordered
  <2>7. Named(h, s)
      BY <2>4, <2>5 DEF Named
  <2> QED BY <1>2, <2>5, <2>6, <2>7 DEF Unwinds, s, h
<1>8. c = "nvdec" => n \in 1..6 \/ n \in {7, 8} \/ n = 9
  <2>1. c = "nvdec" => n \in 1..9
      BY NewCases, NvdecAt
  <2> QED BY <2>1
<1> QED BY <1>4, <1>5, <1>6, <1>7, <1>8

-----------------------------------------------------------------------------
(* What thread p holds, by phase. *)
Holds(p) ==
    LET c == Head(left[p])
    IN  /\ todo[p] \in Seq(Names)
        /\ phase[p] \in {"idle", "failed"} => held[p] = {}
        /\ phase[p] = "opening" /\ left[p] = <<>> => held[p] = {}
        /\ Opening(p) => held[p] = Gains(c, at[p] - 1)
        /\ phase[p] = "ready" =>
              /\ left[p] # <<>>
              /\ \/ held[p] = Gains(c, Len(New(c)))
                 \/ c \in {"nvdec", "vaapi"} /\ held[p] = Gains(c, Len(New(c))) \cup {"surfaces"}
        /\ phase[p] = "releasing" => \E d \in Decoders : Unwinds(d, held[p], todo[p])

HeldInv ==
    /\ ShareInv
    /\ DOMAIN todo = Players
    /\ \A p \in Players : Holds(p)

LEMMA HeldInvInit == Init => HeldInv
<1> SUFFICES ASSUME Init PROVE HeldInv
    OBVIOUS
<1>1. <<>> \in Seq(Names)
    OBVIOUS
<1> QED BY <1>1, ShareInvInit DEF Init, HeldInv, Holds, Opening

\* A thread is not disturbed by another's step.
LEMMA HoldsStill ==
    ASSUME NEW q \in Players, Holds(q), phase'[q] = phase[q], left'[q] = left[q], at'[q] = at[q],
           held'[q] = held[q], todo'[q] = todo[q]
    PROVE  Holds(q)'
BY DEF Holds, Opening

LEMMA OthersHold ==
    ASSUME HeldInv, NEW p \in Players, NEW q \in Players, q # p,
           Runs(p) \/ Play(p) \/ Close(p) \/ Forget(p) \/ \E r \in Requests : Open(p, r)
    PROVE  Holds(q)'
<1>1. Holds(q)
    BY DEF HeldInv
<1>2. q \in DOMAIN phase /\ q \in DOMAIN at /\ q \in DOMAIN left
    BY DEF HeldInv, ShareInv, Places
<1>3. CASE Works(p)
  <2>1. left' = left /\ todo' = todo /\ held'[q] = held[q]
      BY <1>3 DEF Works
  <2>2. \/ phase' = [phase EXCEPT ![p] = "ready"] /\ at' = at
        \/ at' = [at EXCEPT ![p] = @ + 1] /\ phase' = phase
      BY <1>3, Zenon DEF Works
  <2>3. phase'[q] = phase[q] /\ at'[q] = at[q]
      BY <1>2, <2>2
  <2> QED BY <1>1, <2>1, <2>3, HoldsStill
<1>4. CASE Fails(p)
  <2>1. left' = left /\ at' = at /\ held' = held
      BY <1>4 DEF Fails
  <2>2. phase'[q] = phase[q] /\ todo'[q] = todo[q]
      BY <1>4 DEF Fails
  <2> QED BY <1>1, <2>1, <2>2, HoldsStill
<1>5. CASE Construct(p) \/ UpgradeHelper(p) \/ LoadHelper(p) \/ HelperFails(p)
    BY <1>3, <1>4, <1>5 DEF Construct, UpgradeHelper, LoadHelper, HelperFails
<1>6. CASE LockHelper(p) \/ OutOfCandidates(p)
  <2>1. /\ left' = left /\ at' = at /\ held' = held /\ todo' = todo
        /\ phase' = phase \/ phase' = [phase EXCEPT ![p] = "failed"]
      BY <1>6, Zenon DEF LockHelper, OutOfCandidates
  <2> QED BY <1>1, <1>2, <2>1, HoldsStill
<1>7. CASE Release(p)
  <2>1. left' = left /\ at' = at /\ todo' = todo /\ phase' = phase /\ held'[q] = held[q]
      BY <1>7 DEF Release
  <2> QED BY <1>1, <2>1, HoldsStill
<1>8. CASE Released(p)
  <2>1. held' = held /\ left'[q] = left[q] /\ at'[q] = at[q] /\ todo'[q] = todo[q]
        /\ phase'[q] = phase[q]
      BY <1>8 DEF Released
  <2> QED BY <1>1, <2>1, HoldsStill
<1>9. CASE Play(p)
  <2>1. left' = left /\ at' = at /\ todo' = todo /\ phase' = phase /\ held'[q] = held[q]
      BY <1>9 DEF Play
  <2> QED BY <1>1, <2>1, HoldsStill
<1>10. CASE Close(p)
  <2>1. held' = held /\ left'[q] = left[q] /\ at'[q] = at[q] /\ todo'[q] = todo[q]
        /\ phase'[q] = phase[q]
      BY <1>10 DEF Close
  <2> QED BY <1>1, <2>1, HoldsStill
<1>11. CASE Forget(p)
  <2>1. held' = held /\ left' = left /\ at'[q] = at[q] /\ todo'[q] = todo[q]
        /\ phase'[q] = phase[q]
      BY <1>11 DEF Forget
  <2> QED BY <1>1, <2>1, HoldsStill
<1>12. ASSUME NEW r \in Requests, Open(p, r) PROVE Holds(q)'
  <2>1. held' = held /\ at' = at /\ todo' = todo
      BY <1>12 DEF Open
  <2>2. \/ left' = [left EXCEPT ![p] = Candidates(r)] /\ phase' = [phase EXCEPT ![p] = "opening"]
        \/ left' = left /\ phase' = [phase EXCEPT ![p] = "failed"]
      BY <1>12, Zenon DEF Open
  <2>3. left'[q] = left[q] /\ phase'[q] = phase[q]
      BY <1>2, <2>2
  <2> QED BY <1>1, <2>1, <2>3, HoldsStill
<1> QED BY <1>5, <1>6, <1>7, <1>8, <1>9, <1>10, <1>11, <1>12 DEF Runs

LEMMA TodoDomain == HeldInv /\ [Next]_vars => DOMAIN todo' = DOMAIN todo
<1> SUFFICES ASSUME HeldInv, [Next]_vars PROVE DOMAIN todo' = DOMAIN todo
    OBVIOUS
<1>1. \A p, x : DOMAIN [todo EXCEPT ![p] = x] = DOMAIN todo
    OBVIOUS
<1>2. ASSUME NEW p \in Players, Runs(p) PROVE DOMAIN todo' = DOMAIN todo
    BY <1>1, <1>2 DEF Runs, Construct, LockHelper, UpgradeHelper, LoadHelper, HelperFails, Works,
       Fails, Release, Released, OutOfCandidates
<1>3. ASSUME NEW p \in Players, Play(p) \/ Close(p) \/ Forget(p) PROVE DOMAIN todo' = DOMAIN todo
    BY <1>1, <1>3 DEF Play, Close, Forget
<1> QED BY <1>2, <1>3 DEF Next, Open, Unload, vars

LEMMA PlaceOf ==
    ASSUME HeldInv, NEW p \in Players, Opening(p)
    PROVE  /\ Head(left[p]) \in Decoders /\ at[p] \in 1..Len(New(Head(left[p])))
           /\ Len(New(Head(left[p]))) \in Nat /\ phase[p] = "opening" /\ left[p] # <<>>
           /\ held[p] = Gains(Head(left[p]), at[p] - 1)
<1>1. Head(left[p]) \in Decoders /\ at[p] \in 1..Len(New(Head(left[p])))
    BY DoingStep DEF HeldInv, ShareInv, Places
<1>2. Len(New(Head(left[p]))) \in Nat
    BY <1>1, NewType
<1> QED BY <1>1, <1>2 DEF HeldInv, Holds, Opening

\* A step of a constructor works.
LEMMA WorksHolds ==
    ASSUME HeldInv, NEW p \in Players, Opening(p), Works(p)
    PROVE  Holds(p)'
<1> DEFINE c == Head(left[p])
<1>1. /\ c \in Decoders /\ at[p] \in 1..Len(New(c)) /\ Len(New(c)) \in Nat
      /\ phase[p] = "opening" /\ left[p] # <<>> /\ held[p] = Gains(c, at[p] - 1)
    BY PlaceOf
<1>2. held'[p] = held[p] \cup ({Doing(p).gets} \ {None}) /\ left' = left /\ todo' = todo
    BY DEF Works, HeldInv, ShareInv, Shared
<1>3. held'[p] = Gains(c, at[p])
  <2>1. Gains(c, (at[p] - 1) + 1)
            = Gains(c, at[p] - 1) \cup ({New(c)[(at[p] - 1) + 1].gets} \ {None})
    <3>1. at[p] - 1 \in Nat
        BY <1>1
    <3> QED BY <1>1, <3>1, GainsGrow
  <2>2. (at[p] - 1) + 1 = at[p]
      BY <1>1
  <2> QED BY <1>1, <1>2, <2>1, <2>2 DEF Doing
<1>4. todo[p] \in Seq(Names)
    BY DEF HeldInv, Holds
<1>5. CASE at[p] = Len(New(c))
  <2>1. phase'[p] = "ready" /\ held'[p] = Gains(c, Len(New(c)))
      BY <1>3, <1>5 DEF Works, HeldInv, ShareInv, Places
  <2> QED BY <1>1, <1>2, <1>4, <2>1 DEF Holds, Opening
<1>6. CASE at[p] # Len(New(c))
  <2>1. phase'[p] = "opening" /\ at'[p] = at[p] + 1
      BY <1>1, <1>6 DEF Works, HeldInv, ShareInv, Places
  <2>2. at'[p] - 1 = at[p]
      BY <1>1, <2>1
  <2> QED BY <1>1, <1>2, <1>3, <1>4, <2>1, <2>2 DEF Holds, Opening
<1> QED BY <1>5, <1>6

\* A step of a constructor fails: its error path is right for what it had.
LEMMA FailsHolds ==
    ASSUME HeldInv, NEW p \in Players, Opening(p), Fails(p)
    PROVE  Holds(p)'
<1> DEFINE c == Head(left[p])
<1>1. /\ c \in Decoders /\ at[p] \in 1..Len(New(c)) /\ Len(New(c)) \in Nat
      /\ phase[p] = "opening" /\ left[p] # <<>> /\ held[p] = Gains(c, at[p] - 1)
    BY PlaceOf
<1>2. /\ phase'[p] = "releasing" /\ held'[p] = held[p]
      /\ todo'[p] = Unwind(c, New(c)[at[p]].does)
    BY DEF Fails, Doing, HeldInv, ShareInv, Places
<1>3. Unwinds(c, held'[p], todo'[p])
    BY <1>1, <1>2, UnwindOrder
<1>4. todo'[p] \in Seq(Names)
    BY <1>3 DEF Unwinds
<1> QED BY <1>1, <1>2, <1>3, <1>4 DEF Holds, Opening

\* A release takes something nothing else needs any more.
LEMMA ReleaseHolds ==
    ASSUME HeldInv, NEW p \in Players, Release(p)
    PROVE  Holds(p)'
<1>1. PICK i \in DOMAIN todo[p] :
          /\ todo[p][i] \in held[p] /\ \A j \in 1..i - 1 : todo[p][j] \notin held[p]
          /\ held' = [held EXCEPT ![p] = @ \ {todo[p][i]}]
    BY DEF Release
<1> DEFINE r == todo[p][i]
<1>2. /\ phase[p] = "releasing" /\ phase'[p] = "releasing" /\ todo'[p] = todo[p]
      /\ held'[p] = held[p] \ {r}
    BY <1>1 DEF Release, HeldInv, ShareInv, Shared
<1>3. PICK d \in Decoders : Unwinds(d, held[p], todo[p])
    BY <1>2 DEF HeldInv, Holds
<1>4. todo[p] \in Seq(Names)
    BY <1>3 DEF Unwinds
<1>5. ASSUME NEW x \in held[p], x # r, r \in Needs(d, x)
      PROVE  FALSE
  <2>1. PICK k \in DOMAIN todo[p] : todo[p][k] = x
      BY <1>3 DEF Unwinds, Named
  <2>2. k < i
      BY <1>3, <1>5, <2>1 DEF Unwinds, Ordered
  <2>3. k \in 1..i - 1
      BY <1>4, <2>1, <2>2
  <2> QED BY <1>1, <1>5, <2>1, <2>3
<1>6. Unwinds(d, held'[p], todo'[p])
    BY <1>2, <1>3, <1>5 DEF Unwinds, Closed, Named
<1> QED BY <1>2, <1>4, <1>6 DEF Holds, Opening

\* When the order is through, nothing is held.
LEMMA EmptiedHoldsNothing ==
    ASSUME HeldInv, NEW p \in Players, phase[p] = "releasing", Emptied(p)
    PROVE  held[p] = {}
<1>1. PICK d \in Decoders : Unwinds(d, held[p], todo[p])
    BY DEF HeldInv, Holds
<1> QED BY <1>1 DEF Emptied, Unwinds, Named

LEMMA FirstStep ==
    ASSUME NEW s \in Seq(Decoders), s # <<>>
    PROVE  Gains(Head(s), 1 - 1) = {}
<1>1. Head(s) \in Decoders
    OBVIOUS
<1> QED BY <1>1, GainsGrow

LEMMA CloseHolds == ASSUME HeldInv, NEW p \in Players, Close(p) PROVE Holds(p)'
<1> DEFINE c == Head(left[p])
<1>1. phase[p] = "ready" /\ left[p] # <<>> /\ left[p] \in Seq(Decoders)
    BY DEF Close, HeldInv, ShareInv, Places, Holds
<1>2. c \in Decoders
    BY <1>1
<1>3. /\ phase'[p] = "releasing" /\ held'[p] = held[p] /\ todo'[p] = Drop(c)
    BY DEF Close, HeldInv, ShareInv, Places
<1>4. Closed(c, held[p])
  <2>1. Len(New(c)) \in 0..Len(New(c))
      BY <1>2, NewType
  <2> QED BY <1>1, <1>2, <2>1, GainsClosed, SurfacesClosed DEF HeldInv, Holds
<1>5. Unwinds(c, held'[p], todo'[p])
    BY <1>2, <1>3, <1>4, DropOrder DEF Unwinds, Closed, Named
<1>6. todo'[p] \in Seq(Names)
    BY <1>5 DEF Unwinds
<1> QED BY <1>2, <1>3, <1>5, <1>6 DEF Holds, Opening

LEMMA RestHolds ==
    ASSUME HeldInv, NEW p \in Players,
           LockHelper(p) \/ Released(p) \/ OutOfCandidates(p) \/ Play(p) \/ Forget(p)
           \/ \E r \in Requests : Open(p, r)
    PROVE  Holds(p)'
<1>1. todo[p] \in Seq(Names) /\ <<>> \in Seq(Names)
    BY DEF HeldInv, Holds
<1>2. CASE LockHelper(p)
    BY <1>2, HoldsStill DEF LockHelper, HeldInv
<1>3. CASE Released(p)
  <2>1. /\ phase'[p] = "opening" /\ left'[p] = Tail(left[p]) /\ at'[p] = 1 /\ held'[p] = held[p]
        /\ todo'[p] = <<>> /\ left[p] \in Seq(Decoders) /\ left[p] # <<>>
      BY <1>3 DEF Released, HeldInv, ShareInv, Places
  <2>2. held[p] = {}
      BY <1>3, EmptiedHoldsNothing DEF Released
  <2>3. left'[p] \in Seq(Decoders)
      BY <2>1
  <2>4. left'[p] # <<>> => Gains(Head(left'[p]), 1 - 1) = {}
      BY <2>3, FirstStep
  <2> QED BY <1>1, <2>1, <2>2, <2>4 DEF Holds, Opening
<1>4. CASE OutOfCandidates(p)
  <2>1. phase'[p] = "failed" /\ held' = held /\ todo' = todo /\ held[p] = {}
      BY <1>4 DEF OutOfCandidates, HeldInv, Holds, ShareInv, Places
  <2> QED BY <1>1, <2>1 DEF Holds, Opening
<1>5. CASE Play(p)
  <2>1. /\ phase[p] = "ready" /\ UNCHANGED <<phase, left, at, todo>>
        /\ held'[p] = held[p] \cup {"surfaces"} /\ Head(left[p]) \in {"nvdec", "vaapi"}
      BY <1>5 DEF Play, HeldInv, ShareInv, Shared
  <2> QED BY <1>1, <2>1 DEF Holds, HeldInv, Opening
<1>6. CASE Forget(p)
  <2>1. phase'[p] = "idle" /\ held' = held /\ todo'[p] = <<>>
      BY <1>6 DEF Forget, HeldInv, ShareInv, Places
  <2>2. held[p] = {}
      BY <1>6, EmptiedHoldsNothing DEF Forget, HeldInv, Holds
  <2> QED BY <1>1, <2>1, <2>2 DEF Holds, Opening
<1>7. ASSUME NEW r \in Requests, Open(p, r) PROVE Holds(p)'
  <2>1. held' = held /\ todo' = todo /\ at' = at /\ held[p] = {} /\ at[p] = 1
      BY <1>7 DEF Open, HeldInv, Holds, ShareInv, Places
  <2>2. CASE DemuxOpens(r.file)
    <3>1. phase'[p] = "opening" /\ left'[p] = Candidates(r)
        BY <1>7, <2>2 DEF Open, HeldInv, ShareInv, Places
    <3>2. left'[p] # <<>> => Gains(Head(left'[p]), 1 - 1) = {}
        BY <3>1, CandidatesType, FirstStep
    <3> QED BY <1>1, <2>1, <3>1, <3>2 DEF Holds, Opening
  <2>3. CASE ~DemuxOpens(r.file)
    <3>1. phase'[p] = "failed"
        BY <1>7, <2>3 DEF Open, HeldInv, ShareInv, Places
    <3> QED BY <1>1, <2>1, <3>1 DEF Holds, Opening
  <2> QED BY <2>2, <2>3
<1> QED BY <1>2, <1>3, <1>4, <1>5, <1>6, <1>7

LEMMA HeldInvNext == HeldInv /\ [Next]_vars => HeldInv'
<1> SUFFICES ASSUME HeldInv, [Next]_vars PROVE HeldInv'
    OBVIOUS
<1>1. ShareInv' /\ DOMAIN todo' = Players
    BY ShareInvNext, TodoDomain DEF HeldInv
<1>2. ASSUME NEW p \in Players PROVE Holds(p)'
  <2>1. CASE UNCHANGED vars
      BY <2>1, HoldsStill DEF vars, HeldInv
  <2>2. ASSUME NEW i \in loaded, Unload(i) PROVE Holds(p)'
      BY <2>2, HoldsStill DEF Unload, HeldInv
  <2>3. ASSUME NEW q \in Players, q # p,
               Runs(q) \/ Play(q) \/ Close(q) \/ Forget(q) \/ \E r \in Requests : Open(q, r)
        PROVE  Holds(p)'
      BY <2>3, OthersHold
  <2>4. ASSUME Runs(p) PROVE Holds(p)'
    <3>1. CASE Construct(p) \/ UpgradeHelper(p) \/ LoadHelper(p) \/ HelperFails(p)
      <4>1. Opening(p) /\ (Works(p) \/ Fails(p))
          BY <3>1 DEF Construct, UpgradeHelper, LoadHelper, HelperFails, InHelper
      <4> QED BY <4>1, WorksHolds, FailsHolds
    <3>2. CASE LockHelper(p) \/ Release(p) \/ Released(p) \/ OutOfCandidates(p)
        BY <3>2, ReleaseHolds, RestHolds
    <3> QED BY <2>4, <3>1, <3>2 DEF Runs
  <2>5. ASSUME Play(p) \/ Close(p) \/ Forget(p) \/ \E r \in Requests : Open(p, r)
        PROVE  Holds(p)'
      BY <2>5, CloseHolds, RestHolds
  <2> QED BY <2>1, <2>2, <2>3, <2>4, <2>5 DEF Next
<1> QED BY <1>1, <1>2 DEF HeldInv

LEMMA HeldInvAlways == Spec => []HeldInv
BY HeldInvInit, HeldInvNext, PTL DEF Spec

\* However several threads open, fail, play and close, and whichever step of a
\* constructor fails, no resource is released, or left, before what needs it.
THEOREM NothingDanglesCorrect == Spec => []NothingDangles
<1>1. HeldInv => NothingDangles
  <2> SUFFICES ASSUME HeldInv, NEW p \in Players PROVE \E c \in Decoders : Lives(p, c)
      BY DEF NothingDangles
  <2>1. Holds(p) /\ phase[p] \in Phases
      BY DEF HeldInv, ShareInv, Places
  <2>2. CASE held[p] = {}
      BY <2>2 DEF Lives, Decoders
  <2>3. CASE Opening(p)
    <3> DEFINE c == Head(left[p])
    <3>1. c \in Decoders /\ at[p] \in 1..Len(New(c)) /\ Len(New(c)) \in Nat
          /\ held[p] = Gains(c, at[p] - 1)
        BY <2>3, PlaceOf
    <3>2. at[p] - 1 \in 0..Len(New(c))
        BY <3>1
    <3>3. Closed(c, held[p])
        BY <3>1, <3>2, GainsClosed
    <3> QED BY <3>1, <3>3 DEF Closed, Lives
  <2>4. CASE phase[p] = "ready"
    <3> DEFINE c == Head(left[p])
    <3>1. c \in Decoders
        BY <2>1, <2>4 DEF Holds, HeldInv, ShareInv, Places
    <3>2. Len(New(c)) \in 0..Len(New(c))
        BY <3>1, NewType
    <3>3. Closed(c, held[p])
        BY <2>1, <2>4, <3>1, <3>2, GainsClosed, SurfacesClosed DEF Holds
    <3> QED BY <3>1, <3>3 DEF Closed, Lives
  <2>5. CASE phase[p] = "releasing"
      BY <2>1, <2>5 DEF Holds, Unwinds, Closed, Lives
  <2> QED BY <2>1, <2>2, <2>3, <2>4, <2>5 DEF Phases, Holds, Opening
<1> QED BY <1>1, HeldInvAlways, PTL

\* What the next candidate starts from is empty, and so is what a failed open and
\* a closed video leave.
THEOREM NothingHeldCorrect == Spec => []NothingHeld
<1>1. HeldInv => NothingHeld
  <2> SUFFICES ASSUME HeldInv, NEW p \in Players
      PROVE  /\ phase[p] \in {"idle", "failed"} => held[p] = {}
             /\ Opening(p) => held[p] \subseteq {New(Head(left[p]))[i].gets : i \in 1..at[p] - 1}
      BY DEF NothingHeld
  <2> QED BY DEF HeldInv, Holds, Gains
<1> QED BY <1>1, HeldInvAlways, PTL

-----------------------------------------------------------------------------
(* The types the other two invariants leave open. *)
TypeInv ==
    /\ HeldInv
    /\ request \in [Players -> Requests \cup {None}]
    /\ rejected \in [Players -> SUBSET Decoders]
    /\ lock \in Players \cup {None}
    /\ slot \in 0..MaxLoads /\ arc \in [Players -> 0..MaxLoads] /\ loaded \subseteq 1..MaxLoads
    /\ loads \in 0..MaxLoads

LEMMA TypeInvInit == Init => TypeInv
<1> SUFFICES ASSUME Init PROVE TypeInv
    OBVIOUS
<1>1. MaxLoads \in Nat
    BY BackendsAssumption
<1> QED BY <1>1, HeldInvInit DEF Init, TypeInv

\* The fields a step of a constructor writes.
LEMMA WorksTypes ==
    ASSUME TypeInv, NEW p \in Players, Opening(p), Works(p) \/ Fails(p)
    PROVE  request' = request /\ rejected' \in [Players -> SUBSET Decoders]
<1>1. Head(left[p]) \in Decoders
    BY PlaceOf DEF TypeInv
<1>2. CASE Works(p)
    BY <1>2 DEF Works, TypeInv
<1>3. CASE Fails(p)
    BY <1>1, <1>3 DEF Fails, TypeInv
<1> QED BY <1>2, <1>3

LEMMA TypeInvNext == TypeInv /\ [Next]_vars => TypeInv'
<1> SUFFICES ASSUME TypeInv, [Next]_vars PROVE TypeInv'
    OBVIOUS
<1>1. HeldInv'
    BY HeldInvNext DEF TypeInv
<1>2. CASE UNCHANGED vars
    BY <1>1, <1>2 DEF vars, helper, TypeInv
<1>3. ASSUME NEW i \in loaded, Unload(i) PROVE TypeInv'
    BY <1>1, <1>3 DEF Unload, TypeInv
<1>4. ASSUME NEW p \in Players, NEW r \in Requests, Open(p, r) PROVE TypeInv'
    BY <1>1, <1>4 DEF Open, helper, TypeInv
<1>5. ASSUME NEW p \in Players, Runs(p) PROVE TypeInv'
  <2>1. CASE Construct(p)
    <3>1. request' = request /\ rejected' \in [Players -> SUBSET Decoders]
        BY <2>1, WorksTypes DEF Construct
    <3> QED BY <1>1, <2>1, <3>1 DEF Construct, helper, TypeInv
  <2>2. CASE LockHelper(p)
      BY <1>1, <2>2 DEF LockHelper, TypeInv
  <2>3. CASE UpgradeHelper(p)
    <3>1. request' = request /\ rejected' \in [Players -> SUBSET Decoders]
        BY <2>3, WorksTypes DEF UpgradeHelper, InHelper
    <3> QED BY <1>1, <2>3, <3>1 DEF UpgradeHelper, TypeInv
  <2>4. CASE LoadHelper(p)
    <3>1. request' = request /\ rejected' \in [Players -> SUBSET Decoders]
        BY <2>4, WorksTypes DEF LoadHelper, InHelper
    <3>2. loads' \in 1..MaxLoads
        BY <2>4, BackendsAssumption DEF LoadHelper, TypeInv
    <3>3. /\ loaded' = loaded \cup {loads'} /\ slot' = loads'
          /\ arc' = [arc EXCEPT ![p] = loads'] /\ lock' = None
        BY <2>4 DEF LoadHelper
    <3>4. loads' \in 0..MaxLoads
        BY <3>2
    <3> QED BY <1>1, <3>1, <3>2, <3>3, <3>4 DEF TypeInv
  <2>5. CASE HelperFails(p)
    <3>1. request' = request /\ rejected' \in [Players -> SUBSET Decoders]
        BY <2>5, WorksTypes DEF HelperFails, InHelper
    <3> QED BY <1>1, <2>5, <3>1 DEF HelperFails, TypeInv
  <2>6. CASE Release(p)
    <3>1. arc' = arc \/ arc' = [arc EXCEPT ![p] = 0]
        BY <2>6 DEF Release
    <3>2. 0 \in 0..MaxLoads
        BY BackendsAssumption
    <3>3. arc' \in [Players -> 0..MaxLoads]
        BY <3>1, <3>2 DEF TypeInv
    <3> QED BY <1>1, <2>6, <3>3 DEF Release, TypeInv
  <2>7. CASE Released(p) \/ OutOfCandidates(p)
      BY <1>1, <2>7 DEF Released, OutOfCandidates, helper, TypeInv
  <2> QED BY <1>5, <2>1, <2>2, <2>3, <2>4, <2>5, <2>6, <2>7 DEF Runs
<1>6. ASSUME NEW p \in Players, Play(p) \/ Close(p) \/ Forget(p) PROVE TypeInv'
    BY <1>1, <1>6 DEF Play, Close, Forget, helper, TypeInv
<1> QED BY <1>2, <1>3, <1>4, <1>5, <1>6 DEF Next

LEMMA TypeInvAlways == Spec => []TypeInv
BY TypeInvInit, TypeInvNext, PTL DEF Spec

LEMMA ElementsOf == ASSUME NEW S, NEW s \in Seq(S) PROVE ToSet(s) \subseteq S
BY DEF ToSet

\* Every variable stays in its type, and an opening thread is at a step that exists.
THEOREM TypeCorrect == Spec => []TypeOK
<1>1. TypeInv => TypeOK
  <2> SUFFICES ASSUME TypeInv PROVE TypeOK
      OBVIOUS
  <2>1. ASSUME NEW p \in Players
        PROVE  /\ ToSet(left[p]) \subseteq Decoders /\ ToSet(todo[p]) \subseteq Names
               /\ Opening(p) => at[p] \in DOMAIN New(Head(left[p]))
    <3>1. left[p] \in Seq(Decoders) /\ todo[p] \in Seq(Names)
        BY DEF TypeInv, HeldInv, ShareInv, Places, Holds
    <3>2. Opening(p) => at[p] \in DOMAIN New(Head(left[p]))
        BY PlaceOf, NewType DEF TypeInv
    <3> QED BY <3>1, <3>2, ElementsOf
  <2> QED BY <2>1 DEF TypeInv, TypeOK, HeldInv, ShareInv, Places, Phases
<1> QED BY <1>1, TypeInvAlways, PTL

-----------------------------------------------------------------------------
(***************************************************************************)
(* The choice of a decoder.  The candidates a thread has left are a        *)
(* suffix of the request's; those before it were rejected, each with a     *)
(* reason.                                                                 *)
(***************************************************************************)

(* The sets of BestChosen, named. *)
Gpu(r) == {c \in {"nvdec", "vaapi"} :
             r.backend # "cpu" /\ r.node # "none" /\ (c = "nvdec" => r.node = "nvidia")}
Cpu(r) == {c \in {"openh264", "libvpx", "rav1d"} :
             r.backend # "gpu" /\ r.file.codec \in (CASE c = "openh264" -> {"h264"}
                                                     [] c = "libvpx" -> {"vp8", "vp9"}
                                                     [] c = "rav1d" -> {"av1"})}

(* s lists exactly the decoders of S. *)
Lists(s, S) == (\A i \in DOMAIN s : s[i] \in S) /\ \A c \in S : \E i \in DOMAIN s : s[i] = c

RequestType ==
    \A r \in Requests : /\ r.backend \in {"auto", "gpu", "cpu"}
                        /\ r.node \in {"nvidia", "other", "none"} /\ r.file.codec \in Codecs

LEMMA RequestTypes == RequestType
<1> SUFFICES ASSUME NEW r \in Requests
    PROVE  /\ r.backend \in {"auto", "gpu", "cpu"} /\ r.node \in {"nvidia", "other", "none"}
           /\ r.file.codec \in Codecs
    BY DEF RequestType
<1>1. r \in [file : Files, backend : {"auto", "gpu", "cpu"}, node : {"nvidia", "other", "none"}]
    BY BackendsAssumption
<1>2. r.file \in Files
    BY <1>1
<1> QED BY <1>1, <1>2 DEF Files

LEMMA NoneAt == ASSUME NEW S, NEW s, s = <<>> PROVE s \in Seq(S) /\ DOMAIN s = {}
<1>1. DOMAIN <<>> = 1..0 /\ 1..0 = {}
    OBVIOUS
<1> QED BY <1>1

LEMMA OneAt ==
    ASSUME NEW S, NEW a \in S, NEW s, s = <<a>>
    PROVE  s \in Seq(S) /\ DOMAIN s = {1} /\ s[1] = a /\ s # <<>>
<1>1. DOMAIN <<a>> = 1..1 /\ 1..1 = {1} /\ Len(<<a>>) = 1 /\ Len(<<>>) = 0
    OBVIOUS
<1>2. <<a>> \in Seq(S) /\ <<a>>[1] = a
    OBVIOUS
<1> QED BY <1>1, <1>2

LEMMA TwoAt ==
    ASSUME NEW S, NEW a \in S, NEW b \in S, NEW s, s = <<a, b>>
    PROVE  s \in Seq(S) /\ DOMAIN s = {1, 2} /\ s[1] = a /\ s[2] = b /\ s # <<>>
<1>1. DOMAIN <<a, b>> = 1..2 /\ 1..2 = {1, 2} /\ Len(<<a, b>>) = 2 /\ Len(<<>>) = 0
    OBVIOUS
<1>2. <<a, b>> \in Seq(S) /\ <<a, b>>[1] = a /\ <<a, b>>[2] = b
    OBVIOUS
<1> QED BY <1>1, <1>2

\* The hardware part of the list: what the GPU has, NVDEC first.
LEMMA HardwareLists ==
    ASSUME NEW r \in Requests, NEW h, h = IF WantsGpu(r) THEN Hardware(r.node) ELSE <<>>
    PROVE  /\ h \in Seq(Decoders) /\ Lists(h, Gpu(r))
           /\ \A i \in DOMAIN h : h[i] = "vaapi" =>
                 \A c \in Gpu(r) \ {"vaapi"} : \E j \in 1..i - 1 : h[j] = c
           /\ h = <<>> => r.backend = "cpu" \/ r.node = "none"
<1>1. /\ r.backend \in {"auto", "gpu", "cpu"} /\ r.node \in {"nvidia", "other", "none"}
    BY RequestTypes DEF RequestType
<1>2. CASE r.backend = "cpu" \/ r.node = "none"
  <2>1. h = <<>>
      BY <1>2 DEF WantsGpu, Hardware
  <2>2. h \in Seq(Decoders) /\ DOMAIN h = {}
      BY <2>1, NoneAt
  <2>3. Gpu(r) = {}
      BY <1>2 DEF Gpu
  <2> QED BY <1>2, <2>2, <2>3 DEF Lists
<1>3. CASE r.backend # "cpu" /\ r.node = "other"
  <2>1. h = <<"vaapi">>
      BY <1>1, <1>3 DEF WantsGpu, Hardware
  <2>2. h \in Seq(Decoders) /\ DOMAIN h = {1} /\ h[1] = "vaapi" /\ h # <<>>
      BY <2>1, OneAt DEF Decoders
  <2>3. Gpu(r) = {"vaapi"}
      BY <1>3 DEF Gpu
  <2> QED BY <2>2, <2>3 DEF Lists
<1>4. CASE r.backend # "cpu" /\ r.node = "nvidia"
  <2>1. h = <<"nvdec", "vaapi">>
      BY <1>1, <1>4 DEF WantsGpu, Hardware
  <2>2. h \in Seq(Decoders) /\ DOMAIN h = {1, 2} /\ h[1] = "nvdec" /\ h[2] = "vaapi" /\ h # <<>>
      BY <2>1, TwoAt DEF Decoders
  <2>3. Gpu(r) = {"nvdec", "vaapi"}
      BY <1>4 DEF Gpu
  <2>4. 1 \in 1..2 - 1
      OBVIOUS
  <2> QED BY <2>2, <2>3, <2>4 DEF Lists
<1> QED BY <1>1, <1>2, <1>3, <1>4

\* The software part: at most one decoder, the one for the codec.
LEMMA SoftwareLists ==
    ASSUME NEW r \in Requests, NEW s, s = IF r.backend = "gpu" THEN <<>> ELSE Software(r.file.codec)
    PROVE  s \in Seq(Decoders) /\ Lists(s, Cpu(r)) /\ DOMAIN s \subseteq {1}
<1>1. r.file.codec \in Codecs
    BY RequestTypes DEF RequestType
<1>2. CASE r.backend = "gpu" \/ r.file.codec \in {"hevc", "other"}
  <2>1. s = <<>>
      BY <1>2 DEF Software
  <2>2. s \in Seq(Decoders) /\ DOMAIN s = {}
      BY <2>1, NoneAt
  <2>3. Cpu(r) = {}
      BY <1>2 DEF Cpu
  <2> QED BY <2>2, <2>3 DEF Lists
<1>3. CASE r.backend # "gpu" /\ r.file.codec = "av1"
  <2>1. s = <<"rav1d">>
      BY <1>3 DEF Software
  <2>2. s \in Seq(Decoders) /\ DOMAIN s = {1} /\ s[1] = "rav1d"
      BY <2>1, OneAt DEF Decoders
  <2>3. Cpu(r) = {"rav1d"}
      BY <1>3 DEF Cpu
  <2> QED BY <2>2, <2>3 DEF Lists
<1>4. CASE r.backend # "gpu" /\ r.file.codec = "h264"
  <2>1. s = <<"openh264">>
      BY <1>4 DEF Software
  <2>2. s \in Seq(Decoders) /\ DOMAIN s = {1} /\ s[1] = "openh264"
      BY <2>1, OneAt DEF Decoders
  <2>3. Cpu(r) = {"openh264"}
      BY <1>4 DEF Cpu
  <2> QED BY <2>2, <2>3 DEF Lists
<1>5. CASE r.backend # "gpu" /\ r.file.codec \in {"vp8", "vp9"}
  <2>1. s = <<"libvpx">>
      BY <1>5 DEF Software
  <2>2. s \in Seq(Decoders) /\ DOMAIN s = {1} /\ s[1] = "libvpx"
      BY <2>1, OneAt DEF Decoders
  <2>3. Cpu(r) = {"libvpx"}
      BY <1>5 DEF Cpu
  <2> QED BY <2>2, <2>3 DEF Lists
<1> QED BY <1>1, <1>2, <1>3, <1>4, <1>5 DEF Codecs

(* The order of a list of candidates: the best first. *)
BestFirst(r, s) ==
    /\ Lists(s, Gpu(r) \cup Cpu(r))
    /\ \A i \in DOMAIN s :
          /\ s[i] = "vaapi" => \A c \in Gpu(r) \ {"vaapi"} : \E j \in 1..i - 1 : s[j] = c
          /\ s[i] \in Cpu(r) => \A c \in Gpu(r) : \E j \in 1..i - 1 : s[j] = c

\* open_decoder's list.
LEMMA CandidatesBest ==
    ASSUME NEW r \in Requests
    PROVE  BestFirst(r, Candidates(r)) /\ (Candidates(r) = <<>> => Unavailable(r) # {})
<1> DEFINE h == IF WantsGpu(r) THEN Hardware(r.node) ELSE <<>>
           s == IF r.backend = "gpu" THEN <<>> ELSE Software(r.file.codec)
           c == Candidates(r)
<1>1. /\ h \in Seq(Decoders) /\ Lists(h, Gpu(r))
      /\ \A i \in DOMAIN h : h[i] = "vaapi" =>
            \A d \in Gpu(r) \ {"vaapi"} : \E j \in 1..i - 1 : h[j] = d
      /\ h = <<>> => r.backend = "cpu" \/ r.node = "none"
    BY HardwareLists
<1>2. s \in Seq(Decoders) /\ Lists(s, Cpu(r)) /\ DOMAIN s \subseteq {1}
    BY SoftwareLists
<1>3. c = h \o s
    BY DEF Candidates
<1>4. c = <<>> => Unavailable(r) # {}
  <2> SUFFICES ASSUME c = <<>> PROVE Unavailable(r) # {}
      OBVIOUS
  <2>1. h = <<>> /\ s = <<>>
    <3> HIDE DEF h, s, c
    <3> QED BY <1>1, <1>2, <1>3
  <2>2. CASE r.backend = "gpu"
    <3>1. r.node = "none" /\ WantsGpu(r)
        BY <1>1, <2>1, <2>2 DEF WantsGpu
    <3> QED BY <3>1 DEF Unavailable
  <2>3. CASE r.backend # "gpu"
      BY <2>1, <2>3 DEF Unavailable
  <2> QED BY <2>2, <2>3
<1> HIDE DEF h, s, c
<1>5. /\ c \in Seq(Decoders) /\ Len(c) = Len(h) + Len(s)
      /\ DOMAIN h = 1..Len(h) /\ DOMAIN s = 1..Len(s) /\ DOMAIN c = 1..Len(c)
      /\ Len(h) \in Nat /\ Len(s) \in Nat
    BY <1>1, <1>2, <1>3, SeqsJoined
<1>6. /\ \A i \in 1..Len(h) : c[i] = h[i]
      /\ \A i \in Len(h) + 1..Len(h) + Len(s) : c[i] = s[i - Len(h)]
  <2>1. h \in Seq(Decoders) /\ s \in Seq(Decoders)
      BY <1>1, <1>2
  <2>2. /\ \A i \in 1..Len(h) : (h \o s)[i] = h[i]
        /\ \A i \in Len(h) + 1..Len(h) + Len(s) : (h \o s)[i] = s[i - Len(h)]
      BY <2>1, JoinAt, Zenon
  <2> QED BY <1>3, <2>2, Zenon
<1>7. ASSUME NEW i \in DOMAIN c
      PROVE  \/ i \in DOMAIN h /\ c[i] = h[i]
             \/ i > Len(h) /\ i - Len(h) \in DOMAIN s /\ c[i] = s[i - Len(h)]
  <2>1. i \in Nat /\ (i \in 1..Len(h) \/ i \in Len(h) + 1..Len(h) + Len(s))
      BY <1>5
  <2>2. i \in Len(h) + 1..Len(h) + Len(s) => i > Len(h) /\ i - Len(h) \in 1..Len(s)
      BY <1>5, <2>1
  <2> QED BY <1>5, <1>6, <2>1, <2>2
<1>8. ASSUME NEW i \in DOMAIN s PROVE i + Len(h) \in DOMAIN c /\ c[i + Len(h)] = s[i]
  <2>1. i + Len(h) \in Len(h) + 1..Len(h) + Len(s) /\ (i + Len(h)) - Len(h) = i
      BY <1>5
  <2> QED BY <1>5, <1>6, <2>1
<1>9. DOMAIN h \subseteq DOMAIN c
    BY <1>5
<1>10. Lists(c, Gpu(r) \cup Cpu(r))
    BY <1>1, <1>2, <1>5, <1>6, <1>7, <1>8, <1>9 DEF Lists
<1>11. Gpu(r) \subseteq {"nvdec", "vaapi"} /\ "vaapi" \notin Cpu(r) /\ Gpu(r) \cap Cpu(r) = {}
    BY DEF Gpu, Cpu
<1>12. ASSUME NEW i \in DOMAIN c, c[i] = "vaapi", NEW d \in Gpu(r) \ {"vaapi"}
       PROVE  \E j \in 1..i - 1 : c[j] = d
  <2>1. i \in DOMAIN h /\ h[i] = "vaapi"
      BY <1>2, <1>7, <1>11, <1>12 DEF Lists
  <2>2. PICK j \in 1..i - 1 : h[j] = d
      BY <1>1, <2>1
  <2>3. j \in 1..Len(h)
      BY <1>5, <2>1, <2>2
  <2> QED BY <1>6, <2>2, <2>3
<1>13. ASSUME NEW i \in DOMAIN c, c[i] \in Cpu(r), NEW d \in Gpu(r)
       PROVE  \E j \in 1..i - 1 : c[j] = d
  <2>1. i > Len(h) /\ i \in Nat
      BY <1>1, <1>5, <1>7, <1>11, <1>13 DEF Lists
  <2>2. PICK j \in DOMAIN h : h[j] = d
      BY <1>1 DEF Lists
  <2>3. j \in 1..i - 1 /\ c[j] = d
      BY <1>5, <1>6, <2>1, <2>2
  <2> QED BY <2>3
<1> QED BY <1>4, <1>10, <1>12, <1>13 DEF BestFirst, c

(* s is what remains of c after the first k. *)
Rest(s, c, k) == k \in 0..Len(c) /\ Len(s) = Len(c) - k /\ \A i \in 1..Len(s) : s[i] = c[i + k]

(* Thread p works through its list of candidates. *)
Trying(p) == phase[p] \in {"opening", "ready"} \/ (phase[p] = "releasing" /\ left[p] # <<>>)

(* How far it got, and what it learned. *)
Chooses(p) ==
    LET r == request[p]
        c == Candidates(r)
    IN  /\ Trying(p) =>
              /\ r \in Requests /\ Unavailable(r) \subseteq reasons[p]
              /\ \E k \in 0..Len(c) : /\ Rest(left[p], c, k)
                                      /\ \A i \in 1..k : c[i] \in rejected[p] /\ c[i] \in reasons[p]
        /\ phase[p] = "releasing" /\ left[p] # <<>> =>
              Head(left[p]) \in rejected[p] /\ Head(left[p]) \in reasons[p]
        /\ phase[p] = "failed" =>
              /\ r \in Requests
              /\ \/ told[p] = {"file"} /\ ~DemuxOpens(r.file)
                 \/ Unavailable(r) \subseteq told[p] /\ \A i \in 1..Len(c) : c[i] \in told[p]

ChosenInv ==
    /\ TypeInv
    /\ DOMAIN reasons = Players /\ DOMAIN told = Players
    /\ \A p \in Players : Chooses(p)

LEMMA ChosenInvInit == Init => ChosenInv
BY TypeInvInit DEF Init, ChosenInv, Chooses, Trying

LEMMA ChoosesStill ==
    ASSUME NEW q \in Players, Chooses(q), phase'[q] = phase[q], left'[q] = left[q],
           request'[q] = request[q], rejected'[q] = rejected[q], reasons'[q] = reasons[q],
           told'[q] = told[q]
    PROVE  Chooses(q)'
BY DEF Chooses, Trying

\* The domains the proofs below read.
LEMMA Domains ==
    ASSUME ChosenInv
    PROVE  /\ DOMAIN phase = Players /\ DOMAIN left = Players /\ DOMAIN request = Players
           /\ DOMAIN rejected = Players /\ DOMAIN reasons = Players /\ DOMAIN told = Players
BY DEF ChosenInv, TypeInv, HeldInv, ShareInv, Places

\* What every action but Open writes of these variables: at most p's entries.
LEMMA OthersChoose ==
    ASSUME ChosenInv, NEW p \in Players, NEW q \in Players, q # p,
           Runs(p) \/ Play(p) \/ Close(p) \/ Forget(p) \/ \E r \in Requests : Open(p, r)
    PROVE  Chooses(q)'
<1>1. Chooses(q)
    BY DEF ChosenInv
<1>2. /\ q \in DOMAIN phase /\ q \in DOMAIN left /\ q \in DOMAIN request
      /\ q \in DOMAIN rejected /\ q \in DOMAIN reasons /\ q \in DOMAIN told
    BY Domains
<1>3. CASE Works(p)
  <2>1. UNCHANGED <<left, request, rejected, reasons, told>>
      BY <1>3 DEF Works
  <2>2. phase' = [phase EXCEPT ![p] = "ready"] \/ phase' = phase
      BY <1>3, Zenon DEF Works
  <2>3. phase'[q] = phase[q]
      BY <1>2, <2>2
  <2> QED BY <1>1, <2>1, <2>3, ChoosesStill
<1>4. CASE Fails(p)
  <2>1. UNCHANGED <<left, request, told>> /\ phase'[q] = phase[q]
        /\ rejected'[q] = rejected[q] /\ reasons'[q] = reasons[q]
      BY <1>2, <1>4 DEF Fails
  <2> QED BY <1>1, <2>1, ChoosesStill
<1>5. CASE Construct(p) \/ UpgradeHelper(p) \/ LoadHelper(p) \/ HelperFails(p)
    BY <1>3, <1>4, <1>5 DEF Construct, UpgradeHelper, LoadHelper, HelperFails
<1>6. CASE LockHelper(p) \/ Release(p) \/ Play(p)
    BY <1>1, <1>6, ChoosesStill DEF LockHelper, Release, Play
<1>7. CASE Released(p)
  <2>1. UNCHANGED <<request, rejected, reasons, told>> /\ phase'[q] = phase[q]
        /\ left'[q] = left[q]
      BY <1>2, <1>7 DEF Released
  <2> QED BY <1>1, <2>1, ChoosesStill
<1>8. CASE OutOfCandidates(p)
  <2>1. UNCHANGED <<left, request, rejected, reasons>> /\ phase'[q] = phase[q]
        /\ told'[q] = told[q]
      BY <1>2, <1>8 DEF OutOfCandidates
  <2> QED BY <1>1, <2>1, ChoosesStill
<1>9. CASE Close(p)
  <2>1. UNCHANGED <<request, told>> /\ phase'[q] = phase[q] /\ left'[q] = left[q]
        /\ rejected'[q] = rejected[q] /\ reasons'[q] = reasons[q]
      BY <1>2, <1>9 DEF Close
  <2> QED BY <1>1, <2>1, ChoosesStill
<1>10. CASE Forget(p)
  <2>1. left' = left /\ phase'[q] = phase[q] /\ request'[q] = request[q]
        /\ rejected'[q] = rejected[q] /\ reasons'[q] = reasons[q] /\ told'[q] = told[q]
      BY <1>2, <1>10 DEF Forget
  <2> QED BY <1>1, <2>1, ChoosesStill
<1>11. ASSUME NEW r \in Requests, Open(p, r) PROVE Chooses(q)'
  <2>1. rejected' = rejected /\ request'[q] = request[q]
      BY <1>2, <1>11 DEF Open
  <2>2. \/ /\ left' = [left EXCEPT ![p] = Candidates(r)] /\ told' = told
           /\ phase' = [phase EXCEPT ![p] = "opening"]
           /\ reasons' = [reasons EXCEPT ![p] = Unavailable(r)]
        \/ /\ left' = left /\ reasons' = reasons /\ phase' = [phase EXCEPT ![p] = "failed"]
           /\ told' = [told EXCEPT ![p] = {"file"}]
      BY <1>11, Zenon DEF Open
  <2>3. left'[q] = left[q] /\ phase'[q] = phase[q] /\ told'[q] = told[q] /\ reasons'[q] = reasons[q]
      BY <1>2, <2>2
  <2> QED BY <1>1, <2>1, <2>3, ChoosesStill
<1> QED BY <1>5, <1>6, <1>7, <1>8, <1>9, <1>10, <1>11 DEF Runs

LEMMA OpenChooses ==
    ASSUME ChosenInv, NEW p \in Players, NEW r \in Requests, Open(p, r)
    PROVE  Chooses(p)'
<1>1. request'[p] = r
    BY Domains DEF Open
<1>2. CASE DemuxOpens(r.file)
  <2>1. phase'[p] = "opening" /\ left'[p] = Candidates(r) /\ reasons'[p] = Unavailable(r)
      BY <1>2, Domains DEF Open
  <2>2. Candidates(r) \in Seq(Decoders)
      BY CandidatesType
  <2>3. Rest(Candidates(r), Candidates(r), 0) /\ 0 \in 0..Len(Candidates(r)) /\ 1..0 = {}
      BY <2>2 DEF Rest
  <2> QED BY <1>1, <2>1, <2>3 DEF Chooses, Trying
<1>3. CASE ~DemuxOpens(r.file)
  <2>1. phase'[p] = "failed" /\ told'[p] = {"file"}
      BY <1>3, Domains DEF Open
  <2> QED BY <1>1, <1>3, <2>1 DEF Chooses, Trying
<1> QED BY <1>2, <1>3

LEMMA WorksChooses ==
    ASSUME ChosenInv, NEW p \in Players, Opening(p), Works(p) \/ Fails(p)
    PROVE  Chooses(p)'
<1>1. Chooses(p) /\ Trying(p) /\ phase[p] = "opening" /\ left[p] # <<>>
    BY DEF ChosenInv, Opening, Trying
<1>2. CASE Works(p)
  <2>1. UNCHANGED <<left, request, rejected, reasons, told>>
      BY <1>2 DEF Works
  <2>2. phase' = [phase EXCEPT ![p] = "ready"] \/ phase' = phase
      BY <1>2, Zenon DEF Works
  <2>3. phase'[p] \in {"opening", "ready"}
      BY <1>1, <2>2, Domains
  <2> QED BY <1>1, <2>1, <2>3 DEF Chooses, Trying
<1>3. CASE Fails(p)
  <2>1. /\ UNCHANGED <<left, request, told>> /\ phase'[p] = "releasing"
        /\ rejected'[p] = rejected[p] \cup {Head(left[p])}
        /\ reasons'[p] = reasons[p] \cup {Head(left[p])}
      BY <1>3, Domains DEF Fails
  <2> QED BY <1>1, <2>1 DEF Chooses, Trying
<1> QED BY <1>2, <1>3

LEMMA ReleasedChooses ==
    ASSUME ChosenInv, NEW p \in Players, Released(p)
    PROVE  Chooses(p)'
<1> DEFINE c == Candidates(request[p])
<1>1. /\ UNCHANGED <<request, rejected, reasons, told>> /\ phase'[p] = "opening"
      /\ left'[p] = Tail(left[p]) /\ phase[p] = "releasing" /\ left[p] # <<>>
    BY Domains DEF Released
<1>2. Chooses(p) /\ left[p] \in Seq(Decoders) /\ c \in Seq(Decoders)
    BY CandidatesType DEF ChosenInv, TypeInv, HeldInv, ShareInv, Places
<1>3. PICK k \in 0..Len(c) : /\ Rest(left[p], c, k)
                             /\ \A i \in 1..k : c[i] \in rejected[p] /\ c[i] \in reasons[p]
    BY <1>1, <1>2 DEF Chooses, Trying
<1> HIDE DEF c
<1>4. Len(left[p]) \in Nat /\ Len(left[p]) # 0 /\ Len(c) \in Nat /\ k \in Nat
    BY <1>1, <1>2
<1>5. /\ Len(Tail(left[p])) = Len(left[p]) - 1
      /\ \A i \in 1..Len(left[p]) - 1 : Tail(left[p])[i] = left[p][i + 1]
      /\ Head(left[p]) = left[p][1]
    BY <1>1, <1>2
<1>6. Len(left[p]) = Len(c) - k
    BY <1>3 DEF Rest
<1>7. k + 1 \in 0..Len(c)
    BY <1>4, <1>6
<1>8. Rest(Tail(left[p]), c, k + 1)
  <2>1. Len(Tail(left[p])) = Len(c) - (k + 1)
      BY <1>4, <1>5, <1>6
  <2>2. ASSUME NEW i \in 1..Len(Tail(left[p])) PROVE Tail(left[p])[i] = c[i + (k + 1)]
    <3>1. i \in 1..Len(left[p]) - 1 /\ i + 1 \in 1..Len(left[p]) /\ (i + 1) + k = i + (k + 1)
        BY <1>4, <1>5
    <3> QED BY <1>3, <1>5, <3>1 DEF Rest
  <2> QED BY <1>7, <2>1, <2>2 DEF Rest
<1>9. ASSUME NEW i \in 1..k + 1 PROVE c[i] \in rejected[p] /\ c[i] \in reasons[p]
  <2>1. CASE i \in 1..k
      BY <1>3, <2>1
  <2>2. CASE i = k + 1
    <3>1. 1 \in 1..Len(left[p]) /\ 1 + k = i
        BY <1>4, <2>2
    <3>2. c[i] = Head(left[p])
        BY <1>3, <1>5, <3>1 DEF Rest
    <3> QED BY <1>1, <1>2, <3>2 DEF Chooses
  <2> QED BY <1>4, <2>1, <2>2
<1>10. request[p] \in Requests /\ Unavailable(request[p]) \subseteq reasons[p]
    BY <1>1, <1>2 DEF Chooses, Trying
<1>11. \E n \in 0..Len(c) : /\ Rest(Tail(left[p]), c, n)
                            /\ \A i \in 1..n : c[i] \in rejected[p] /\ c[i] \in reasons[p]
    BY <1>7, <1>8, <1>9
<1> QED BY <1>1, <1>10, <1>11 DEF Chooses, Trying, c

LEMMA OutChooses ==
    ASSUME ChosenInv, NEW p \in Players, OutOfCandidates(p)
    PROVE  Chooses(p)'
<1> DEFINE c == Candidates(request[p])
<1>1. /\ UNCHANGED request /\ phase'[p] = "failed" /\ told'[p] = reasons[p]
      /\ phase[p] = "opening" /\ left[p] = <<>>
    BY Domains DEF OutOfCandidates
<1>2. Chooses(p) /\ c \in Seq(Decoders)
    BY CandidatesType DEF ChosenInv
<1>3. /\ request[p] \in Requests /\ Unavailable(request[p]) \subseteq reasons[p]
      /\ \E k \in 0..Len(c) : /\ Rest(left[p], c, k)
                              /\ \A i \in 1..k : c[i] \in rejected[p] /\ c[i] \in reasons[p]
    BY <1>1, <1>2 DEF Chooses, Trying
<1>4. PICK k \in 0..Len(c) : /\ Rest(left[p], c, k)
                             /\ \A i \in 1..k : c[i] \in rejected[p] /\ c[i] \in reasons[p]
    BY <1>3
<1> HIDE DEF c
<1>5. k = Len(c)
  <2>1. Len(left[p]) = 0 /\ Len(c) \in Nat
      BY <1>1, <1>2
  <2> QED BY <1>4, <2>1 DEF Rest
<1> QED BY <1>1, <1>3, <1>4, <1>5 DEF Chooses, Trying, c

LEMMA ChosenInvNext == ChosenInv /\ [Next]_vars => ChosenInv'
<1> SUFFICES ASSUME ChosenInv, [Next]_vars PROVE ChosenInv'
    OBVIOUS
<1>1. TypeInv'
    BY TypeInvNext DEF ChosenInv
<1>2. DOMAIN reasons' = DOMAIN reasons /\ DOMAIN told' = DOMAIN told
  <2>1. \A f, p, x : DOMAIN [f EXCEPT ![p] = x] = DOMAIN f
      OBVIOUS
  <2>2. ASSUME NEW p \in Players, Runs(p)
        PROVE  DOMAIN reasons' = DOMAIN reasons /\ DOMAIN told' = DOMAIN told
      BY <2>1, <2>2 DEF Runs, Construct, LockHelper, UpgradeHelper, LoadHelper, HelperFails, Works,
         Fails, Release, Released, OutOfCandidates
  <2>3. ASSUME NEW p \in Players, Play(p) \/ Close(p) \/ Forget(p)
        PROVE  DOMAIN reasons' = DOMAIN reasons /\ DOMAIN told' = DOMAIN told
      BY <2>1, <2>3 DEF Play, Close, Forget
  <2>4. ASSUME NEW p \in Players, NEW r \in Requests, Open(p, r)
        PROVE  DOMAIN reasons' = DOMAIN reasons /\ DOMAIN told' = DOMAIN told
      BY <2>1, <2>4 DEF Open
  <2> QED BY <2>2, <2>3, <2>4 DEF Next, Unload, vars
<1>3. ASSUME NEW p \in Players PROVE Chooses(p)'
  <2>1. Chooses(p)
      BY DEF ChosenInv
  <2>2. CASE UNCHANGED vars
      BY <2>1, <2>2, ChoosesStill DEF vars
  <2>3. ASSUME NEW i \in loaded, Unload(i) PROVE Chooses(p)'
      BY <2>1, <2>3, ChoosesStill DEF Unload
  <2>4. ASSUME NEW q \in Players, q # p,
               Runs(q) \/ Play(q) \/ Close(q) \/ Forget(q) \/ \E r \in Requests : Open(q, r)
        PROVE  Chooses(p)'
      BY <2>4, OthersChoose
  <2>5. ASSUME Runs(p) PROVE Chooses(p)'
    <3>1. CASE Construct(p) \/ UpgradeHelper(p) \/ LoadHelper(p) \/ HelperFails(p)
      <4>1. Opening(p) /\ (Works(p) \/ Fails(p))
          BY <3>1 DEF Construct, UpgradeHelper, LoadHelper, HelperFails, InHelper
      <4> QED BY <4>1, WorksChooses
    <3>2. CASE LockHelper(p) \/ Release(p)
        BY <2>1, <3>2, ChoosesStill DEF LockHelper, Release
    <3>3. CASE Released(p) \/ OutOfCandidates(p)
        BY <3>3, ReleasedChooses, OutChooses
    <3> QED BY <2>5, <3>1, <3>2, <3>3 DEF Runs
  <2>6. CASE Play(p)
      BY <2>1, <2>6, ChoosesStill DEF Play
  <2>7. CASE Close(p) \/ Forget(p)
    <3>1. \/ phase'[p] = "releasing" /\ left'[p] = <<>>
          \/ phase'[p] = "idle"
        BY <2>7, Domains DEF Close, Forget
    <3> QED BY <3>1 DEF Chooses, Trying
  <2>8. ASSUME NEW r \in Requests, Open(p, r) PROVE Chooses(p)'
      BY <2>8, OpenChooses
  <2> QED BY <2>2, <2>3, <2>4, <2>5, <2>6, <2>7, <2>8 DEF Next
<1> QED BY <1>1, <1>2, <1>3 DEF ChosenInv

\* A file that is what its first bytes say, with a track and its parameter sets, opens.
LEMMA GoodFilesOpen ==
    ASSUME NEW f, f.is \in Containers, f.is = f.head, f.track, Framed(f)
    PROVE  DemuxOpens(f)
<1>1. Sniff(f) = f.is
    BY DEF Sniff
<1> QED BY <1>1 DEF DemuxOpens, Mp4Opens, MkvOpens, Containers

\* What plays is the best the request allows, and nothing plays only when each
\* candidate failed and is among the reasons, for any requests.
THEOREM BestChosenCorrect == Spec => []BestChosen
<1>1. ChosenInv => BestChosen
  <2> SUFFICES ASSUME ChosenInv, NEW p \in Players
      PROVE  LET r == request[p]
                 d == Head(left[p])
             IN /\ phase[p] = "ready" => /\ d \in Gpu(r) \cup Cpu(r)
                                         /\ d = "vaapi" => Gpu(r) \ {"vaapi"} \subseteq rejected[p]
                                         /\ d \in Cpu(r) => Gpu(r) \subseteq rejected[p]
                /\ phase[p] = "failed" =>
                     told[p] # {} /\ (r.file.is \in Containers /\ r.file.is = r.file.head
                                        /\ r.file.track /\ Framed(r.file)
                                      => Gpu(r) \cup Cpu(r) \subseteq told[p])
      BY Zenon DEF BestChosen, Gpu, Cpu
  <2> DEFINE r == request[p]
             c == Candidates(r)
             d == Head(left[p])
  <2>1. Chooses(p) /\ c \in Seq(Decoders) /\ left[p] \in Seq(Decoders)
      BY CandidatesType DEF ChosenInv, TypeInv, HeldInv, ShareInv, Places
  <2>2. DOMAIN c = 1..Len(c) /\ Len(c) \in Nat
      BY <2>1
  <2>3. ASSUME phase[p] = "ready"
        PROVE  /\ d \in Gpu(r) \cup Cpu(r)
               /\ d = "vaapi" => Gpu(r) \ {"vaapi"} \subseteq rejected[p]
               /\ d \in Cpu(r) => Gpu(r) \subseteq rejected[p]
    <3>1. left[p] # <<>>
        BY <2>3 DEF ChosenInv, TypeInv, HeldInv, Holds
    <3>2. /\ r \in Requests
          /\ \E k \in 0..Len(c) : /\ Rest(left[p], c, k)
                                  /\ \A i \in 1..k : c[i] \in rejected[p] /\ c[i] \in reasons[p]
        BY <2>1, <2>3 DEF Chooses, Trying
    <3>3. PICK k \in 0..Len(c) : Rest(left[p], c, k) /\ \A i \in 1..k : c[i] \in rejected[p]
        BY <3>2
    <3>4. BestFirst(r, c)
        BY <3>2, CandidatesBest
    <3> HIDE DEF c, r
    <3>5. 1 \in 1..Len(left[p]) /\ d = left[p][1] /\ Len(left[p]) \in Nat
        BY <2>1, <3>1
    <3>6. d = c[1 + k] /\ Len(left[p]) = Len(c) - k
        BY <3>3, <3>5 DEF Rest
    <3>7. 1 + k \in DOMAIN c /\ (1 + k) - 1 = k
      <4>1. k \in Nat /\ Len(c) \in Nat /\ Len(c) - k >= 1
        <5>1. k \in Nat
            BY <3>3
        <5>2. Len(left[p]) >= 1
            BY <3>5
        <5> QED BY <2>2, <3>6, <5>1, <5>2
      <4>2. 1 + k \in 1..Len(c) /\ (1 + k) - 1 = k
          BY <4>1
      <4> QED BY <2>2, <4>2
    <3>8. d \in Gpu(r) \cup Cpu(r)
        BY <3>4, <3>6, <3>7 DEF BestFirst, Lists
    <3>9. d = "vaapi" => Gpu(r) \ {"vaapi"} \subseteq rejected[p]
        BY <3>3, <3>4, <3>6, <3>7 DEF BestFirst
    <3>10. d \in Cpu(r) => Gpu(r) \subseteq rejected[p]
        BY <3>3, <3>4, <3>6, <3>7 DEF BestFirst
    <3> QED BY <3>8, <3>9, <3>10
  <2>4. ASSUME phase[p] = "failed"
        PROVE  told[p] # {} /\ (r.file.is \in Containers /\ r.file.is = r.file.head
                                  /\ r.file.track /\ Framed(r.file)
                                => Gpu(r) \cup Cpu(r) \subseteq told[p])
    <3>1. /\ r \in Requests
          /\ \/ told[p] = {"file"} /\ ~DemuxOpens(r.file)
             \/ Unavailable(r) \subseteq told[p] /\ \A i \in 1..Len(c) : c[i] \in told[p]
        BY <2>1, <2>4 DEF Chooses
    <3>2. CASE told[p] = {"file"} /\ ~DemuxOpens(r.file)
        BY <3>2, GoodFilesOpen
    <3>3. CASE Unavailable(r) \subseteq told[p] /\ \A i \in 1..Len(c) : c[i] \in told[p]
      <4>1. BestFirst(r, c) /\ (c = <<>> => Unavailable(r) # {})
          BY <3>1, CandidatesBest
      <4> HIDE DEF c, r
      <4>2. Gpu(r) \cup Cpu(r) \subseteq told[p]
          BY <2>2, <3>3, <4>1 DEF BestFirst, Lists
      <4>3. told[p] # {}
        <5>1. CASE c = <<>>
            BY <3>3, <4>1, <5>1
        <5>2. CASE c # <<>>
          <6>1. 1 \in 1..Len(c)
              BY <2>1, <5>2
          <6> QED BY <3>3, <6>1
        <5> QED BY <5>1, <5>2
      <4> QED BY <4>2, <4>3
    <3> QED BY <3>1, <3>2, <3>3
  <2> QED BY <2>3, <2>4
<1> QED BY <1>1, ChosenInvInit, ChosenInvNext, PTL DEF Spec
=============================================================================
