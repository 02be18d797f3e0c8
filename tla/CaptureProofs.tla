---------------------------- MODULE CaptureProofs ----------------------------
(***************************************************************************)
(* Theorems about Capture, for every set of surfaces, clients and rules.   *)
(***************************************************************************)
EXTENDS Capture, TLAPS

\* The part of the type invariant the proofs need; ages and holds are only
\* numbers here.
LastCover == [in : BOOLEAN, layer : BOOLEAN, age : Int, rules : RuleValues, gone : BOOLEAN]
ClosingCover == [up : BOOLEAN, rules : RuleValues, bind : Int, bound : BOOLEAN, hold : Int]
Shapes ==
    /\ slot \in [Surfaces -> {"none", "on", "off"}]
    /\ last \in [Surfaces -> LastCover]
    /\ closing \in [Surfaces -> ClosingCover]

\* holdFor, SCaptureClient::sees: the values of a rule and of the options.
LEMMA RulesType ==
    ASSUME NEW s \in Surfaces
    PROVE  /\ Plain \in RuleValues
           /\ RulesOf(s) \in RuleValues
BY CaptureAssumption, SMT DEF Plain, RulesOf, RuleValues

\* restoreNoScreenShare after suppressNoScreenShare: when the covers are painted,
\* the slots are what holding has made of them.
LEMMA Unsuppressed ==
    ASSUME NEW c \in Clients, NEW s \in Surfaces
    PROVE  SlotPainted(c)[s] = SlotHeld(c)[s]
BY DEF SlotPainted, SlotSuppressed, Restore, Override

\* The slot of a surface during the passes of a frame.
LEMMA SlotsByPass ==
    ASSUME NEW c \in Clients, NEW s \in Surfaces
    PROVE  /\ SlotRevealed(c)[s] = IF s \in Revealed(c) THEN "off" ELSE slot[s]
           /\ SlotHeld(c)[s] = IF s \in Held(c) THEN "on" ELSE SlotRevealed(c)[s]
BY DEF SlotHeld, SlotRevealed, Override

----------------------------------------------------------------------------

\* Every entry of the trackers has the fields and values its type says, whatever
\* happens (g_lastCovers, g_closing).
LEMMA ShapesInit == Init => Shapes
<1> SUFFICES ASSUME Init PROVE Shapes
    OBVIOUS
<1>1. Plain \in RuleValues
    BY CaptureAssumption DEF Plain, RuleValues
<1>2. NoLast \in LastCover
    BY <1>1 DEF NoLast, LastCover
<1>3. NoCover \in ClosingCover
    BY <1>1 DEF NoCover, ClosingCover
<1> QED BY <1>2, <1>3 DEF Init, Shapes

LEMMA ShapesNext == Shapes /\ [Next]_vars => Shapes'
<1> SUFFICES ASSUME Shapes, [Next]_vars PROVE Shapes'
    OBVIOUS
<1> USE DEF Shapes
<1>p. Plain \in RuleValues
    BY CaptureAssumption DEF Plain, RuleValues
<1>r. \A s \in Surfaces : RulesOf(s) \in RuleValues
    BY RulesType
<1>n. NoLast \in LastCover /\ NoCover \in ClosingCover
    BY <1>p DEF NoLast, LastCover, NoCover, ClosingCover
<1>c. \A rules \in RuleValues, b \in BOOLEAN : NewCover(rules, b) \in ClosingCover
    BY CaptureAssumption DEF NewCover, ClosingCover, Searching
<1>1. ASSUME NEW s \in Surfaces, NEW v \in {"none", "on", "off"}, SetProp(s, v)
      PROVE Shapes'
    BY <1>1 DEF SetProp
<1>2. ASSUME NEW s \in Surfaces, NEW fades \in BOOLEAN, Close(s, fades)
      PROVE Shapes'
  <2>1. slot' \in [Surfaces -> {"none", "on", "off"}]
      BY <1>2 DEF Close
  <2>2. CASE StartsClosing(s)
    <3>1. /\ last' = [last EXCEPT ![s] = NoLast]
          /\ closing' = [closing EXCEPT ![s] = NewCover(RulesOf(s), FALSE)]
        BY <2>2, <1>2 DEF Close, Forgotten
    <3>2. NewCover(RulesOf(s), FALSE) \in ClosingCover
        BY <1>r, <1>c
    <3> QED BY <2>1, <3>1, <3>2, <1>n
  <2>3. CASE ~StartsClosing(s)
    <3>1. last' = [last EXCEPT ![s].gone = @ \/ last[s].in] /\ closing' = closing
        BY <2>3, <1>2 DEF Close
    <3>2. last[s].gone \/ last[s].in \in BOOLEAN
        BY DEF LastCover
    <3> QED BY <2>1, <3>1, <3>2 DEF LastCover
  <2> QED BY <2>2, <2>3
<1>3. ASSUME NEW c \in Clients, Frame(c)
      PROVE Shapes'
  <2>1. slot' \in [Surfaces -> {"none", "on", "off"}]
    <3> SUFFICES ASSUME NEW s \in Surfaces
                 PROVE  SlotAfter(c)[s] \in {"none", "on", "off"}
        BY <1>3 DEF Frame, SlotAfter, Restore
    <3> QED BY Unsuppressed, SlotsByPass DEF SlotAfter, Restore
  <2>2. \A s \in Surfaces : Noted(c)[s] \in LastCover
      BY <1>r DEF Noted, LastCover, IsLayer
  <2>3. last' \in [Surfaces -> LastCover]
      BY <2>2, <1>n, <1>3 DEF Frame, Remembered
  <2>4. \A s \in Surfaces : AfterTracking(c)[s] \in ClosingCover
    <3> SUFFICES ASSUME NEW s \in Surfaces PROVE AfterTracking(c)[s] \in ClosingCover
        OBVIOUS
    <3>1. Noted(c)[s].rules \in RuleValues
        BY <2>2 DEF LastCover
    <3>2. Fresh(c, s) \in BOOLEAN
        BY DEF Fresh
    <3> QED BY <3>1, <3>2, <1>c DEF AfterTracking
  <2>5. \A s \in Surfaces : \A e \in ClosingCover : Follow(s, e) \in ClosingCover
    <3> SUFFICES ASSUME NEW s \in Surfaces, NEW e \in ClosingCover
                 PROVE  Follow(s, e) \in ClosingCover
        OBVIOUS
    <3>1. e.rules.hold \in Int /\ e.bind \in Int
        BY DEF ClosingCover, RuleValues
    <3>2. \A h \in Int : [e EXCEPT !.hold = h] \in ClosingCover
        BY DEF ClosingCover
    <3>3. \A b \in BOOLEAN : [e EXCEPT !.bound = b] \in ClosingCover
        BY DEF ClosingCover
    <3> DEFINE fading == (e.bound /\ fade[s].is # "none") \/ (e.bind > 0 /\ Running(s))
    <3>4. CASE fading /\ Running(s)
        BY <3>3, <3>4 DEF Follow
    <3>5. CASE fading /\ ~Running(s)
        BY <3>1, <3>2, <3>5 DEF Follow
    <3>6. CASE ~fading /\ e.bind <= 0
      <4> DEFINE h == IF e.bind + e.rules.hold > 0 THEN e.bind + e.rules.hold ELSE 0
      <4>1. h \in Int
          BY <3>1
      <4>2. Follow(s, e) = [e EXCEPT !.hold = h]
          BY <3>6 DEF Follow
      <4> HIDE DEF h
      <4> QED BY <4>1, <4>2, <3>2
    <3>7. CASE ~fading /\ ~(e.bind <= 0)
        BY <3>3, <3>7 DEF Follow
    <3> QED BY <3>4, <3>5, <3>6, <3>7
  <2>6. closing' \in [Surfaces -> ClosingCover]
      BY <2>4, <2>5, <1>3 DEF Frame, AfterPainting
  <2> QED BY <2>1, <2>3, <2>6
<1>4. ASSUME PumpTick
      PROVE Shapes'
    BY <1>4, <1>n DEF PumpTick, Kept
<1>5. ASSUME Tick
      PROVE Shapes'
  <2>1. last' \in [Surfaces -> LastCover]
    <3> SUFFICES ASSUME NEW s \in Surfaces
                 PROVE  [last[s] EXCEPT !.age = Older(@)] \in LastCover
        BY <1>5 DEF Tick
    <3>1. last[s] \in LastCover /\ Older(last[s].age) \in Int
        BY DEF LastCover, Older
    <3> QED BY <3>1 DEF LastCover
  <2>2. closing' \in [Surfaces -> ClosingCover]
    <3> SUFFICES ASSUME NEW s \in Surfaces
                 PROVE  closing'[s] \in ClosingCover
        BY <1>5 DEF Tick
    <3>1. closing[s] \in ClosingCover /\ closing[s].bind \in Int /\ closing[s].hold \in Int
        BY DEF ClosingCover
    <3>2. \A b \in Int : [closing[s] EXCEPT !.bind = b] \in ClosingCover
        BY <3>1 DEF ClosingCover
    <3>3. \A h \in Int : [closing[s] EXCEPT !.hold = h] \in ClosingCover
        BY <3>1 DEF ClosingCover
    <3>4. CASE closing[s].up /\ closing[s].hold = Searching
      <4> DEFINE b == IF closing[s].bind + Oldest > 0 THEN closing[s].bind - 1
                                                     ELSE closing[s].bind
      <4>1. b \in Int
          BY <3>1
      <4>2. closing'[s] = [closing[s] EXCEPT !.bind = b]
          BY <3>4, <1>5 DEF Tick
      <4> HIDE DEF b
      <4> QED BY <4>1, <4>2, <3>2
    <3>5. CASE ~(closing[s].up /\ closing[s].hold = Searching)
      <4>1. Fewer(closing[s].hold) \in Int
          BY <3>1 DEF Fewer
      <4>2. closing'[s] = [closing[s] EXCEPT !.hold = Fewer(closing[s].hold)]
          BY <3>5, <1>5 DEF Tick
      <4> QED BY <4>1, <4>2, <3>3
    <3> QED BY <3>4, <3>5
  <2> QED BY <2>1, <2>2, <1>5 DEF Tick
<1>6. CASE UNCHANGED <<slot, last, closing>>
    BY <1>6
<1> QED BY <1>1, <1>2, <1>3, <1>4, <1>5, <1>6
        DEF Next, vars, Open, Move, Retitle, EndFade, DropFade, Leave, Request

\* As a theorem of the specification.
THEOREM ShapesCorrect == Spec => []Shapes
BY ShapesInit, ShapesNext, PTL DEF Spec

----------------------------------------------------------------------------

\* What each action does to the pump, given that closing covers have their type:
\* a closing cover is never up without it (startClosing, paintCovers, pumpTick).
LEMMA PumpArmedNext == Shapes /\ PumpArmed /\ [Next]_vars => PumpArmed'
<1> SUFFICES ASSUME Shapes, PumpArmed, [Next]_vars PROVE PumpArmed'
    OBVIOUS
<1> USE DEF PumpArmed, Covers
<1>1. ASSUME NEW s \in Surfaces, NEW fades \in BOOLEAN, Close(s, fades)
      PROVE PumpArmed'
    BY <1>1 DEF Close
<1>2. ASSUME NEW c \in Clients, Frame(c)
      PROVE PumpArmed'
  <2>1. closing' = AfterPainting(c) /\ armed' = (armed \/ NeedsPump(c))
      BY <1>2 DEF Frame
  <2> QED BY <2>1 DEF NeedsPump
<1>3. ASSUME PumpTick
      PROVE PumpArmed'
  <2>1. CASE armed'
      BY <2>1
  <2>2. CASE ~armed'
    <3>1. closing' = [s \in Surfaces |-> NoCover]
        BY <1>3, <2>2 DEF PumpTick
    <3> QED BY <3>1 DEF NoCover
  <2> QED BY <2>1, <2>2
<1>4. ASSUME Tick
      PROVE PumpArmed'
  <2>1. \A s \in Surfaces : closing'[s].up = closing[s].up
    <3> SUFFICES ASSUME NEW s \in Surfaces PROVE closing'[s].up = closing[s].up
        OBVIOUS
    <3>1. closing[s] \in ClosingCover
        BY DEF Shapes
    <3> QED BY <3>1, <1>4 DEF Tick, ClosingCover
  <2> QED BY <2>1, <1>4 DEF Tick
<1>5. CASE UNCHANGED <<closing, armed>>
    BY <1>5
<1> QED BY <1>1, <1>2, <1>3, <1>4, <1>5
        DEF Next, vars, Open, Move, Retitle, SetProp, EndFade, DropFade, Leave, Request

\* A closing cover is never up without the pump's timer.
THEOREM PumpArmedCorrect == Spec => []PumpArmed
<1>1. Init => PumpArmed
    BY DEF Init, PumpArmed, Covers, NoCover
<1> QED BY <1>1, ShapesInit, ShapesNext, PumpArmedNext, PTL DEF Spec

----------------------------------------------------------------------------

\* A frame leaves the slots as the user had set them: what renderMonitorWithCovers
\* does to them it undoes, in whatever state they were.
THEOREM FlagsRestoredCorrect == Spec => FlagsRestored
<1>1. ASSUME Shapes, NEW c \in Clients, Frame(c)
      PROVE  slot' = slot
  <2>1. slot' = SlotAfter(c) /\ slot \in [Surfaces -> {"none", "on", "off"}]
      BY <1>1 DEF Frame, Shapes
  <2>2. \A s \in Surfaces : SlotAfter(c)[s] = slot[s]
      BY Unsuppressed, SlotsByPass DEF SlotAfter, Restore
  <2>3. SlotAfter(c) = [s \in Surfaces |-> SlotAfter(c)[s]]
      BY DEF SlotAfter, Restore
  <2> QED BY <2>1, <2>2, <2>3
<1>2. Shapes => [\A c \in Clients : Frame(c) => slot' = slot]_vars
    BY <1>1
<1> QED BY <1>2, ShapesCorrect, PTL DEF FlagsRestored, Spec

\* Whom a hidden surface is covered for: it is overridden by revealFor exactly for
\* the clients its rules let through, and by nothing else when the covers are
\* painted.
LEMMA CoveredIffKept ==
    ASSUME NEW c \in Clients, NEW s \in Surfaces, Shown(s), Hidden(slot, s)
    PROVE  s \in Covered(c) <=> ~Sees(c, RulesOf(s))
<1>1. s \in Revealed(c) <=> Sees(c, RulesOf(s))
    BY DEF Revealed, Shown, Mapped
<1>2. CASE s \in Revealed(c)
  <2>1. s \notin Held(c)
      BY <1>2 DEF Held
  <2>2. SlotPainted(c)[s] = "off"
      BY <1>2, <2>1, Unsuppressed, SlotsByPass
  <2> QED BY <1>1, <1>2, <2>2 DEF Covered, Hidden
<1>3. CASE s \notin Revealed(c)
  <2>1. SlotRevealed(c)[s] = slot[s]
      BY <1>3, SlotsByPass
  <2>2. s \notin Held(c)
      BY <2>1 DEF Held, Hidden
  <2>3. SlotPainted(c)[s] = slot[s]
      BY <2>1, <2>2, Unsuppressed, SlotsByPass
  <2> QED BY <1>1, <1>3, <2>3 DEF Covered, Hidden
<1> QED BY <1>2, <1>3

\* No frame shows a hidden surface to a client its rules keep it from.
THEOREM NeverExposedCorrect == Spec => NeverExposed
<1>1. [\A c \in Clients, s \in Surfaces :
         Frame(c) /\ Shown(s) /\ Hidden(slot, s) /\ ~Sees(c, RulesOf(s))
            => s \in Covered(c)]_vars
    BY CoveredIffKept
<1> QED BY <1>1, PTL DEF NeverExposed

\* No frame covers a hidden surface for a client its rules let through.
THEOREM ShownAsAllowedCorrect == Spec => ShownAsAllowed
<1>1. ASSUME NEW c \in Clients, NEW s \in Surfaces,
             Hidden(slot, s), Sees(c, RulesOf(s))
      PROVE  s \notin Covered(c)
    BY <1>1, CoveredIffKept DEF Covered
<1>2. [\A c \in Clients, s \in Surfaces :
         Frame(c) /\ Hidden(slot, s) /\ Sees(c, RulesOf(s)) => s \notin Covered(c)]_vars
    BY <1>1
<1> QED BY <1>2, PTL DEF ShownAsAllowed

----------------------------------------------------------------------------
\* The rest of the type invariant: fade-outs, whose rules an entry holds, and the
\* ranges of the numbers.

FadeOut == [is    : {"none", "running", "done"},
            owed  : {"no", "waiting", "live", "lost"},
            rules : RuleValues]
FadeShapes == fade \in [Surfaces -> FadeOut]

LEMMA FadeShapesNext == FadeShapes /\ [Next]_vars => FadeShapes'
<1> SUFFICES ASSUME FadeShapes, [Next]_vars PROVE FadeShapes'
    OBVIOUS
<1> USE DEF FadeShapes
<1>r. \A s \in Surfaces : RulesOf(s) \in RuleValues
    BY RulesType
<1>n. NoFade \in FadeOut
    BY RulesType, CaptureAssumption DEF NoFade, FadeOut, Plain, RuleValues
<1>o. ASSUME NEW f \in FadeOut, NEW o \in {"no", "waiting", "live", "lost"}
      PROVE  [f EXCEPT !.owed = o] \in FadeOut
    BY <1>o DEF FadeOut
<1>1. ASSUME NEW s \in Surfaces, NEW fades \in BOOLEAN, Close(s, fades)
      PROVE FadeShapes'
  <2>1. CASE ~fades
    <3>1. fade' = [fade EXCEPT ![s] = NoFade]
        BY <1>1, <2>1 DEF Close
    <3> QED BY <3>1, <1>n
  <2>2. CASE fades
    <3> DEFINE o == CASE StartsClosing(s)                 -> "live"
                      [] Hidden(slot, s) /\ ~Captured /\ last[s].in
                         /\ ~last[s].gone /\ last[s].rules = RulesOf(s) -> "waiting"
                      [] OTHER                            -> "no"
    <3>1. fade' = [fade EXCEPT ![s] = [is |-> "running", owed |-> o, rules |-> RulesOf(s)]]
        BY <1>1, <2>2 DEF Close
    <3>2. o \in {"no", "waiting", "live"}
      <4>1. CASE StartsClosing(s)
          BY <4>1
      <4>2. CASE ~StartsClosing(s)
          BY <4>2
      <4> QED BY <4>1, <4>2
    <3> HIDE DEF o
    <3>3. [is |-> "running", owed |-> o, rules |-> RulesOf(s)] \in FadeOut
        BY <1>r, <3>2 DEF FadeOut
    <3> QED BY <3>1, <3>3
  <2> QED BY <2>1, <2>2
<1>2. ASSUME NEW s \in Surfaces, EndFade(s)
      PROVE FadeShapes'
  <2>1. [fade[s] EXCEPT !.is = "done"] \in FadeOut
      BY DEF FadeOut
  <2>2. fade' = [fade EXCEPT ![s] = [fade[s] EXCEPT !.is = "done"]]
      BY <1>2 DEF EndFade
  <2> QED BY <2>1, <2>2
<1>3. ASSUME NEW s \in Surfaces, DropFade(s)
      PROVE FadeShapes'
    BY <1>3, <1>n DEF DropFade
<1>4. ASSUME NEW c \in Clients, Leave(c)
      PROVE FadeShapes'
    BY <1>4, <1>o DEF Leave, Unowed
<1>5. ASSUME NEW c \in Clients, Frame(c)
      PROVE FadeShapes'
    BY <1>5, <1>o DEF Frame
<1>6. ASSUME Tick
      PROVE FadeShapes'
    BY <1>6, <1>o DEF Tick, Unowed
<1>7. CASE UNCHANGED fade
    BY <1>7
<1> QED BY <1>1, <1>2, <1>3, <1>4, <1>5, <1>6, <1>7
        DEF Next, vars, Open, Move, Retitle, SetProp, Request, PumpTick

\* A tracker's entry or a fade-out has the rules of its surface, or the options.
Own(s) == {Rules[s], Plain}
OwnRules == \A s \in Surfaces :
    fade[s].rules \in Own(s) /\ last[s].rules \in Own(s) /\ closing[s].rules \in Own(s)

\* findFadeFor and the clock change neither the rules of a closing cover nor
\* whether it is up.
LEMMA FollowKeeps ==
    ASSUME NEW s \in Surfaces, NEW e \in ClosingCover
    PROVE  /\ Follow(s, e).rules = e.rules
           /\ Follow(s, e).up = e.up
           /\ Follow(s, e).bind = e.bind
<1> DEFINE fading == (e.bound /\ fade[s].is # "none") \/ (e.bind > 0 /\ Running(s))
<1>1. CASE fading /\ Running(s)
    BY <1>1 DEF Follow, ClosingCover
<1>2. CASE fading /\ ~Running(s)
    BY <1>2 DEF Follow, ClosingCover
<1>3. CASE ~fading /\ e.bind <= 0
    BY <1>3 DEF Follow, ClosingCover
<1>4. CASE ~fading /\ ~(e.bind <= 0)
    BY <1>4 DEF Follow, ClosingCover
<1> QED BY <1>1, <1>2, <1>3, <1>4

\* What a frame hands to findFadeFor: the closing covers with the new ones among
\* them are of their type, and a new one has the noted rules.
LEMMA TrackingShapes ==
    ASSUME Shapes, NEW c \in Clients, NEW s \in Surfaces
    PROVE  /\ Noted(c)[s] \in LastCover
           /\ AfterTracking(c)[s] \in ClosingCover
           /\ s \in Tracked(c) =>
                AfterTracking(c)[s] = NewCover(Noted(c)[s].rules, ~Fresh(c, s))
           /\ s \notin Tracked(c) => AfterTracking(c)[s] = closing[s]
<1>1. Noted(c)[s] \in LastCover
    BY RulesType DEF Noted, LastCover, IsLayer, Shapes
<1>2. /\ s \in Tracked(c) =>
           AfterTracking(c)[s] = NewCover(Noted(c)[s].rules, ~Fresh(c, s))
      /\ s \notin Tracked(c) => AfterTracking(c)[s] = closing[s]
    BY DEF AfterTracking
<1>3. NewCover(Noted(c)[s].rules, ~Fresh(c, s)) \in ClosingCover
  <2>1. Noted(c)[s].rules \in RuleValues
      BY <1>1 DEF LastCover
  <2>2. (~Fresh(c, s)) \in BOOLEAN
      BY DEF Fresh
  <2> QED BY <2>1, <2>2, CaptureAssumption DEF NewCover, ClosingCover, Searching
<1> QED BY <1>1, <1>2, <1>3 DEF Shapes

LEMMA OwnRulesNext == Shapes /\ FadeShapes /\ OwnRules /\ [Next]_vars => OwnRules'
<1> SUFFICES ASSUME Shapes, FadeShapes, OwnRules, [Next]_vars PROVE OwnRules'
    OBVIOUS
<1>r. \A s \in Surfaces : RulesOf(s) \in Own(s)
    BY DEF RulesOf, Own
<1>n. \A s \in Surfaces : NoFade.rules \in Own(s) /\ NoLast.rules \in Own(s) /\ NoCover.rules \in Own(s)
    BY DEF NoFade, NoLast, NoCover, Own
<1>1. (\A s \in Surfaces : fade'[s].rules \in Own(s)) => OwnRules'
  <2> SUFFICES /\ \A s \in Surfaces : last'[s].rules \in Own(s)
               /\ \A s \in Surfaces : closing'[s].rules \in Own(s)
      BY DEF OwnRules, Own, Plain
  <2> USE DEF OwnRules
  <2>1. ASSUME NEW t \in Surfaces, NEW fades \in BOOLEAN, Close(t, fades), NEW s \in Surfaces
        PROVE  last'[s].rules \in Own(s) /\ closing'[s].rules \in Own(s)
    <3>1. CASE StartsClosing(t)
      <4>1. /\ last' = [last EXCEPT ![t] = NoLast]
            /\ closing' = [closing EXCEPT ![t] = NewCover(RulesOf(t), FALSE)]
          BY <3>1, <2>1 DEF Close, Forgotten
      <4> QED BY <4>1, <1>n, <1>r DEF Shapes, NewCover
    <3>2. CASE ~StartsClosing(t)
      <4>1. last' = [last EXCEPT ![t].gone = @ \/ last[t].in] /\ closing' = closing
          BY <3>2, <2>1 DEF Close
      <4>2. last'[s].rules = last[s].rules
          BY <4>1 DEF Shapes, LastCover
      <4> QED BY <4>1, <4>2
    <3> QED BY <3>1, <3>2
  <2>2. ASSUME NEW c \in Clients, Frame(c), NEW s \in Surfaces
        PROVE  last'[s].rules \in Own(s) /\ closing'[s].rules \in Own(s)
    <3>1. Noted(c)[s].rules \in Own(s)
        BY <1>r DEF Noted
    <3>2. last'[s].rules \in Own(s)
        BY <3>1, <1>n, <2>2 DEF Frame, Remembered
    <3>3. AfterTracking(c)[s].rules \in Own(s)
        BY <3>1 DEF AfterTracking, NewCover
    <3>4. AfterPainting(c)[s].rules = AfterTracking(c)[s].rules
        BY TrackingShapes, FollowKeeps DEF AfterPainting
    <3> QED BY <3>2, <3>3, <3>4, <2>2 DEF Frame
  <2>3. ASSUME PumpTick, NEW s \in Surfaces
        PROVE  last'[s].rules \in Own(s) /\ closing'[s].rules \in Own(s)
      BY <2>3, <1>n DEF PumpTick, Kept
  <2>4. ASSUME Tick, NEW s \in Surfaces
        PROVE  last'[s].rules \in Own(s) /\ closing'[s].rules \in Own(s)
    <3>1. last'[s].rules = last[s].rules
        BY <2>4 DEF Tick, Shapes, LastCover
    <3>2. closing'[s].rules = closing[s].rules
        BY <2>4 DEF Tick, Shapes, ClosingCover
    <3> QED BY <3>1, <3>2
  <2>5. CASE UNCHANGED <<last, closing>>
      BY <2>5
  <2> QED BY <2>1, <2>2, <2>3, <2>4, <2>5
          DEF Next, vars, Open, Move, Retitle, SetProp, EndFade, DropFade, Leave, Request
<1>2. \A s \in Surfaces : fade'[s].rules \in Own(s)
  <2> USE DEF OwnRules
  <2>1. ASSUME NEW t \in Surfaces, NEW fades \in BOOLEAN, Close(t, fades), NEW s \in Surfaces
        PROVE  fade'[s].rules \in Own(s)
    <3>1. fade' = [fade EXCEPT ![t] = fade'[t]] /\ fade'[t].rules \in {NoFade.rules, RulesOf(t)}
        BY <2>1 DEF Close, FadeShapes
    <3> QED BY <3>1, <1>n, <1>r DEF FadeShapes
  <2>2. ASSUME NEW t \in Surfaces, EndFade(t) \/ DropFade(t), NEW s \in Surfaces
        PROVE  fade'[s].rules \in Own(s)
      BY <2>2, <1>n DEF EndFade, DropFade, FadeShapes, FadeOut
  <2>3. ASSUME NEW c \in Clients, Leave(c) \/ Frame(c), NEW s \in Surfaces
        PROVE  fade'[s].rules \in Own(s)
    <3>1. fade'[s].rules = fade[s].rules
        BY <2>3 DEF Leave, Unowed, Frame, FadeShapes, FadeOut
    <3> QED BY <3>1
  <2>4. ASSUME Tick, NEW s \in Surfaces
        PROVE  fade'[s].rules \in Own(s)
    <3>1. fade'[s].rules = fade[s].rules
        BY <2>4 DEF Tick, Unowed, FadeShapes, FadeOut
    <3> QED BY <3>1
  <2>5. CASE UNCHANGED fade
      BY <2>5
  <2> QED BY <2>1, <2>2, <2>3, <2>4, <2>5
          DEF Next, vars, Open, Move, Retitle, SetProp, Request, PumpTick
<1> QED BY <1>1, <1>2

\* No threshold is beyond the oldest age told apart.
LEMMA OldestType ==
    /\ Oldest \in Nat
    /\ Stale <= Oldest
    /\ \A s \in Surfaces : \A rules \in Own(s) : rules.hold \in 0 .. Oldest
<1>1. Oldest \in Thresholds /\ \A m \in Thresholds : Oldest >= m
    BY ThresholdsAssumption DEF Oldest
<1>2. Thresholds \subseteq Nat
    BY CaptureAssumption DEF Thresholds, RuleValues
<1>3. \A s \in Surfaces : \A rules \in Own(s) : rules.hold \in Thresholds
    BY DEF Own, Plain, Thresholds
<1>4. Stale \in Thresholds
    BY DEF Thresholds
<1>5. \A m \in Thresholds : m \in 0 .. Oldest
    BY <1>1, <1>2
<1> QED BY <1>1, <1>2, <1>3, <1>4, <1>5

\* Ages, bind windows and holds stay in their ranges; a hold is Searching or what
\* is left of it, which no late end of a search makes negative (paintClosing).
LastRange(e) == e.age \in 0 .. Oldest
ClosingRange(e) == e.bind \in -Oldest .. Bind /\ e.hold \in {Searching} \union (0 .. Oldest)
Ranges ==
    /\ \A s \in Surfaces : LastRange(last[s]) /\ ClosingRange(closing[s])
    /\ recent \in [Surfaces -> 0 .. Oldest]
    /\ quiet \in 0 .. Share

LEMMA FollowRange ==
    ASSUME NEW s \in Surfaces, NEW e \in ClosingCover, ClosingRange(e), e.rules \in Own(s)
    PROVE  ClosingRange(Follow(s, e))
<1> DEFINE fading == (e.bound /\ fade[s].is # "none") \/ (e.bind > 0 /\ Running(s))
<1>1. Follow(s, e).bind = e.bind
    BY FollowKeeps
<1>2. e.rules.hold \in 0 .. Oldest /\ Oldest \in Nat /\ e.bind \in Int
    BY OldestType DEF ClosingCover
<1>3. Follow(s, e).hold \in {Searching} \union (0 .. Oldest)
  <2>1. CASE fading /\ Running(s)
      BY <2>1 DEF Follow, ClosingCover, ClosingRange
  <2>2. CASE fading /\ ~Running(s)
      BY <2>2, <1>2 DEF Follow, ClosingCover
  <2>3. CASE ~fading /\ e.bind <= 0
    <3> DEFINE h == IF e.bind + e.rules.hold > 0 THEN e.bind + e.rules.hold ELSE 0
    <3>1. h \in 0 .. Oldest
        BY <1>2, <2>3
    <3>2. Follow(s, e).hold = h
        BY <2>3 DEF Follow, ClosingCover
    <3> HIDE DEF h
    <3> QED BY <3>1, <3>2
  <2>4. CASE ~fading /\ ~(e.bind <= 0)
      BY <2>4 DEF Follow, ClosingCover, ClosingRange
  <2> QED BY <2>1, <2>2, <2>3, <2>4
<1> QED BY <1>1, <1>3 DEF ClosingRange

LEMMA RangesInit == Init => Ranges
<1> SUFFICES ASSUME Init PROVE Ranges
    OBVIOUS
<1>1. Oldest \in Nat /\ Share \in Nat /\ Bind \in Nat
    BY OldestType, CaptureAssumption
<1>2. LastRange(NoLast)
    BY <1>1 DEF LastRange, NoLast
<1>3. ClosingRange(NoCover)
    BY <1>1 DEF ClosingRange, NoCover
<1> QED BY <1>1, <1>2, <1>3 DEF Init, Ranges

LEMMA RangesNext == Shapes /\ OwnRules /\ Ranges /\ [Next]_vars => Ranges'
<1> SUFFICES ASSUME Shapes, OwnRules, Ranges, [Next]_vars PROVE Ranges'
    OBVIOUS
<1>o. Oldest \in Nat /\ Stale <= Oldest /\ Share \in Nat \ {0} /\ Bind \in Nat
    BY OldestType, CaptureAssumption
<1>p. \A s \in Surfaces : RulesOf(s).hold \in 0 .. Oldest
    BY OldestType DEF Own, RulesOf
<1>n. LastRange(NoLast) /\ ClosingRange(NoCover)
    BY <1>o DEF LastRange, NoLast, ClosingRange, NoCover
<1>c. \A rules, b : ClosingRange(NewCover(rules, b))
    BY <1>o DEF ClosingRange, NewCover
<1>1. ASSUME NEW t \in Surfaces, NEW fades \in BOOLEAN, Close(t, fades)
      PROVE  Ranges'
  <2>1. recent' \in [Surfaces -> 0 .. Oldest] /\ quiet' \in 0 .. Share
      BY <1>1, <1>o DEF Close, Ranges
  <2>2. CASE StartsClosing(t)
    <3>1. /\ last' = [last EXCEPT ![t] = NoLast]
          /\ closing' = [closing EXCEPT ![t] = NewCover(RulesOf(t), FALSE)]
        BY <2>2, <1>1 DEF Close, Forgotten
    <3>2. \A s \in Surfaces : last'[s] \in {last[s], NoLast}
        BY <3>1 DEF Shapes
    <3>3. \A s \in Surfaces : closing'[s] \in {closing[s], NewCover(RulesOf(t), FALSE)}
        BY <3>1 DEF Shapes
    <3>4. \A s \in Surfaces : LastRange(last'[s]) /\ ClosingRange(closing'[s])
        BY <3>2, <3>3, <1>n, <1>c DEF Ranges
    <3> QED BY <3>4, <2>1 DEF Ranges, LastRange, ClosingRange
  <2>3. CASE ~StartsClosing(t)
    <3>1. last' = [last EXCEPT ![t].gone = @ \/ last[t].in] /\ closing' = closing
        BY <2>3, <1>1 DEF Close
    <3>2. \A s \in Surfaces : last'[s].age = last[s].age
        BY <3>1 DEF Shapes, LastCover
    <3> QED BY <2>1, <3>1, <3>2 DEF Ranges, LastRange, ClosingRange
  <2> QED BY <2>2, <2>3
<1>2. ASSUME NEW c \in Clients, Frame(c)
      PROVE  Ranges'
  <2>1. \A s \in Surfaces : LastRange(last'[s])
    <3>1. \A s \in Surfaces : LastRange(Noted(c)[s])
        BY <1>o DEF Noted, LastRange, Ranges
    <3> QED BY <3>1, <1>n, <1>2 DEF Frame, Remembered
  <2>2. \A s \in Surfaces : ClosingRange(closing'[s])
    <3> SUFFICES ASSUME NEW s \in Surfaces PROVE ClosingRange(AfterPainting(c)[s])
        BY <1>2 DEF Frame
    <3>1. ClosingRange(AfterTracking(c)[s]) /\ AfterTracking(c)[s] \in ClosingCover
        BY TrackingShapes, <1>c DEF Ranges
    <3>2. AfterTracking(c)[s].rules \in Own(s)
      <4>1. RulesOf(s) \in Own(s)
          BY DEF RulesOf, Own
      <4>2. Noted(c)[s].rules \in Own(s)
          BY <4>1 DEF Noted, OwnRules
      <4> QED BY <4>2 DEF AfterTracking, NewCover, OwnRules
    <3>3. ClosingRange(Follow(s, AfterTracking(c)[s]))
        BY <3>1, <3>2, FollowRange
    <3> QED BY <3>1, <3>3 DEF AfterPainting
  <2>3. recent' \in [Surfaces -> 0 .. Oldest] /\ quiet' \in 0 .. Share
      BY <1>2, <1>o, <1>p DEF Frame, Ranges
  <2> QED BY <2>1, <2>2, <2>3 DEF Ranges, LastRange, ClosingRange
<1>3. ASSUME PumpTick
      PROVE  Ranges'
  <2>1. \A s \in Surfaces : closing'[s] \in {closing[s], NoCover}
      BY <1>3 DEF PumpTick, Kept
  <2>2. \A s \in Surfaces : ClosingRange(closing'[s])
      BY <2>1, <1>n DEF Ranges
  <2> QED BY <2>2, <1>3 DEF PumpTick, Ranges, LastRange, ClosingRange
<1>4. ASSUME Tick
      PROVE  Ranges'
  <2>1. ASSUME NEW s \in Surfaces PROVE LastRange(last'[s])
    <3>1. last'[s].age \in {last[s].age, Older(last[s].age)}
        BY <1>4 DEF Tick, Shapes, LastCover
    <3>2. last[s].age \in 0 .. Oldest
        BY DEF Ranges, LastRange
    <3> QED BY <3>1, <3>2, <1>o DEF Older, LastRange
  <2>2. ASSUME NEW s \in Surfaces PROVE ClosingRange(closing'[s])
    <3>1. /\ closing[s].bind \in -Oldest .. Bind
          /\ closing[s].hold \in {Searching} \union (0 .. Oldest)
          /\ closing[s] \in ClosingCover
        BY DEF Ranges, ClosingRange, Shapes
    <3>2. CASE closing[s].up /\ closing[s].hold = Searching
      <4>1. closing'[s] = [closing[s] EXCEPT !.bind = IF @ + Oldest > 0 THEN @ - 1 ELSE @]
          BY <3>2, <1>4 DEF Tick
      <4>2. closing'[s].hold = closing[s].hold
          BY <4>1, <3>1 DEF ClosingCover
      <4>3. closing'[s].bind = IF closing[s].bind + Oldest > 0 THEN closing[s].bind - 1
                                                               ELSE closing[s].bind
          BY <4>1, <3>1 DEF ClosingCover
      <4>4. closing'[s].bind \in -Oldest .. Bind
          BY <4>3, <3>1, <1>o
      <4> QED BY <4>2, <4>4, <3>1 DEF ClosingRange
    <3>3. CASE ~(closing[s].up /\ closing[s].hold = Searching)
      <4>1. closing'[s] = [closing[s] EXCEPT !.hold = Fewer(@)]
          BY <3>3, <1>4 DEF Tick
      <4>2. closing'[s].bind = closing[s].bind /\ closing'[s].hold = Fewer(closing[s].hold)
          BY <4>1, <3>1 DEF ClosingCover
      <4>3. Fewer(closing[s].hold) \in 0 .. Oldest
          BY <3>1, <1>o DEF Fewer, Searching
      <4> QED BY <4>2, <4>3, <3>1 DEF ClosingRange
    <3> QED BY <3>2, <3>3
  <2>3. recent' \in [Surfaces -> 0 .. Oldest]
    <3>1. \A s \in Surfaces : Fewer(recent[s]) \in 0 .. Oldest
        BY <1>o DEF Fewer, Ranges
    <3> QED BY <3>1, <1>4 DEF Tick
  <2>4. quiet' \in 0 .. Share
      BY <1>4, <1>o DEF Tick, Ranges
  <2> QED BY <2>1, <2>2, <2>3, <2>4 DEF Ranges, LastRange, ClosingRange
<1>5. CASE UNCHANGED <<last, closing, recent, quiet>>
    BY <1>5 DEF Ranges, LastRange, ClosingRange
<1> QED BY <1>1, <1>2, <1>3, <1>4, <1>5
        DEF Next, vars, Open, Move, Retitle, SetProp, EndFade, DropFade, Leave, Request

\* The desktop, the clients and what is drawn.
Desktop ==
    /\ kind \in [Surfaces -> Kinds]
    /\ life \in [Surfaces -> {"shown", "away", "unmapped"}]
    /\ rule \in [Surfaces -> BOOLEAN]
    /\ boxes \in BOOLEAN
    /\ armed \in BOOLEAN
    /\ pending \subseteq Clients
    /\ dirty \subseteq Clients
    /\ stayed \subseteq Surfaces
    /\ left \subseteq Surfaces

LEMMA DesktopNext == Desktop /\ [Next]_vars => Desktop'
<1> SUFFICES ASSUME Desktop, [Next]_vars PROVE Desktop'
    OBVIOUS
<1> USE DEF Desktop
<1>1. ASSUME NEW s \in Surfaces, NEW k \in Kinds, Open(s, k) PROVE Desktop'
    BY <1>1 DEF Open
<1>2. ASSUME NEW s \in Surfaces, Move(s) PROVE Desktop'
    BY <1>2 DEF Move
<1>3. ASSUME NEW s \in Surfaces, Retitle(s) PROVE Desktop'
    BY <1>3 DEF Retitle
<1>4. ASSUME NEW s \in Surfaces, NEW fades \in BOOLEAN, Close(s, fades) PROVE Desktop'
    BY <1>4 DEF Close
<1>5. ASSUME NEW s \in Surfaces, EndFade(s) PROVE Desktop'
    BY <1>5 DEF EndFade
<1>6. ASSUME NEW c \in Clients, Leave(c) PROVE Desktop'
    BY <1>6 DEF Leave
<1>7. ASSUME NEW c \in Clients, Frame(c) PROVE Desktop'
  <2>1. NeedsPump(c) \in BOOLEAN
      BY CaptureAssumption DEF NeedsPump
  <2> QED BY <1>7, <2>1 DEF Frame, Drawn
<1>8. ASSUME NEW c \in Clients, NEW now \in BOOLEAN, Request(c, now) PROVE Desktop'
    BY <1>8 DEF Request
<1>9. ASSUME PumpTick PROVE Desktop'
  <2> DEFINE any == Captured /\ ((Animated /\ boxes) \/ Covers # {})
  <2>1. any \in BOOLEAN
      BY DEF Captured, CapturedWith
  <2>2. /\ dirty' = IF any THEN Clients ELSE dirty
        /\ boxes' = (boxes /\ any)
        /\ armed' = any
        /\ UNCHANGED <<kind, life, rule, pending, stayed, left>>
      BY <1>9 DEF PumpTick
  <2> HIDE DEF any
  <2> QED BY <2>1, <2>2
<1>10. ASSUME Tick PROVE Desktop'
    BY <1>10 DEF Tick
<1>11. CASE UNCHANGED <<kind, life, rule, boxes, armed, pending, dirty, stayed, left>>
    BY <1>11
<1> QED BY <1>1, <1>2, <1>3, <1>4, <1>5, <1>6, <1>7, <1>8, <1>9, <1>10, <1>11
        DEF Next, vars, SetProp, DropFade

\* Every state is one the program can name: the trackers' numbers in their ranges
\* and their rules those of their surface.
Types == Shapes /\ FadeShapes /\ OwnRules /\ Ranges /\ Desktop

LEMMA TypesInit == Init => Types
<1> SUFFICES ASSUME Init PROVE Types
    OBVIOUS
<1>1. FadeShapes
    BY CaptureAssumption DEF Init, FadeShapes, FadeOut, NoFade, Plain, RuleValues
<1>2. OwnRules
    BY DEF Init, OwnRules, Own, NoFade, NoLast, NoCover
<1>3. Desktop
    BY DEF Init, Desktop
<1> QED BY ShapesInit, RangesInit, <1>1, <1>2, <1>3 DEF Types

LEMMA TypesNext == Types /\ [Next]_vars => Types'
BY ShapesNext, FadeShapesNext, OwnRulesNext, RangesNext, DesktopNext DEF Types

\* The type invariant, for every set of surfaces, clients and rules.
THEOREM TypeCorrect == Spec => []TypeOK
<1>1. Types => TypeOK
  <2> SUFFICES ASSUME Types PROVE TypeOK
      OBVIOUS
  <2>1. \A s \in Surfaces :
          /\ fade[s].is \in {"none", "running", "done"}
          /\ fade[s].owed \in {"no", "waiting", "live", "lost"}
      BY DEF Types, FadeShapes, FadeOut
  <2>2. \A s \in Surfaces :
          /\ fade[s].rules \in {Rules[s], Plain}
          /\ last[s].rules \in {Rules[s], Plain}
          /\ closing[s].rules \in {Rules[s], Plain}
      BY DEF Types, OwnRules, Own
  <2>3. \A s \in Surfaces :
          /\ last[s].in \in BOOLEAN /\ last[s].gone \in BOOLEAN /\ last[s].layer \in BOOLEAN
          /\ closing[s].up \in BOOLEAN /\ closing[s].bound \in BOOLEAN
      BY DEF Types, Shapes, LastCover, ClosingCover
  <2>4. \A s \in Surfaces :
          /\ last[s].age \in 0 .. Oldest
          /\ closing[s].bind \in -Oldest .. Bind
          /\ closing[s].hold \in {Searching} \union (0 .. Oldest)
      BY DEF Types, Ranges, LastRange, ClosingRange
  <2> QED BY <2>1, <2>2, <2>3, <2>4 DEF Types, Shapes, Desktop, Ranges, TypeOK
<1> QED BY <1>1, TypesInit, TypesNext, PTL DEF Spec

----------------------------------------------------------------------------
\* Holding: what g_lastCovers remembers of a surface is worth as much as the hold
\* that is left.

\* A cover painted while nothing is hidden is a held one, and a held one is painted.
LEMMA HeldCovers ==
    ASSUME Types, NEW c \in Clients, NEW s \in Surfaces
    PROVE  /\ s \in Covered(c) /\ ~Hidden(slot, s) => s \in Held(c)
           /\ s \in Held(c) => ~Hidden(slot, s)
           /\ s \in Held(c) /\ Shown(s) => s \in Covered(c)
<1>1. s \in Held(c) => s \notin Revealed(c) /\ ~Hidden(SlotRevealed(c), s)
    BY DEF Held
<1>2. s \in Held(c) => ~Hidden(slot, s)
    BY <1>1, SlotsByPass DEF Hidden
<1>3. s \in Held(c) => Hidden(SlotPainted(c), s)
    BY Unsuppressed, SlotsByPass DEF Hidden
<1>4. ASSUME s \in Covered(c), ~Hidden(slot, s), s \notin Held(c) PROVE FALSE
  <2>1. SlotPainted(c)[s] = SlotRevealed(c)[s]
      BY <1>4, Unsuppressed, SlotsByPass
  <2>2. SlotRevealed(c)[s] \in {"off", slot[s]}
      BY SlotsByPass
  <2> QED BY <1>4, <2>1, <2>2 DEF Covered, Hidden
<1> QED BY <1>2, <1>3, <1>4 DEF Covered

\* Either the entry of a surface still on screen is young enough for the hold that
\* is left, or no hold is; and a surface that stayed has such an entry.
Remembers(s) == last[s].in /\ ~last[s].gone => recent[s] + last[s].age >= last[s].rules.hold
StaysHeld(s) == s \in stayed /\ recent[s] > 0
                  => last[s].in /\ recent[s] + last[s].age <= last[s].rules.hold
HoldInv == \A s \in Surfaces : Remembers(s) /\ StaysHeld(s)

\* A surface with hold left is covered for whomever the rules keep it from.
LEMMA HoldCovers ==
    ASSUME Types, HoldInv, NEW c \in Clients, NEW s \in Surfaces,
           Shown(s), ~LetIn(c, s), s \in stayed, recent[s] > 0
    PROVE  s \in Covered(c)
<1>1. CASE Hidden(slot, s)
    BY <1>1, CoveredIffKept DEF LetIn, RulesOf
<1>2. CASE ~Hidden(slot, s)
  <2>1. s \notin Revealed(c)
      BY <1>2 DEF Revealed
  <2>2. ~Hidden(SlotRevealed(c), s)
      BY <1>2, <2>1, SlotsByPass DEF Hidden
  <2>3. last[s].in /\ last[s].age < last[s].rules.hold
    <3>1. last[s].in /\ recent[s] + last[s].age <= last[s].rules.hold
        BY DEF HoldInv, StaysHeld
    <3>2. last[s].age \in Int /\ last[s].rules.hold \in Int /\ recent[s] \in Int
        BY DEF Types, Shapes, LastCover, RuleValues, Ranges
    <3> QED BY <3>1, <3>2
  <2>4. ~Sees(c, last[s].rules)
      BY DEF Types, OwnRules, Own, LetIn
  <2>5. Holdable(s)
      BY DEF Holdable, Shown, Mapped
  <2> QED BY <2>1, <2>2, <2>3, <2>4, <2>5, HeldCovers DEF Held
<1> QED BY <1>1, <1>2

LEMMA HoldInvInit == Init => HoldInv
<1> SUFFICES ASSUME Init, NEW s \in Surfaces PROVE Remembers(s) /\ StaysHeld(s)
    BY DEF HoldInv
<1>1. ~last[s].in /\ s \notin stayed
    BY DEF Init, NoLast
<1> QED BY <1>1 DEF Remembers, StaysHeld

LEMMA HoldInvNext == Types /\ HoldInv /\ [Next]_vars => HoldInv'
<1> SUFFICES ASSUME Types, HoldInv, [Next]_vars, NEW s \in Surfaces
             PROVE  Remembers(s)' /\ StaysHeld(s)'
    BY DEF HoldInv
<1>t. /\ last[s] \in LastCover
      /\ last[s].age \in 0 .. Oldest
      /\ last[s].rules.hold \in 0 .. Oldest
      /\ recent[s] \in 0 .. Oldest
      /\ Oldest \in Nat
    BY OldestType DEF Types, Shapes, Ranges, LastRange, OwnRules
<1>p. RulesOf(s).hold \in 0 .. Oldest
    BY OldestType DEF Own, RulesOf
<1>i. Remembers(s) /\ StaysHeld(s)
    BY DEF HoldInv
<1>1. ASSUME NEW t \in Surfaces, NEW fades \in BOOLEAN, Close(t, fades)
      PROVE  Remembers(s)' /\ StaysHeld(s)'
  <2>1. CASE s # t
    <3>1. last'[s] = last[s] /\ recent'[s] = recent[s] /\ (s \in stayed' <=> s \in stayed)
        BY <1>1, <2>1 DEF Close, Forgotten, Types, Shapes, Ranges
    <3> QED BY <3>1, <1>i DEF Remembers, StaysHeld
  <2>2. CASE s = t
    <3>1. recent'[s] = 0
        BY <1>1, <2>2 DEF Close, Types, Ranges
    <3>2. ~last'[s].in \/ last'[s].gone
      <4>1. CASE StartsClosing(s)
          BY <4>1, <1>1, <2>2 DEF Close, Forgotten, NoLast, Types, Shapes
      <4>2. CASE ~StartsClosing(s)
        <5>1. last' = [last EXCEPT ![s].gone = @ \/ last[s].in]
            BY <4>2, <1>1, <2>2 DEF Close
        <5>2. last'[s].in = last[s].in /\ last'[s].gone = (last[s].gone \/ last[s].in)
            BY <5>1, <1>t DEF LastCover, Types, Shapes
        <5> QED BY <5>2, <1>t DEF LastCover
      <4> QED BY <4>1, <4>2
    <3> QED BY <3>1, <3>2 DEF Remembers, StaysHeld
  <2> QED BY <2>1, <2>2
<1>2. ASSUME NEW c \in Clients, Frame(c)
      PROVE  Remembers(s)' /\ StaysHeld(s)'
  <2>1. CASE s \in Covered(c) /\ Hidden(slot, s)
    <3>1. s \notin Held(c) /\ s \in Seen(c)
        BY <2>1, HeldCovers DEF Seen
    <3>2. last'[s] = [in |-> TRUE, layer |-> IsLayer(s), age |-> 0,
                      rules |-> RulesOf(s), gone |-> FALSE]
        BY <2>1, <3>1, <1>2 DEF Frame, Remembered, Noted
    <3>3. recent'[s] = RulesOf(s).hold
        BY <2>1, <1>2 DEF Frame
    <3> QED BY <3>2, <3>3, <1>p DEF Remembers, StaysHeld
  <2>2. CASE ~(s \in Covered(c) /\ Hidden(slot, s))
    <3>1. recent'[s] = recent[s]
        BY <2>2, <1>2 DEF Frame
    <3>2. Noted(c)[s] = last[s]
        BY <2>2, HeldCovers DEF Noted
    <3>3. last'[s] = IF s \in Seen(c) THEN last[s] ELSE NoLast
        BY <3>2, <1>2 DEF Frame, Remembered
    <3>4. Remembers(s)'
        BY <3>1, <3>3, <1>i DEF Remembers, NoLast
    <3>5. ASSUME s \in stayed', recent'[s] > 0 PROVE s \in stayed /\ s \in Seen(c)
      <4>1. Shown(s) /\ s \in stayed /\ (Hidden(slot, s) \/ ~LetIn(c, s))
          BY <3>5, <2>2, <1>2 DEF Frame
      <4>2. CASE Hidden(slot, s)
        <5>1. Sees(c, RulesOf(s))
            BY <4>1, <4>2, <2>2, CoveredIffKept
        <5> QED BY <4>1, <4>2, <5>1 DEF Revealed, Seen, Shown, Mapped
      <4>3. CASE ~LetIn(c, s)
          BY <4>1, <4>3, <3>1, <3>5, HoldCovers DEF Seen
      <4> QED BY <4>1, <4>2, <4>3
    <3>6. StaysHeld(s)'
        BY <3>1, <3>3, <3>5, <1>i DEF StaysHeld
    <3> QED BY <3>4, <3>6
  <2> QED BY <2>1, <2>2
<1>3. ASSUME Tick
      PROVE  Remembers(s)' /\ StaysHeld(s)'
  <2>1. recent'[s] = Fewer(recent[s]) /\ (s \in stayed' => s \in stayed)
      BY <1>3 DEF Tick
  <2>2. CASE last[s].in
    <3>1. last'[s] = [last[s] EXCEPT !.age = Older(@)]
        BY <2>2, <1>3 DEF Tick
    <3>2. /\ last'[s].in = last[s].in /\ last'[s].gone = last[s].gone
          /\ last'[s].rules = last[s].rules /\ last'[s].age = Older(last[s].age)
        BY <3>1, <1>t DEF LastCover
    <3>3. Remembers(s)'
        BY <2>1, <3>2, <1>t, <1>i DEF Remembers, Fewer, Older
    <3>4. StaysHeld(s)'
        BY <2>1, <3>2, <1>t, <1>i DEF StaysHeld, Fewer, Older
    <3> QED BY <3>3, <3>4
  <2>3. CASE ~last[s].in
    <3>1. last'[s] = last[s]
        BY <2>3, <1>3 DEF Tick
    <3> QED BY <2>1, <2>3, <3>1, <1>t, <1>i DEF Remembers, StaysHeld, Fewer
  <2> QED BY <2>2, <2>3
<1>4. CASE UNCHANGED <<last, recent, stayed>>
    BY <1>4, <1>i DEF Remembers, StaysHeld
<1> QED BY <1>1, <1>2, <1>3, <1>4
        DEF Next, vars, Open, Move, Retitle, SetProp, EndFade, DropFade, Leave, Request, PumpTick

\* A surface that stops being hidden stays covered for its hold, counted from the
\* frame it was covered in last (holdUnhidden).
THEOREM HeldAfterUnhidingCorrect == Spec => HeldAfterUnhiding
<1>1. Types /\ HoldInv =>
        [\A c \in Clients, s \in Surfaces :
           Frame(c) /\ Shown(s) /\ ~LetIn(c, s) /\ s \in stayed /\ recent[s] > 0
             => s \in Covered(c)]_vars
    BY HoldCovers
<1> QED BY <1>1, TypesInit, TypesNext, HoldInvInit, HoldInvNext, PTL DEF HeldAfterUnhiding, Spec

\* The hold ends: a held cover is not held for longer than the last frame that
\* covered the hidden surface left it.
THEOREM HoldEndsCorrect == Spec => HoldEnds
<1>1. ASSUME Types, HoldInv, NEW c \in Clients, NEW s \in Surfaces,
             s \in Covered(c), ~Hidden(slot, s), ~last[s].gone
      PROVE  recent[s] > 0
  <2>1. last[s].in /\ last[s].age < last[s].rules.hold
      BY <1>1, HeldCovers DEF Held
  <2>2. recent[s] + last[s].age >= last[s].rules.hold
      BY <1>1, <2>1 DEF HoldInv, Remembers
  <2>3. last[s].age \in Int /\ last[s].rules.hold \in Int /\ recent[s] \in Int
      BY <1>1 DEF Types, Shapes, LastCover, RuleValues, Ranges
  <2> QED BY <2>1, <2>2, <2>3
<1>2. Types /\ HoldInv =>
        [\A c \in Clients, s \in Surfaces :
           Frame(c) /\ s \in Covered(c) /\ ~Hidden(slot, s) /\ ~last[s].gone
             => recent[s] > 0]_vars
    BY <1>1
<1> QED BY <1>2, TypesInit, TypesNext, HoldInvInit, HoldInvNext, PTL DEF HoldEnds, Spec

----------------------------------------------------------------------------
\* One close, one closing cover: while it is up, the entry of its address is that of
\* a new surface that is still there.

Entered(s) == closing[s].up /\ last[s].in => ~last[s].gone /\ (last[s].layer => Shown(s))
StartInv == \A s \in Surfaces : Entered(s)

LEMMA NotTrackedTwice ==
    ASSUME StartInv, NEW c \in Clients, NEW s \in Surfaces, closing[s].up
    PROVE  s \notin Tracked(c)
<1> SUFFICES ASSUME s \in Tracked(c) PROVE FALSE
    OBVIOUS
<1>1. Noted(c)[s] = last[s]
    BY DEF Tracked, Seen, Noted
<1>2. last[s].in /\ (last[s].gone \/ (last[s].layer /\ ~Shown(s)))
    BY <1>1 DEF Tracked, Gone
<1> QED BY <1>2 DEF StartInv, Entered

LEMMA StartInvInit == Init => StartInv
BY DEF Init, StartInv, Entered, NoCover

LEMMA StartInvNext == Types /\ StartInv /\ [Next]_vars => StartInv'
<1> SUFFICES ASSUME Types, StartInv, [Next]_vars, NEW s \in Surfaces
             PROVE  Entered(s)'
    BY DEF StartInv
<1>i. Entered(s)
    BY DEF StartInv
<1>t. /\ last[s] \in LastCover /\ closing[s] \in ClosingCover
      /\ life \in [Surfaces -> {"shown", "away", "unmapped"}]
    BY DEF Types, Shapes, Desktop
<1>1. ASSUME NEW t \in Surfaces, NEW k \in Kinds, Open(t, k)
      PROVE  Entered(s)'
  <2>1. last' = last /\ closing' = closing /\ life'[s] \in {life[s], "shown"}
      BY <1>1, <1>t DEF Open
  <2> QED BY <2>1, <1>i DEF Entered, Shown
<1>2. ASSUME NEW t \in Surfaces, Move(t)
      PROVE  Entered(s)'
  <2>1. last' = last /\ closing' = closing /\ (s # t => life'[s] = life[s])
        /\ (s = t => ~closing[s].up)
      BY <1>2, <1>t DEF Move
  <2> QED BY <2>1, <1>i DEF Entered, Shown
<1>3. ASSUME NEW t \in Surfaces, NEW fades \in BOOLEAN, Close(t, fades)
      PROVE  Entered(s)'
  <2>1. CASE s # t
    <3>1. last'[s] = last[s] /\ closing'[s] = closing[s] /\ life'[s] = life[s]
        BY <1>3, <1>t, <2>1 DEF Close, Forgotten, Types, Shapes
    <3> QED BY <3>1, <1>i DEF Entered, Shown
  <2>2. CASE s = t /\ StartsClosing(s)
    <3>1. ~last'[s].in
        BY <1>3, <2>2 DEF Close, Forgotten, NoLast, Types, Shapes
    <3> QED BY <3>1 DEF Entered
  <2>3. CASE s = t /\ ~StartsClosing(s)
    <3>1. ~closing'[s].up
        BY <1>3, <2>3 DEF Close
    <3> QED BY <3>1 DEF Entered
  <2> QED BY <2>1, <2>2, <2>3
<1>4. ASSUME NEW c \in Clients, Frame(c)
      PROVE  Entered(s)'
  <2>1. last'[s] = IF s \in Seen(c) THEN Noted(c)[s] ELSE NoLast
      BY <1>4 DEF Frame, Remembered
  <2>2. life' = life
      BY <1>4 DEF Frame
  <2>3. CASE s \notin Seen(c)
      BY <2>1, <2>3 DEF Entered, NoLast
  <2>4. CASE s \in Seen(c)
    <3>1. s \notin Tracked(c)
        BY <2>4 DEF Tracked
    <3>2. closing'[s].up = closing[s].up
      <4>1. AfterTracking(c)[s] = closing[s]
          BY <3>1 DEF AfterTracking
      <4>2. AfterPainting(c)[s].up = closing[s].up
          BY <4>1, <1>t, FollowKeeps DEF AfterPainting
      <4> QED BY <4>2, <1>4 DEF Frame
    <3>3. CASE s \in Covered(c) \ Held(c)
      <4>1. ~Noted(c)[s].gone /\ Shown(s)
          BY <3>3 DEF Noted, Covered
      <4> QED BY <2>1, <2>2, <2>4, <4>1 DEF Entered, Shown
    <3>4. CASE s \notin Covered(c) \ Held(c)
      <4>1. last'[s] = last[s]
          BY <2>1, <2>4, <3>4 DEF Noted
      <4> QED BY <2>2, <3>2, <4>1, <1>i DEF Entered, Shown
    <3> QED BY <3>3, <3>4
  <2> QED BY <2>3, <2>4
<1>5. ASSUME PumpTick
      PROVE  Entered(s)'
  <2>1. closing'[s] \in {closing[s], NoCover} /\ last' = last /\ life' = life
      BY <1>5 DEF PumpTick, Kept
  <2> QED BY <2>1, <1>i DEF Entered, Shown, NoCover
<1>6. ASSUME Tick
      PROVE  Entered(s)'
  <2>1. /\ last'[s].in = last[s].in /\ last'[s].gone = last[s].gone
        /\ last'[s].layer = last[s].layer
      BY <1>6, <1>t DEF Tick, LastCover
  <2>2. closing'[s].up = closing[s].up /\ life' = life
      BY <1>6, <1>t DEF Tick, ClosingCover
  <2> QED BY <2>1, <2>2, <1>i DEF Entered, Shown
<1>7. CASE UNCHANGED <<life, last, closing>>
    BY <1>7, <1>i DEF Entered, Shown
<1> QED BY <1>1, <1>2, <1>3, <1>4, <1>5, <1>6, <1>7
        DEF Next, vars, Retitle, SetProp, EndFade, DropFade, Leave, Request

\* A frame never starts a closing cover for an address whose closing cover is up: the
\* close event and the frames' own tracking do not both start one, and neither does a
\* new surface at the address.
THEOREM StartedOnceCorrect == Spec => StartedOnce
<1>1. Types /\ StartInv =>
        [\A c \in Clients, s \in Surfaces :
           Frame(c) /\ closing[s].up => s \notin Tracked(c)]_vars
    BY NotTrackedTwice
<1> QED BY <1>1, TypesInit, TypesNext, StartInvInit, StartInvNext, PTL DEF StartedOnce, Spec

----------------------------------------------------------------------------
\* Fade-outs: from the close of a hidden surface on, either its entry tells the
\* next frame that it is gone, or its closing cover is up and finds the fade-out.

Awaited(s) == last[s].in /\ last[s].gone /\ last[s].rules = fade[s].rules
Followed(s) ==
    /\ closing[s].up /\ closing[s].hold = Searching /\ closing[s].rules = fade[s].rules
    /\ closing[s].bound \/ closing[s].bind > 0
    /\ Captured
FadeSafe(s) == Running(s) =>
    /\ fade[s].owed = "waiting" => Awaited(s)
    /\ fade[s].owed = "live" => Followed(s)
FadeInv == \A s \in Surfaces : FadeSafe(s)

\* A closing cover that searches finds a running fade-out, if it is bound to it or
\* its bind window is open (findFadeFor).
LEMMA FollowFinds ==
    ASSUME NEW s \in Surfaces, NEW e \in ClosingCover, Running(s), e.bound \/ e.bind > 0
    PROVE  /\ Follow(s, e).hold = e.hold
           /\ Follow(s, e).bound = TRUE
BY DEF Follow, Running, ClosingCover

\* What a frame makes of the trackers of a surface that is closing.
LEMMA FrameFollows ==
    ASSUME Types, StartInv, FadeInv, NEW c \in Clients, NEW s \in Surfaces,
           Running(s), Owed(c, s)
    PROVE  /\ AfterPainting(c)[s].up
           /\ AfterPainting(c)[s].hold = Searching
           /\ AfterPainting(c)[s].bound
           /\ AfterPainting(c)[s].rules = fade[s].rules
<1> DEFINE e == AfterTracking(c)[s]
<1>1. e.up /\ e.hold = Searching /\ (e.bound \/ e.bind > 0) /\ e.rules = fade[s].rules
  <2>1. CASE fade[s].owed = "waiting" /\ s \notin Seen(c)
    <3>1. Awaited(s)
        BY <2>1 DEF FadeInv, FadeSafe
    <3>2. Noted(c)[s] = last[s]
        BY <2>1 DEF Seen, Noted
    <3>3. s \in Tracked(c)
        BY <2>1, <3>1, <3>2 DEF Tracked, Gone, Awaited
    <3>4. e = NewCover(last[s].rules, ~Fresh(c, s))
        BY <3>2, <3>3 DEF AfterTracking
    <3>5. e.up /\ e.hold = Searching /\ e.bind = Bind /\ e.rules = last[s].rules
        BY <3>4 DEF NewCover
    <3>6. Bind > 0
        BY CaptureAssumption
    <3> HIDE DEF e
    <3> QED BY <3>1, <3>5, <3>6 DEF Awaited
  <2>2. CASE fade[s].owed = "live"
    <3>1. Followed(s)
        BY <2>2 DEF FadeInv, FadeSafe
    <3>2. s \notin Tracked(c)
        BY <3>1, NotTrackedTwice DEF Followed
    <3>3. e = closing[s]
        BY <3>2 DEF AfterTracking
    <3> QED BY <3>1, <3>3 DEF Followed
  <2> QED BY <2>1, <2>2 DEF Owed
<1>2. e \in ClosingCover
    BY TrackingShapes DEF Types
<1>3. AfterPainting(c)[s] = Follow(s, e)
    BY <1>1 DEF AfterPainting
<1> HIDE DEF e
<1>4. Follow(s, e).hold = e.hold /\ Follow(s, e).bound = TRUE
    BY <1>1, <1>2, FollowFinds
<1>5. Follow(s, e).up = e.up /\ Follow(s, e).rules = e.rules
    BY <1>2, FollowKeeps
<1> QED BY <1>1, <1>3, <1>4, <1>5

LEMMA FadeInvInit == Init => FadeInv
<1> SUFFICES ASSUME Init, NEW s \in Surfaces PROVE ~Running(s)
    BY DEF FadeInv, FadeSafe
<1> QED BY DEF Init, Running, NoFade

LEMMA FadeInvNext == Types /\ StartInv /\ FadeInv /\ [Next]_vars => FadeInv'
<1> SUFFICES ASSUME Types, StartInv, FadeInv, [Next]_vars, NEW s \in Surfaces, Running(s)'
             PROVE  /\ fade'[s].owed = "waiting" => Awaited(s)'
                    /\ fade'[s].owed = "live" => Followed(s)'
    BY DEF FadeInv, FadeSafe
<1>i. Running(s) => /\ fade[s].owed = "waiting" => Awaited(s)
                    /\ fade[s].owed = "live" => Followed(s)
    BY DEF FadeInv, FadeSafe
<1>t. /\ fade[s] \in FadeOut /\ last[s] \in LastCover /\ closing[s] \in ClosingCover
      /\ fade \in [Surfaces -> FadeOut]
    BY DEF Types, FadeShapes, Shapes
<1> DEFINE Goal == /\ fade'[s].owed = "waiting" => Awaited(s)'
                   /\ fade'[s].owed = "live" => Followed(s)'
<1>1. ASSUME NEW t \in Surfaces, (\E k \in Kinds : Open(t, k)) \/ Move(t)
      PROVE  Goal
  <2>1. fade' = fade /\ last' = last /\ closing' = closing /\ Captured' = Captured
      BY <1>1 DEF Open, Move, Captured, CapturedWith
  <2> QED BY <2>1, <1>i DEF Running, Awaited, Followed
<1>2. ASSUME NEW t \in Surfaces, NEW fades \in BOOLEAN, Close(t, fades)
      PROVE  Goal
  <2>1. CASE s # t
    <3>1. /\ fade'[s] = fade[s]
          /\ last'[s] = last[s] /\ closing'[s] = closing[s]
          /\ Captured' = Captured
        BY <1>2, <1>t, <2>1 DEF Close, Forgotten, Types, Shapes, Captured, CapturedWith
    <3> QED BY <3>1, <1>i DEF Running, Awaited, Followed
  <2>2. CASE s = t
    <3>2. fades
        BY <1>2, <1>t, <2>2 DEF Close, Running, NoFade
    <3>3. CASE StartsClosing(s)
      <4>1. fade'[s].owed = "live" /\ fade'[s].rules = RulesOf(s)
          BY <1>2, <1>t, <2>2, <3>2, <3>3 DEF Close, StartsClosing
      <4>2. last'[s] = NoLast /\ closing'[s] = NewCover(RulesOf(s), FALSE)
          BY <1>2, <2>2, <3>3 DEF Close, Forgotten, Types, Shapes
      <4>3. Captured'
          BY <1>2, <3>3 DEF Close, StartsClosing, Captured, CapturedWith
      <4>4. Bind > 0
          BY CaptureAssumption
      <4> QED BY <4>1, <4>2, <4>3, <4>4 DEF Followed, NoLast, NewCover
    <3>4. CASE ~StartsClosing(s)
      <4>1. last' = [last EXCEPT ![s].gone = @ \/ last[s].in]
          BY <1>2, <2>2, <3>4 DEF Close
      <4>2. /\ last'[s].in = last[s].in /\ last'[s].rules = last[s].rules
            /\ last'[s].gone = (last[s].gone \/ last[s].in)
          BY <4>1, <1>t DEF LastCover, Types, Shapes
      <4>3. CASE Hidden(slot, s) /\ ~Captured /\ last[s].in /\ ~last[s].gone /\ last[s].rules = RulesOf(s)
        <5>1. fade'[s].owed = "waiting" /\ fade'[s].rules = RulesOf(s)
            BY <1>2, <1>t, <2>2, <3>2, <3>4, <4>3 DEF Close
        <5> QED BY <4>2, <4>3, <5>1 DEF Awaited
      <4>4. CASE ~(Hidden(slot, s) /\ ~Captured /\ last[s].in /\ ~last[s].gone /\ last[s].rules = RulesOf(s))
        <5>1. fade'[s].owed = "no"
            BY <1>2, <1>t, <2>2, <3>2, <3>4, <4>4 DEF Close
        <5> QED BY <5>1
      <4> QED BY <4>3, <4>4
    <3> QED BY <3>3, <3>4
  <2> QED BY <2>1, <2>2
<1>3. ASSUME NEW t \in Surfaces, EndFade(t) \/ DropFade(t)
      PROVE  Goal
  <2>1. fade'[s] = fade[s]
      BY <1>3, <1>t DEF EndFade, DropFade, NoFade, Running, FadeOut
  <2>2. last' = last /\ closing' = closing /\ Captured' = Captured
      BY <1>3 DEF EndFade, DropFade, Captured, CapturedWith
  <2> QED BY <2>1, <2>2, <1>i DEF Running, Awaited, Followed
<1>4. ASSUME NEW c \in Clients, Leave(c)
      PROVE  Goal
  <2>1. last' = last /\ closing' = closing
        /\ Captured' = CapturedWith(pending', quiet)
      BY <1>4 DEF Leave, Captured, CapturedWith
  <2>2. fade'[s] = IF fade[s].owed = "live" /\ ~CapturedWith(pending', quiet)
                     THEN [fade[s] EXCEPT !.owed = "no"] ELSE fade[s]
      BY <1>4 DEF Leave, Unowed
  <2>3. fade'[s].is = fade[s].is /\ fade'[s].rules = fade[s].rules
      BY <2>2, <1>t DEF FadeOut
  <2>4. fade'[s].owed = "live" => fade[s].owed = "live" /\ Captured'
      BY <2>1, <2>2, <1>t DEF FadeOut
  <2>5. fade'[s].owed = "waiting" => fade[s].owed = "waiting"
      BY <2>2, <1>t DEF FadeOut
  <2> QED BY <2>1, <2>3, <2>4, <2>5, <1>i DEF Running, Awaited, Followed
<1>5. ASSUME NEW c \in Clients, Frame(c)
      PROVE  Goal
  <2>1. fade'[s] = IF fade[s].owed = "waiting"
                     THEN [fade[s] EXCEPT !.owed = IF s \in Seen(c) THEN "no" ELSE "live"]
                     ELSE fade[s]
      BY <1>5 DEF Frame
  <2>2. fade'[s].is = fade[s].is /\ fade'[s].rules = fade[s].rules /\ fade'[s].owed # "waiting"
        /\ (fade'[s].owed = "live" => Owed(c, s))
      BY <2>1, <1>t DEF FadeOut, Owed
  <2>3. Running(s)
      BY <2>2 DEF Running
  <2>4. ASSUME fade'[s].owed = "live" PROVE Followed(s)'
    <3>1. /\ AfterPainting(c)[s].up
          /\ AfterPainting(c)[s].hold = Searching
          /\ AfterPainting(c)[s].bound
          /\ AfterPainting(c)[s].rules = fade[s].rules
        BY <2>2, <2>3, <2>4, FrameFollows
    <3>2. closing'[s] = AfterPainting(c)[s]
        BY <1>5 DEF Frame
    <3>3. Captured'
        BY <1>5, CaptureAssumption DEF Frame, Captured, CapturedWith
    <3> QED BY <2>2, <3>1, <3>2, <3>3 DEF Followed
  <2> QED BY <2>2, <2>4
<1>6. ASSUME NEW c \in Clients, NEW now \in BOOLEAN, Request(c, now)
      PROVE  Goal
  <2>1. fade' = fade /\ last' = last /\ closing' = closing /\ Captured'
      BY <1>6 DEF Request, Captured, CapturedWith
  <2> QED BY <2>1, <1>i DEF Running, Awaited, Followed
<1>7. ASSUME PumpTick
      PROVE  Goal
  <2>1. fade' = fade /\ last' = last /\ Captured' = Captured
      BY <1>7 DEF PumpTick, Captured, CapturedWith
  <2>2. ASSUME Followed(s) PROVE closing'[s] = closing[s]
    <3>1. Captured /\ s \in Covers /\ closing[s].hold # 0
        BY <2>2 DEF Followed, Covers, Searching
    <3>2. closing' = Kept
        BY <1>7, <3>1 DEF PumpTick
    <3> QED BY <3>1, <3>2 DEF Kept
  <2> QED BY <2>1, <2>2, <1>i DEF Running, Awaited, Followed
<1>8. ASSUME Tick
      PROVE  Goal
  <2>1. Captured' = CapturedWith(pending, quiet')
      BY <1>8 DEF Tick, Captured, CapturedWith
  <2>2. fade'[s] = IF fade[s].owed = "live" /\ (s \in Missed \/ ~CapturedWith(pending, quiet'))
                     THEN [fade[s] EXCEPT !.owed = "lost"] ELSE fade[s]
      BY <1>8 DEF Tick, Unowed
  <2>3. fade'[s].is = fade[s].is /\ fade'[s].rules = fade[s].rules
      BY <2>2, <1>t DEF FadeOut
  <2>4. fade'[s].owed = "live" => fade[s].owed = "live" /\ Captured' /\ s \notin Missed
      BY <2>1, <2>2, <1>t DEF FadeOut
  <2>5. fade'[s].owed = "waiting" => fade[s].owed = "waiting"
      BY <2>2, <1>t DEF FadeOut
  <2>6. /\ last'[s].in = last[s].in /\ last'[s].gone = last[s].gone
        /\ last'[s].rules = last[s].rules
      BY <1>8, <1>t DEF Tick, LastCover
  <2>7. Running(s)
      BY <2>3 DEF Running
  <2>8. ASSUME fade'[s].owed = "live" PROVE Followed(s)'
    <3>1. Followed(s) /\ Captured'
        BY <2>4, <2>7, <2>8, <1>i
    <3>2. closing[s].bound \/ closing[s].bind > 1
        BY <2>4, <2>7, <2>8, <3>1, <1>t DEF Missed, Unbound, Followed, ClosingCover
    <3>3. closing'[s] = [closing[s] EXCEPT !.bind = IF @ + Oldest > 0 THEN @ - 1 ELSE @]
        BY <1>8, <3>1 DEF Tick, Followed
    <3>4. /\ closing'[s].up = closing[s].up /\ closing'[s].hold = closing[s].hold
          /\ closing'[s].rules = closing[s].rules /\ closing'[s].bound = closing[s].bound
          /\ closing'[s].bind = IF closing[s].bind + Oldest > 0 THEN closing[s].bind - 1
                                                                ELSE closing[s].bind
        BY <3>3, <1>t DEF ClosingCover
    <3>5. closing'[s].bound \/ closing'[s].bind > 0
        BY <3>2, <3>4, <1>t DEF ClosingCover
    <3> QED BY <3>1, <3>4, <3>5, <2>3, <2>6 DEF Followed
  <2> QED BY <2>1, <2>3, <2>5, <2>6, <2>7, <2>8, <1>i DEF Awaited
<1>9. CASE UNCHANGED <<fade, last, closing, pending, quiet>>
    BY <1>9, <1>i DEF Running, Awaited, Followed, Captured, CapturedWith
<1> QED BY <1>1, <1>2, <1>3, <1>4, <1>5, <1>6, <1>7, <1>8, <1>9
        DEF Next, vars, Retitle, SetProp

\* As long as captures go on after a hidden surface has closed, with a frame before
\* the bind window of its closing cover ends, each frame of a client that may not see
\* it has a cover on its running fade-out; for any addresses that are taken again.
THEOREM FadesCoveredCorrect == Spec => FadesCovered
<1>1. ASSUME Types, StartInv, FadeInv, NEW c \in Clients, NEW s \in Surfaces,
             Running(s), Owed(c, s), ~Sees(c, fade[s].rules)
      PROVE  s \in Drawn(c)
  <2>1. /\ AfterPainting(c)[s].up
        /\ AfterPainting(c)[s].hold # 0
        /\ AfterPainting(c)[s].rules = fade[s].rules
      BY <1>1, FrameFollows DEF Searching
  <2> QED BY <1>1, <2>1 DEF Drawn
<1>2. Types /\ StartInv /\ FadeInv =>
        [\A c \in Clients, s \in Surfaces :
           Frame(c) /\ Running(s) /\ Owed(c, s) /\ ~Sees(c, fade[s].rules)
             => s \in Drawn(c)]_vars
    BY <1>1
<1>3. Types /\ StartInv /\ FadeInv /\ [Next]_vars => FadeInv'
    BY FadeInvNext
<1> QED BY <1>2, <1>3, TypesInit, TypesNext, StartInvInit, StartInvNext, FadeInvInit, PTL
        DEF FadesCovered, Spec
=============================================================================
