------------------------------- MODULE Capture -------------------------------
(***************************************************************************)
(* What a capture of one monitor shows (src/shim/capture.cpp, paint.cpp,   *)
(* closing.cpp): which surfaces are covered in a frame for a client, the   *)
(* covers that outlive what they cover, and the pump that keeps frames     *)
(* coming.  Everything runs on the compositor's main thread, so a frame, a *)
(* close event and a tick of the pump are one action each.                 *)
(*                                                                         *)
(* A surface is an address; a new window or layer may get one that was in  *)
(* use before, while what outlives the one that had it is still there.     *)
(* Surfaces lie apart, so the nearest fade-out of findFadeFor is the       *)
(* surface's own, and none hides another.                                  *)
(*                                                                         *)
(* Time passes in ticks.  Fade-outs end on their own (EndFade) and vanish  *)
(* later (DropFade), as the weak pointers to them show.                    *)
(***************************************************************************)
EXTENDS Integers

CONSTANTS
    Surfaces,   \* addresses of windows and layers
    Clients,    \* capture clients
    Rules,      \* per surface: what its rule says, [hold, show]
    CloseHold,  \* the option close_hold, in ticks
    ShowTo,     \* the clients let through by the global lists
    Titled,     \* surfaces whose rule matches a title that changes
    Propped,    \* surfaces whose no_screen_share the user sets by hand
    Movable,    \* surfaces that leave the screen without closing, and come back
    Reused,     \* addresses taken again while what outlives a close is there
    Kinds,      \* kinds of surfaces there are: "window", "layer"
    Bind,       \* FADE_BIND_WINDOW
    Share,      \* how long after a frame its session counts as sharing
    Stale,      \* STALE_COVER
    Animated    \* nsc_animating()

RuleValues == [hold : Nat, show : SUBSET Clients]

ASSUME CaptureAssumption ==
    /\ Rules \in [Surfaces -> RuleValues]
    /\ CloseHold \in Nat
    /\ ShowTo \subseteq Clients
    /\ Titled \subseteq Surfaces
    /\ Propped \subseteq Surfaces
    /\ Movable \subseteq Surfaces
    /\ Reused \subseteq Surfaces
    /\ Kinds \in (SUBSET {"window", "layer"}) \ {{}}
    /\ Bind \in Nat \ {0} /\ Share \in Nat \ {0} /\ Stale \in Nat \ {0}
    /\ Animated \in BOOLEAN

VARIABLES
    kind,       \* what has, or had last, the address: a window or a layer
    life,       \* surface: on screen, mapped but not visible, not mapped
    rule,       \* its rule matches
    slot,       \* the override of no_screen_share at PRIORITY_SET_PROP
    fade,       \* its fade-out
    last,       \* g_lastCovers
    closing,    \* g_closing, by surface
    boxes,      \* g_animBoxes is not empty
    armed,      \* the pump's timer is armed
    pending,    \* clients with a frame waiting for the next commit
    dirty,      \* clients not served since the monitor was last damaged
    quiet,      \* ticks since the last frame, up to Share
    recent,     \* history: hold left since a frame covered the hidden surface
    stayed,     \* history: see HeldAfterUnhiding
    left        \* history: closing covers drawn in the last frame

vars == <<kind, life, rule, slot, fade, last, closing, boxes, armed, pending, dirty,
          quiet, recent, stayed, left>>

----------------------------------------------------------------------------
\* Values

Plain == [hold |-> CloseHold, show |-> ShowTo]

\* ruleValuesFor, with what it leaves out filled in by the options
RulesOf(s) == IF rule[s] THEN Rules[s] ELSE Plain
\* SCaptureClient::sees
Sees(c, rules) == c \in rules.show
LetIn(c, s) == Sees(c, Rules[s]) \/ Sees(c, Plain)
\* noScreenShare().valueOrDefault(), under the overrides `over'
Hidden(over, s) == over[s] = "on" \/ (over[s] = "none" /\ rule[s])

Shown(s) == life[s] = "shown"
IsLayer(s) == kind[s] = "layer"
Mapped(s) == life[s] # "unmapped"

NoLast == [in |-> FALSE, layer |-> FALSE, age |-> 0, rules |-> Plain, gone |-> FALSE]
Searching == -1
NoCover == [up |-> FALSE, rules |-> Plain, bind |-> 0, bound |-> FALSE, hold |-> 0]

\* owed: history, see Close
NoFade == [is |-> "none", owed |-> "no", rules |-> Plain]
Running(s) == fade[s].is = "running"

\* Ages beyond every threshold are not told apart.
Thresholds == {Stale, CloseHold} \union {Rules[s].hold : s \in Surfaces}
Oldest == CHOOSE n \in Thresholds : \A m \in Thresholds : n >= m
\* The longest: surfaces are finitely many.
ASSUME ThresholdsAssumption == \E n \in Thresholds : \A m \in Thresholds : n >= m
Older(n) == IF n < Oldest THEN n + 1 ELSE n
Fewer(n) == IF n > 0 THEN n - 1 ELSE 0

\* beingCaptured: a session sent a frame lately or a frame is waiting
CapturedWith(waiting, silence) == waiting # {} \/ silence < Share
Captured == CapturedWith(pending, quiet)

NewCover(rules, bound) == [up |-> TRUE, rules |-> rules, bind |-> Bind,
                           bound |-> bound, hold |-> Searching]
Covers == {s \in Surfaces : closing[s].up}

Init ==
    /\ kind \in [Surfaces -> Kinds]
    /\ life = [s \in Surfaces |-> "unmapped"]
    /\ rule = [s \in Surfaces |-> TRUE]
    /\ slot = [s \in Surfaces |-> "none"]
    /\ fade = [s \in Surfaces |-> NoFade]
    /\ last = [s \in Surfaces |-> NoLast]
    /\ closing = [s \in Surfaces |-> NoCover]
    /\ boxes = FALSE
    /\ armed = FALSE
    /\ pending = {}
    /\ dirty = Clients
    /\ quiet = Share
    /\ recent = [s \in Surfaces |-> 0]
    /\ stayed = {}
    /\ left = {}

----------------------------------------------------------------------------
\* The desktop.  Whatever changes the picture damages the monitor.

\* A window or layer appears; on a reused address perhaps while the fade-out and the
\* closing cover of the one that had it before are up.
Open(s, k) ==
    /\ life[s] = "unmapped"
    /\ s \in Reused \/ (fade[s] = NoFade /\ ~closing[s].up)
    /\ kind' = [kind EXCEPT ![s] = k]
    /\ life' = [life EXCEPT ![s] = "shown"]
    /\ dirty' = Clients
    /\ UNCHANGED <<rule, slot, fade, last, closing, boxes, armed, pending, quiet,
                   recent, stayed, left>>

\* A workspace switch, a layer that becomes invisible, and back.  Bound, here and in
\* Close, which the code does not have: one closing cover and one fade-out per address
\* (g_closing is a list, and may hold another for the new surface's own close).
Move(s) ==
    /\ s \in Movable /\ Mapped(s)
    /\ ~closing[s].up
    /\ life' = [life EXCEPT ![s] = IF Shown(s) THEN "away" ELSE "shown"]
    /\ dirty' = Clients
    /\ UNCHANGED <<kind, rule, slot, fade, last, closing, boxes, armed, pending, quiet,
                   recent, stayed, left>>

\* A rule starts or stops matching, e.g. with the title.
Retitle(s) ==
    /\ s \in Titled /\ Mapped(s)
    /\ rule' = [rule EXCEPT ![s] = ~@]
    /\ UNCHANGED <<kind, life, slot, fade, last, closing, boxes, armed, pending, dirty,
                   quiet, recent, stayed, left>>

\* The user sets or unsets the property (hyprctl setprop).
SetProp(s, v) ==
    /\ s \in Propped /\ Mapped(s)
    /\ slot' = [slot EXCEPT ![s] = v]
    /\ UNCHANGED <<kind, life, rule, fade, last, closing, boxes, armed, pending, dirty,
                   quiet, recent, stayed, left>>

\* onWindowClose / onLayerClose, then startClosing: while a capture is on, a
\* hidden surface gets its closing cover before its fade-out exists.  `fades'
\* is whether Hyprland animates the close.  owed: "live" while the closing cover
\* is due and captures have gone on without a break since it was, with a frame before
\* its bind window ends; "lost" after a pause; "waiting" if the next frame has to
\* notice the close; "no" otherwise, and once that frame has found a new surface at
\* the address instead.
StartsClosing(s) == Hidden(slot, s) /\ Captured

\* Variant: the entry stays, and the next frame finds the surface gone.
StillKept(s) == [last EXCEPT ![s].gone = @ \/ last[s].in]

\* startClosing erases the entry: "don't start it a second time from the next frame".
Forgotten(s) == [last EXCEPT ![s] = NoLast]

Close(s, fades) ==
    /\ Mapped(s)
    /\ fades => Shown(s)
    /\ fade[s] = NoFade /\ ~closing[s].up
    /\ life' = [life EXCEPT ![s] = "unmapped"]
    /\ slot' = [slot EXCEPT ![s] = "none"]
    /\ fade' = [fade EXCEPT ![s] =
                  IF ~fades THEN NoFade
                  ELSE [is    |-> "running",
                        owed  |-> CASE StartsClosing(s)                 -> "live"
                                    [] Hidden(slot, s) /\ ~Captured /\ last[s].in
                                       /\ ~last[s].gone /\ last[s].rules = RulesOf(s)    -> "waiting"
                                    [] OTHER                            -> "no",
                        rules |-> RulesOf(s)]]
    /\ IF StartsClosing(s)
         THEN /\ last' = Forgotten(s)
              /\ closing' = [closing EXCEPT ![s] = NewCover(RulesOf(s), FALSE)]
              /\ armed' = TRUE
         ELSE /\ last' = [last EXCEPT ![s].gone = @ \/ last[s].in]
              /\ UNCHANGED <<closing, armed>>
    /\ dirty' = Clients
    /\ recent' = [recent EXCEPT ![s] = 0]
    /\ stayed' = stayed \ {s}
    /\ UNCHANGED <<kind, rule, boxes, pending, quiet, left>>

\* The close animation ends: IFadeout::done()
EndFade(s) ==
    /\ Running(s)
    /\ fade' = [fade EXCEPT ![s].is = "done"]
    /\ dirty' = Clients
    /\ UNCHANGED <<kind, life, rule, slot, last, closing, boxes, armed, pending, quiet,
                   recent, stayed, left>>

\* Hyprland frees it, weak pointers to it expire.
DropFade(s) ==
    /\ fade[s].is = "done"
    /\ fade' = [fade EXCEPT ![s] = NoFade]
    /\ UNCHANGED <<kind, life, rule, slot, last, closing, boxes, armed, pending, dirty,
                   quiet, recent, stayed, left>>

----------------------------------------------------------------------------
\* Capture clients

\* Running fade-outs lose their covers once nothing is captured any more, or when
\* they have not been found by the end of the bind window (missed).
Unowed(waiting, silence, missed, as) ==
    [s \in Surfaces |->
        IF fade[s].owed = "live" /\ (s \in missed \/ ~CapturedWith(waiting, silence))
          THEN [fade[s] EXCEPT !.owed = as] ELSE fade[s]]

\* A client asks for a frame: of the picture as it is, or after the next damage.
Request(c, now) ==
    /\ c \notin pending
    /\ pending' = pending \union {c}
    /\ dirty' = IF now THEN dirty \union {c} ELSE dirty
    /\ UNCHANGED <<kind, life, rule, slot, fade, last, closing, boxes, armed, quiet,
                   recent, stayed, left>>

\* A client goes away without its frame.
Leave(c) ==
    /\ c \in pending
    /\ pending' = pending \ {c}
    /\ fade' = Unowed(pending', quiet, {}, "no")
    /\ UNCHANGED <<kind, life, rule, slot, last, closing, boxes, armed, dirty, quiet,
                   recent, stayed, left>>

----------------------------------------------------------------------------
\* A frame for client c: renderMonitorWithCovers

Override(over, S, v) == [s \in Surfaces |-> IF s \in S THEN v ELSE over[s]]
\* restoreNoScreenShare: the slots of S as they were in `prev'
Restore(over, S, prev) == [s \in Surfaces |-> IF s \in S THEN prev[s] ELSE over[s]]

\* revealFor.  Here and in suppressNoScreenShare, Mapped(s) stands for the surfaces in
\* Hyprland's lists, of which the code asks no more (external).
Revealed(c) == {s \in Surfaces : Mapped(s) /\ Hidden(slot, s) /\ Sees(c, RulesOf(s))}
\* Variant: what the user set is left alone.
RevealUnset(c) == Override(slot, {s \in Revealed(c) : slot[s] = "none"}, "off")
SlotRevealed(c) == Override(slot, Revealed(c), "off")

\* holdUnhidden
Holdable(s) == IF IsLayer(s) THEN Shown(s) ELSE Mapped(s)
Held(c) == {s \in Surfaces :
              /\ Holdable(s)
              /\ ~Hidden(SlotRevealed(c), s)
              /\ s \notin Revealed(c)
              /\ last[s].in
              /\ last[s].age < last[s].rules.hold
              /\ ~Sees(c, last[s].rules)}
SlotHeld(c) == Override(SlotRevealed(c), Held(c), "on")

\* suppressNoScreenShare, Hyprland's own renderMonitor, unsuppress
Suppressed(c) == {s \in Surfaces : Mapped(s) /\ Hidden(SlotHeld(c), s)}
SlotSuppressed(c) == Override(SlotHeld(c), Suppressed(c), "off")
\* Variant: the covers are painted while the flags are still off.
PaintSuppressed(c) == SlotSuppressed(c)
SlotPainted(c) == Restore(SlotSuppressed(c), Suppressed(c), SlotHeld(c))

\* paintCovers: the surfaces it covers, and what it notes down
Covered(c) == {s \in Surfaces : Shown(s) /\ Hidden(SlotPainted(c), s)}
\* Variant: a held cover is noted like any other.
NotedAll(c) == [s \in Surfaces |->
                  IF s \in Covered(c)
                    THEN [in |-> TRUE, layer |-> IsLayer(s), age |-> 0,
                          rules |-> RulesOf(s), gone |-> FALSE]
                    ELSE last[s]]
Noted(c) == [s \in Surfaces |->
               IF s \in Covered(c) \ Held(c)
                 THEN [in |-> TRUE, layer |-> IsLayer(s), age |-> 0,
                       rules |-> RulesOf(s), gone |-> FALSE]
                 ELSE last[s]]
\* Variant: surfaces shown as they are count as not seen.
SeenCovered(c) == Covered(c)
Seen(c) == Covered(c) \union Revealed(c)

\* the scope guard of renderMonitorWithCovers
\* Variant: the slots are unset, not put back.
UnsetAfter(c) == Override(SlotPainted(c), Held(c) \union Revealed(c), "none")
SlotAfter(c) == Restore(Restore(SlotPainted(c), Held(c), SlotRevealed(c)),
                        Revealed(c), slot)

\* trackClosed
Gone(c, s) == Noted(c)[s].gone \/ (Noted(c)[s].layer /\ ~Shown(s))
Fresh(c, s) == Noted(c)[s].age < Stale
\* Variant: an old entry never starts a closing cover.
TrackedFresh(c) == {s \in Surfaces : Noted(c)[s].in /\ s \notin Seen(c)
                                       /\ Gone(c, s) /\ Fresh(c, s)}
Tracked(c) == {s \in Surfaces : Noted(c)[s].in /\ s \notin Seen(c) /\ Gone(c, s)
                                  /\ (Fresh(c, s) \/ Running(s))}
AfterTracking(c) == [s \in Surfaces |->
    IF s \in Tracked(c) THEN NewCover(Noted(c)[s].rules, ~Fresh(c, s))
    ELSE closing[s]]
Remembered(c) == [s \in Surfaces |-> IF s \in Seen(c) THEN Noted(c)[s] ELSE NoLast]

\* paintClosing: what becomes of a closing cover `e' of s
\* Variant: without a fade-out the search never ends.
FollowOnly(s, e) ==
    LET fading == (e.bound /\ fade[s].is # "none") \/ (e.bind > 0 /\ Running(s))
    IN  CASE fading /\ Running(s) -> [e EXCEPT !.bound = TRUE]
          [] fading /\ ~Running(s) -> [e EXCEPT !.hold = e.rules.hold]
          [] OTHER -> [e EXCEPT !.bound = FALSE]
Follow(s, e) ==
    LET fading == (e.bound /\ fade[s].is # "none") \/ (e.bind > 0 /\ Running(s))
    IN  CASE fading /\ Running(s) -> [e EXCEPT !.bound = TRUE]
          [] fading /\ ~Running(s) -> [e EXCEPT !.hold = e.rules.hold]
          [] ~fading /\ e.bind <= 0 ->
               [e EXCEPT !.hold = IF e.bind + e.rules.hold > 0
                                    THEN e.bind + e.rules.hold ELSE 0]
          [] OTHER -> [e EXCEPT !.bound = FALSE]
AfterPainting(c) == [s \in Surfaces |->
    LET e == AfterTracking(c)[s]
    IN  IF e.up /\ e.hold = Searching THEN Follow(s, e) ELSE e]
\* ... and whether it is drawn
Drawn(c) == {s \in Surfaces : LET e == AfterPainting(c)[s]
                              IN  e.up /\ e.hold # 0 /\ ~Sees(c, e.rules)}

\* Variant: the pump is started for animations only.
NeedsPumpAnimated(c) == Animated /\ Covered(c) # {}
\* startPump at the end of paintCovers
NeedsPump(c) == (Animated /\ Covered(c) # {}) \/ \E s \in Surfaces : AfterPainting(c)[s].up

Frame(c) ==
    /\ c \in pending \intersect dirty
    /\ pending' = pending \ {c}
    /\ dirty' = dirty \ {c}
    /\ quiet' = 0
    /\ slot' = SlotAfter(c)
    /\ last' = Remembered(c)
    /\ closing' = AfterPainting(c)
    /\ boxes' = (Covered(c) # {})
    /\ armed' = (armed \/ NeedsPump(c))
    /\ recent' = [s \in Surfaces |->
                    IF s \in Covered(c) /\ Hidden(slot, s) THEN RulesOf(s).hold
                    ELSE recent[s]]
    /\ stayed' = {s \in Surfaces : Shown(s) /\
                    ((s \in stayed /\ (Hidden(slot, s) \/ ~LetIn(c, s))) \/ (s \in Covered(c) /\ Hidden(slot, s)))}
    /\ fade' = [s \in Surfaces |->
                   IF fade[s].owed = "waiting"
                     THEN [fade[s] EXCEPT !.owed = IF s \in Seen(c) THEN "no" ELSE "live"]
                     ELSE fade[s]]
    /\ left' = Drawn(c)
    /\ UNCHANGED <<kind, life, rule>>

----------------------------------------------------------------------------
\* pumpTick, and time

Kept == [s \in Surfaces |-> IF Captured /\ closing[s].hold # 0 THEN closing[s] ELSE NoCover]

\* Variant: covers are dropped first, what is left is repainted.
DropThenRepaint ==
    /\ armed
    /\ LET any == Captured /\ ((Animated /\ boxes) \/ \E s \in Surfaces : Kept[s].up)
       IN  /\ dirty' = IF any THEN Clients ELSE dirty
           /\ closing' = IF any THEN Kept ELSE [s \in Surfaces |-> NoCover]
           /\ boxes' = (boxes /\ any)
           /\ armed' = any
    /\ UNCHANGED <<kind, life, rule, slot, fade, last, pending, quiet, recent, stayed, left>>

PumpTick ==
    /\ armed
    /\ LET any == Captured /\ ((Animated /\ boxes) \/ Covers # {})
       IN  /\ dirty' = IF any THEN Clients ELSE dirty
           /\ closing' = IF any THEN Kept ELSE [s \in Surfaces |-> NoCover]
           /\ boxes' = (boxes /\ any)
           /\ armed' = any
    /\ UNCHANGED <<kind, life, rule, slot, fade, last, pending, quiet, recent, stayed, left>>

\* The clock.  A running fade-out damages the monitor.
Unbound(s) == closing[s].up /\ closing[s].hold = Searching /\ ~closing[s].bound
Missed == {s \in Surfaces : Running(s) /\ Unbound(s) /\ closing[s].bind <= 1}
Tick ==
    /\ quiet' = IF quiet < Share THEN quiet + 1 ELSE quiet
    /\ last' = [s \in Surfaces |-> IF last[s].in THEN [last[s] EXCEPT !.age = Older(@)]
                                                 ELSE last[s]]
    /\ closing' = [s \in Surfaces |->
         IF closing[s].up /\ closing[s].hold = Searching
           THEN [closing[s] EXCEPT !.bind = IF @ + Oldest > 0 THEN @ - 1 ELSE @]
           ELSE [closing[s] EXCEPT !.hold = Fewer(@)]]
    /\ recent' = [s \in Surfaces |-> Fewer(recent[s])]
    /\ stayed' = {s \in stayed : recent'[s] > 0}
    /\ fade' = Unowed(pending, quiet', Missed, "lost")
    /\ dirty' = IF \E s \in Surfaces : Running(s) THEN Clients ELSE dirty
    /\ UNCHANGED <<kind, life, rule, slot, boxes, armed, pending, left>>

Next ==
    \/ \E s \in Surfaces, k \in Kinds : Open(s, k)
    \/ \E s \in Surfaces : Move(s) \/ Retitle(s) \/ EndFade(s) \/ DropFade(s)
    \/ \E s \in Surfaces, v \in {"none", "on", "off"} : SetProp(s, v)
    \/ \E s \in Surfaces, fades \in BOOLEAN : Close(s, fades)
    \/ \E c \in Clients : Leave(c) \/ Frame(c)
    \/ \E c \in Clients, now \in BOOLEAN : Request(c, now)
    \/ PumpTick
    \/ Tick

Spec == Init /\ [][Next]_vars

----------------------------------------------------------------------------
\* Properties

TypeOK ==
    /\ kind \in [Surfaces -> Kinds]
    /\ life \in [Surfaces -> {"shown", "away", "unmapped"}]
    /\ rule \in [Surfaces -> BOOLEAN]
    /\ slot \in [Surfaces -> {"none", "on", "off"}]
    /\ \A s \in Surfaces :
         /\ fade[s].is \in {"none", "running", "done"}
         /\ fade[s].owed \in {"no", "waiting", "live", "lost"}
         /\ fade[s].rules \in {Rules[s], Plain}
         /\ last[s].in \in BOOLEAN /\ last[s].gone \in BOOLEAN /\ last[s].layer \in BOOLEAN
         /\ last[s].age \in 0 .. Oldest
         /\ last[s].rules \in {Rules[s], Plain}
         /\ closing[s].up \in BOOLEAN
         /\ closing[s].up =>
              /\ closing[s].rules \in {Rules[s], Plain}
              /\ closing[s].bind \in -Oldest .. Bind
              /\ closing[s].bound \in BOOLEAN
              /\ closing[s].hold \in {Searching} \union (0 .. Oldest)
    /\ boxes \in BOOLEAN
    /\ armed \in BOOLEAN
    /\ pending \subseteq Clients
    /\ dirty \subseteq Clients
    /\ quiet \in 0 .. Share
    /\ recent \in [Surfaces -> 0 .. Oldest]
    /\ stayed \subseteq Surfaces
    /\ left \subseteq Surfaces

\* No frame shows a hidden surface to a client its rules keep it from, whatever
\* the flags are switched to while the frame is rendered (capture.cpp: reveal,
\* hold, suppress, restore before the covers are painted).
NeverExposed ==
    [][\A c \in Clients, s \in Surfaces :
         Frame(c) /\ Shown(s) /\ Hidden(slot, s) /\ ~Sees(c, RulesOf(s))
            => s \in Covered(c)]_vars

\* ... and a client its rules let through gets no cover on it.
ShownAsAllowed ==
    [][\A c \in Clients, s \in Surfaces :
         Frame(c) /\ Hidden(slot, s) /\ Sees(c, RulesOf(s)) => s \notin Covered(c)]_vars

\* The three passes that override no_screen_share for a frame leave what the user
\* had set (shim.hpp, SSuppressed: "restored exactly right after").
FlagsRestored ==
    [][\A c \in Clients : Frame(c) => slot' = slot]_vars

\* A surface that stops being hidden while it is on screen stays covered for its
\* hold, counted from the frame it was covered in last (holdUnhidden), unless it
\* left the screen or a client its rules let through got a frame meanwhile.
HeldAfterUnhiding ==
    [][\A c \in Clients, s \in Surfaces :
         Frame(c) /\ Shown(s) /\ ~LetIn(c, s) /\ s \in stayed /\ recent[s] > 0 => s \in Covered(c)]_vars

\* ... even then: tests/e2e/closing-show-to.sh:4, "an allowed client's shot doesn't
\* cost the others the hold" (for surfaces that do not leave the screen).
HoldForOthers ==
    [][\A c \in Clients, s \in Surfaces :
         Frame(c) /\ Shown(s) /\ ~LetIn(c, s) /\ recent[s] > 0 => s \in Covered(c)]_vars

\* The hold ends: covering a held surface does not prolong it ("a held cover
\* keeps the time and rules it had", paint.cpp:506).
HoldEnds ==
    [][\A c \in Clients, s \in Surfaces :
         Frame(c) /\ s \in Covered(c) /\ ~Hidden(slot, s) /\ ~last[s].gone => recent[s] > 0]_vars

\* As long as captures go on after a hidden surface has closed, with a frame before
\* the bind window of its closing cover ends, each frame of a client that may not see
\* it has a cover on its running fade-out, whether or not a new surface has its
\* address.  A close that only the next frame notices is lost on
\* it when that frame finds the new one covered: the entry is the new one's then.
Owed(c, s) == fade[s].owed = "live" \/ (fade[s].owed = "waiting" /\ s \notin Seen(c))
FadesCovered ==
    [][\A c \in Clients, s \in Surfaces :
         Frame(c) /\ Running(s) /\ Owed(c, s) /\ ~Sees(c, fade[s].rules)
            => s \in Drawn(c)]_vars

\* A close starts one closing cover: no frame, whether or not the address has been
\* taken again by then, finds another to start for a close whose event, or an earlier
\* frame, has started it (closing.cpp:63).
StartedOnce ==
    [][\A c \in Clients, s \in Surfaces : Frame(c) /\ closing[s].up => s \notin Tracked(c)]_vars

\* ... captures that pause in between included: README.md:143, "The cover follows
\* the snapshot until the animation ends".
FadesAlwaysCovered ==
    [][\A c \in Clients, s \in Surfaces :
         Frame(c) /\ Running(s) /\ fade[s].owed # "no" /\ ~Sees(c, fade[s].rules)
            => s \in Drawn(c)]_vars

\* A closing cover is never up without the pump: nothing else would repaint the
\* monitor and drop it.
PumpArmed == Covers # {} => armed

\* Fairness: the pump's timer fires, animations end and are freed, time passes,
\* and a frame that waits is served once the monitor is damaged.
LiveSpec ==
    /\ Spec
    /\ WF_vars(PumpTick) /\ WF_vars(Tick)
    /\ \A s \in Surfaces : WF_vars(EndFade(s)) /\ WF_vars(DropFade(s))
    /\ \A c \in Clients : SF_vars(Frame(c))

\* A closing cover goes, and a client that waits for its next frame gets one
\* without it: the pump repaints once more after the cover expired.
ClosingEnds == \A s \in Surfaces : closing[s].up ~> ~closing[s].up
PictureRecovers ==
    \A s \in Surfaces :
        (s \in left /\ closing[s].up)
            ~> (s \notin left \/ ~Captured \/ (Mapped(s) /\ ~closing[s].up))
=============================================================================
