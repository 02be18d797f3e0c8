----------------------------- MODULE VideoSource -----------------------------
(***************************************************************************)
(* A video source (src/media/video/mod.rs): a decode thread that publishes *)
(* frames into a slot, and the owner (a loader, then the registry) that    *)
(* polls the slot and finally drops the source.  They share a mutex and a  *)
(* condition variable; every critical section is one action, and a wait is *)
(* split in two (the release of the lock, the wake-up).                    *)
(*                                                                         *)
(* The clock.  Time passes in ticks.  `lag' is now - due of the frame the  *)
(* thread handled last, so it is negative while the frame is early, grows  *)
(* with every tick, and shrinks by Step with every frame decoded; NoOrigin *)
(* when the clock has no reference point.  `idle' is the time since the    *)
(* owner last polled.  A tick may pass while the thread has something to   *)
(* do only within DecodeTime per frame, or at the expense of `slack', the  *)
(* ticks by which the machine may still fall behind.                       *)
(***************************************************************************)
EXTENDS Integers

CONSTANTS
    Frames,         \* frames of the file
    Step,           \* ticks between the pts of two frames
    DropLate,       \* a frame later than this is dropped
    IdleAfter,      \* unwatched for so long, the thread sleeps
    DecodeTime,     \* ticks the decoder needs for a frame
    MaxSlack,       \* bound on the ticks lost to a busy machine
    MaxLag          \* bound on lag: more is not told apart

ASSUME VideoAssumption ==
    /\ Frames \in Nat \ {0}
    /\ Step \in Nat \ {0}
    /\ DropLate \in Nat
    /\ IdleAfter \in Nat \ {0}
    /\ DecodeTime \in Nat /\ DecodeTime < Step
    /\ MaxSlack \in Nat
    /\ MaxLag \in Nat /\ MaxLag > DropLate

NoOrigin == MaxLag + 1

VARIABLES
    pc,         \* where the decode thread is
    looped,     \* the cover loops
    pos,        \* frames of this pass already decoded
    lag,        \* now - due of the last frame, or NoOrigin
    slept,      \* the thread has slept since it last decoded (local `slept')
    spent,      \* ticks gone into decoding the current frame
    slack,      \* ticks the machine may still lose
    idle,       \* time since `watched', IdleAfter when that is long or never
    published,  \* generation > 0
    unseen,     \* generation - sent, 2 standing for more
    latest,     \* the slot holds a frame
    error,      \* Shared::error is set
    ended,      \* Shared::ended
    quit,       \* Shared::quit
    owner,      \* the thread of the owner: polling, or inside drop
    reported,   \* a poll has returned the error
    lone        \* frames published since the owner went away, 2 for more

thread == <<pc, pos, lag, slept, spent>>
shared == <<idle, published, unseen, latest, error, ended, quit>>
vars == <<pc, looped, pos, lag, slept, spent, slack, idle, published,
          unseen, latest, error, ended, quit, owner, reported, lone>>

\* Threads blocked on the condition variable, and where they go when notified.
Waiting == {"asleep", "early", "parked"}
Woken(l) == CASE l = "asleep" -> "check"
              [] l = "early"  -> "due"
              [] l = "parked" -> "over"
              [] OTHER        -> l

Watched == idle < IdleAfter

Init ==
    /\ pc = "check"
    /\ looped \in BOOLEAN
    /\ pos = 0
    /\ lag = NoOrigin
    /\ slept = FALSE
    /\ spent = 0
    /\ slack = MaxSlack
    /\ idle = IdleAfter
    /\ published = FALSE
    /\ unseen = 0
    /\ latest = FALSE
    /\ error = FALSE
    /\ ended = FALSE
    /\ quit = FALSE
    /\ owner = "live"
    /\ reported = FALSE
    /\ lone = 0

-----------------------------------------------------------------------------
(* The decode thread: run() *)

\* Variant: woken from the wait, the thread does not look again.
CheckOnce ==
    /\ pc = "check"
    /\ UNCHANGED <<looped, pos, spent, slack, shared, owner, reported, lone>>
    /\ \/ /\ ~quit /\ ~Watched /\ ~slept
          /\ pc' = "asleep"
          /\ slept' = TRUE
          /\ UNCHANGED lag
       \/ /\ quit
          /\ pc' = "gone"
          /\ UNCHANGED <<lag, slept>>
       \/ /\ ~quit /\ (Watched \/ slept)
          /\ pc' = "decode"
          /\ lag' = IF slept THEN NoOrigin ELSE lag
          /\ slept' = FALSE

\* The loop top: sleep while nobody is watching; after a sleep the clock
\* restarts from the next frame.
Check ==
    /\ pc = "check"
    /\ UNCHANGED <<looped, pos, spent, slack, shared, owner, reported, lone>>
    /\ \/ /\ ~quit /\ ~Watched
          /\ pc' = "asleep"
          /\ slept' = TRUE
          /\ UNCHANGED lag
       \/ /\ quit
          /\ pc' = "gone"
          /\ UNCHANGED <<lag, slept>>
       \/ /\ ~quit /\ Watched
          /\ pc' = "decode"
          /\ lag' = IF slept THEN NoOrigin ELSE lag
          /\ slept' = FALSE

\* The wait for a viewer times out after IDLE_AFTER.
SleepTimeout ==
    /\ pc = "asleep"
    /\ pc' = "check"
    /\ UNCHANGED <<looped, pos, lag, slept, spent, slack, shared, owner,
                   reported, lone>>

\* How late the frame is that next_frame returned.
NewLag == IF lag = NoOrigin THEN 0 ELSE lag - Step

\* next_frame returns a frame: wait for it, drop it, or publish it.
DecodeFrame ==
    /\ pc = "decode"
    /\ looped \/ pos < Frames
    /\ pos' = IF pos < Frames THEN pos + 1 ELSE 1
    /\ lag' = NewLag
    /\ pc' = IF NewLag < 0 THEN "due"
             ELSE IF NewLag > DropLate THEN "check" ELSE "publish"
    /\ spent' = 0
    /\ UNCHANGED <<looped, slept, slack, shared, owner, reported, lone>>

\* next_frame says End: the last frame stays on screen.
DecodeEnd ==
    /\ pc = "decode"
    /\ ~looped /\ pos = Frames
    /\ ended' = TRUE
    /\ pc' = "over"
    /\ UNCHANGED <<looped, pos, lag, slept, spent, slack, idle, published,
                   unseen, latest, error, quit, owner, reported, lone>>

\* next_frame fails or panics: the thread leaves its error behind.
DecodeError ==
    /\ pc = "decode"
    /\ error' = TRUE
    /\ pc' = "gone"
    /\ UNCHANGED <<looped, pos, lag, slept, spent, slack, idle, published,
                   unseen, latest, ended, quit, owner, reported, lone>>

\* Ended: wait for quit.
Over ==
    /\ pc = "over"
    /\ pc' = IF quit THEN "gone" ELSE "parked"
    /\ UNCHANGED <<looped, pos, lag, slept, spent, slack, shared, owner,
                   reported, lone>>

\* Variant: a wake-up is taken for the display time.
DueEarly ==
    /\ pc = "due"
    /\ pc' = IF quit THEN "gone" ELSE "publish"
    /\ UNCHANGED <<looped, pos, lag, slept, spent, slack, shared, owner,
                   reported, lone>>

\* The wait until display time.
Due ==
    /\ pc = "due"
    /\ pc' = IF quit THEN "gone" ELSE IF lag >= 0 THEN "publish" ELSE "early"
    /\ UNCHANGED <<looped, pos, lag, slept, spent, slack, shared, owner,
                   reported, lone>>

DueTimeout ==
    /\ pc = "early" /\ lag >= 0
    /\ pc' = "due"
    /\ UNCHANGED <<looped, pos, lag, slept, spent, slack, shared, owner,
                   reported, lone>>

UpTo2(n) == IF n > 2 THEN 2 ELSE n

Publish ==
    /\ pc = "publish"
    /\ pc' = "check"
    /\ published' = TRUE
    /\ unseen' = UpTo2(unseen + 1)
    /\ latest' = TRUE
    /\ lone' = IF Watched THEN lone ELSE UpTo2(lone + 1)
    /\ UNCHANGED <<looped, pos, lag, slept, spent, slack, idle, error,
                   ended, quit, owner, reported>>

-----------------------------------------------------------------------------
(* The owner *)

\* Variant: polls without waking the thread.
PollQuietly ==
    /\ owner = "live"
    /\ idle' = 0
    /\ lone' = 0
    /\ unseen' = 0
    /\ latest' = FALSE
    /\ IF error /\ ~published THEN reported' = TRUE /\ owner' = "failed"
                              ELSE UNCHANGED <<owner, reported>>
    /\ UNCHANGED <<thread, looped, slack, published, error, ended, quit>>

\* Variant: takes the frame without noting its generation.
PollForgets ==
    /\ owner = "live"
    /\ idle' = 0
    /\ lone' = 0
    /\ pc' = Woken(pc)
    /\ latest' = FALSE
    /\ IF error /\ ~published THEN reported' = TRUE /\ owner' = "failed"
                              ELSE UNCHANGED <<owner, reported>>
    /\ UNCHANGED <<looped, pos, lag, slept, spent, slack, published,
                   unseen, error, ended, quit>>

\* poll: says that somebody watches, wakes the thread, takes the latest frame.
\* An error is returned while there has been no frame; the owner then drops the
\* source.
Poll ==
    /\ owner = "live"
    /\ idle' = 0
    /\ lone' = 0
    /\ pc' = Woken(pc)
    /\ \/ /\ error /\ ~published
          /\ reported' = TRUE
          /\ owner' = "failed"
          /\ UNCHANGED <<unseen, latest>>
       \/ /\ ~(error /\ ~published)
          /\ unseen' = 0
          /\ latest' = FALSE
          /\ UNCHANGED <<owner, reported>>
    /\ UNCHANGED <<looped, pos, lag, slept, spent, slack, published,
                   error, ended, quit>>

\* drop, in three steps: quit is set under the lock, the thread is notified
\* after its release, then joined.
DropQuit ==
    /\ owner \in {"live", "failed"}
    /\ owner' = "quitting"
    /\ quit' = TRUE
    /\ UNCHANGED <<thread, looped, slack, idle, published, unseen, latest, error,
                   ended, reported, lone>>

\* Variant: nobody is notified.
DropQuietly ==
    /\ owner = "quitting"
    /\ owner' = "joining"
    /\ UNCHANGED <<thread, looped, slack, shared, reported, lone>>

DropNotify ==
    /\ owner = "quitting"
    /\ owner' = "joining"
    /\ pc' = Woken(pc)
    /\ UNCHANGED <<looped, pos, lag, slept, spent, slack, shared,
                   reported, lone>>

DropJoin ==
    /\ owner = "joining"
    /\ pc = "gone"
    /\ owner' = "joined"
    /\ UNCHANGED <<thread, looped, slack, shared, reported, lone>>

-----------------------------------------------------------------------------
(* Time *)

Blocked == \/ pc \in {"asleep", "parked", "gone"}
           \/ pc = "early" /\ lag < 0

Decoding == pc = "decode" /\ spent < DecodeTime

Tick ==
    /\ owner # "joined"
    /\ \/ Blocked /\ UNCHANGED <<spent, slack>>
       \/ Decoding /\ spent' = spent + 1 /\ UNCHANGED slack
       \/ /\ ~Blocked /\ ~Decoding /\ slack > 0
          /\ slack' = slack - 1
          /\ UNCHANGED spent
    /\ idle' = IF Watched THEN idle + 1 ELSE idle
    /\ lag' = IF lag < MaxLag THEN lag + 1 ELSE lag
    /\ UNCHANGED <<pc, looped, pos, slept, published, unseen, latest,
                   error, ended, quit, owner, reported, lone>>

Stopped == owner = "joined" /\ UNCHANGED vars

-----------------------------------------------------------------------------

RunNext ==
    \/ Check
    \/ SleepTimeout
    \/ DecodeFrame
    \/ DecodeEnd
    \/ DecodeError
    \/ Over
    \/ Due
    \/ DueTimeout
    \/ Publish

Next ==
    \/ RunNext
    \/ Poll
    \/ DropQuit
    \/ DropNotify
    \/ DropJoin
    \/ Tick
    \/ Stopped

Spec == Init /\ [][Next]_vars

\* The thread runs when it can, except that nothing relies on the timeout of
\* its sleep; drop runs to its end; the registry polls every capture frame.
\* The clock moves.  What the decoder returns is up to the file.
LiveSpec ==
    /\ Spec
    /\ WF_vars(Check)
    /\ WF_vars(DecodeFrame \/ DecodeEnd \/ DecodeError)
    /\ WF_vars(Over)
    /\ WF_vars(Due)
    /\ WF_vars(DueTimeout)
    /\ WF_vars(Publish)
    /\ WF_vars(DropNotify)
    /\ WF_vars(DropJoin)
    /\ WF_vars(owner = "failed" /\ DropQuit)
    /\ WF_vars(Poll)
    /\ SF_vars(owner = "live" /\ Tick)

-----------------------------------------------------------------------------
(* Properties *)

\* Every variable keeps its shape; in particular the thread is never more than
\* one frame ahead of its clock.
TypeOK ==
    /\ pc \in Waiting \cup {"check", "decode", "due", "publish", "over", "gone"}
    /\ looped \in BOOLEAN
    /\ pos \in 0..Frames
    /\ lag \in (-Step)..NoOrigin
    /\ slept \in BOOLEAN
    /\ spent \in 0..DecodeTime
    /\ slack \in 0..MaxSlack
    /\ idle \in 0..IdleAfter
    /\ published \in BOOLEAN
    /\ unseen \in 0..2
    /\ latest \in BOOLEAN
    /\ error \in BOOLEAN
    /\ ended \in BOOLEAN
    /\ quit \in BOOLEAN
    /\ owner \in {"live", "failed", "quitting", "joining", "joined"}
    /\ reported \in BOOLEAN
    /\ lone \in 0..2

\* The slot and the generation counters agree: there is a frame to take exactly
\* when the owner has not seen the newest generation.  A poll never gives the
\* same frame twice, nor an empty slot for a new generation.
Handoff == latest <=> unseen > 0

\* mod.rs: the thread sleeps while nobody requests frames.  Once the owner has
\* been away for IDLE_AFTER at most the frame then in hand is published.
NoLoneDecoding == lone <= 1

\* The drop of a source ends its thread without the clock having to move: in
\* whatever wait it finds the thread, quit gets it out.
DropEnds == owner = "quitting" ~> owner = "joined"

\* As long as the source is polled, frames keep coming: no wake-up is lost, and a
\* thread that has fallen behind catches up by dropping frames.
FramesKeepComing ==
    <>[](owner = "live" /\ ~error /\ ~ended) => []<>(unseen > 0)

\* mod.rs, of Shared::error: "Fatal thread error (shown to the user)."
ErrorShown == error /\ owner = "live" ~> reported \/ owner # "live"

=============================================================================
