------------------------------ MODULE Registry ------------------------------
(***************************************************************************)
(* The cover registry of the core (src/registry.rs): one source per unique *)
(* playback parameters, opened on loader threads, polled once per capture  *)
(* frame, evicted when nobody shows it, reset when the settings change.    *)
(*                                                                         *)
(* Two kinds of process run here.  The compositor's thread calls the       *)
(* registry through the C ABI; every call is one action.  Each loader      *)
(* thread runs in steps of its own (open, poll for a first frame, send the *)
(* result, raise its done flag) that interleave with the calls.            *)
(*                                                                         *)
(* A cover the hash map does not hold is the record Absent.  Instants are  *)
(* kept relative to now, saturated where the code compares them: `age' is  *)
(* now - last_used up to EvictAfter, `retryIn' what is left until         *)
(* retry_at; a loader's first-frame deadline may pass at any time.         *)
(* frame_no is only compared for equality with polled_in, so `polled' says *)
(* whether the two are equal.  Frames of one cover are told apart from the *)
(* previous one only: 0 is None, a new frame flips 1 and 2.                *)
(***************************************************************************)
EXTENDS Integers, Sequences, FiniteSets

CONSTANTS
    Plays,          \* playback parameters with a file in them
    NoPlay,         \* the parameters with an empty path: nothing to play
    Fickle,         \* plays whose file comes and goes
    Faulty,         \* plays whose source may fail to open or to play
    Configs,        \* parsed settings
    NoSettings,     \* settings not received yet
    Raws,           \* configuration values as the user wrote them
    ParseOf,        \* what Settings::from_raw makes of them
    BadRaws,        \* those with a backend word nobody knows
    DefaultPlay,    \* the default cover of given settings
    Threads,        \* threads the system lets the core run at once
    NoThread,       \* a loader whose thread could not be started
    MissingRetry, EvictAfter,   \* in ticks
    QueueCap,       \* notifications kept for the shim
    MaxEpoch, MaxId \* bounds on the two counters

ASSUME RegistryAssumption ==
    /\ NoPlay \notin Plays
    /\ Fickle \subseteq Plays
    /\ Faulty \subseteq Plays
    /\ NoSettings \notin Configs
    /\ NoThread \notin Threads
    /\ ParseOf \in [Raws -> Configs]
    /\ BadRaws \subseteq Raws
    /\ DefaultPlay \in [Configs -> Plays \cup {NoPlay}]
    /\ MissingRetry \in Nat \ {0}
    /\ EvictAfter \in Nat \ {0}
    /\ QueueCap \in Nat \ {0}
    /\ MaxEpoch \in Nat
    /\ MaxId \in Nat

VARIABLES
    up,         \* the registry exists (between nsc_init and nsc_shutdown)
    settings,   \* the settings in force
    pushed,     \* the raw values the shim pushed last
    epoch,      \* bumped on every reset
    covers,     \* the hash map
    nextId,     \* the next cover id
    threads,    \* the loader threads
    retired,    \* threads of loaders parked because their cover went away
    joining,    \* on unload: the thread being joined
    inFrame,    \* between nsc_begin_frame and nsc_end_frame
    views,      \* the frame nsc_resolve handed out for a cover in this frame
    last,       \* Notifier: the last message pushed
    queue,      \* Notifier: messages the shim has not taken yet
    told,       \* messages on the user's screen since the settings changed
    exists      \* whether the file of a cover is there

notes == <<last, queue, told>>
vars == <<up, settings, pushed, epoch, covers, nextId, threads, retired,
          joining, inFrame, views, last, queue, told, exists>>

-----------------------------------------------------------------------------
(* Records *)

States  == {"absent", "opening", "ready", "missing", "failed"}
Phases  == {"free", "open", "poll", "sent", "done"}
Results == {"none", "frame", "noframe", "missing", "error"}

Cover == [id : Nat, st : States, loader : Threads \cup {NoThread},
          retry : BOOLEAN, retryIn : 0..MissingRetry, frame : 0..2,
          polled : BOOLEAN, age : 0..EvictAfter, anim : BOOLEAN,
          cfg : Configs \cup {NoSettings}]

Thread == [phase : Phases, play : Plays \cup {NoPlay},
           cfg : Configs \cup {NoSettings}, cancel : BOOLEAN,
           res : Results, anim : BOOLEAN]

Absent == [id |-> 0, st |-> "absent", loader |-> NoThread, retry |-> FALSE,
           retryIn |-> 0, frame |-> 0, polled |-> FALSE, age |-> 0,
           anim |-> FALSE, cfg |-> NoSettings]

FreeThread == [phase |-> "free", play |-> NoPlay, cfg |-> NoSettings,
               cancel |-> FALSE, res |-> "none", anim |-> FALSE]

Msgs == ({"missing", "error"} \X Plays) \cup ({"config"} \X Raws)
            \cup {<<"loader", NoPlay>>}
NoMsg     == <<"none", NoPlay>>
LoaderMsg == <<"loader", NoPlay>>
Missing(p) == <<"missing", p>>
Error(p)   == <<"error", p>>

Opening(p) == covers[p].st = "opening"
Present    == {p \in Plays : covers[p].st # "absent"}

-----------------------------------------------------------------------------
(* Notifier (notify.rs) *)

\* Variant: room is made one message too late.
BoundedLate(q, m) == IF Len(q) > QueueCap THEN Append(Tail(q), m)
                                          ELSE Append(q, m)

\* The oldest message goes when the queue is full.
Bounded(q, m) == IF Len(q) >= QueueCap THEN Append(Tail(q), m)
                                       ELSE Append(q, m)

\* Notifier::push: the same message is never repeated back to back.
Enqueue(m) == /\ last' = m
              /\ queue' = IF last = m THEN queue ELSE Bounded(queue, m)

Push(m) == Enqueue(m) /\ UNCHANGED told

Messages(q) == {q[i] : i \in DOMAIN q}

\* drainNotifications: everything queued goes to the user's screen.
Drained == /\ told' = told \cup Messages(queue)
           /\ queue' = <<>>
           /\ UNCHANGED last

-----------------------------------------------------------------------------
(* Loaders *)

\* Loader::finished: the thread is done, or it never started.
Finished(t) == t = NoThread \/ threads[t].phase = "done"

NewThread(p, s) == [FreeThread EXCEPT !.phase = "open", !.play = p, !.cfg = s]

\* Loader::spawn on the thread table tt; NoThread when pthread_create fails.
Spawn(tt, t, p, s) ==
    IF t = NoThread THEN tt ELSE [tt EXCEPT ![t] = NewThread(p, s)]

Spawnable(tt) == {t \in Threads : tt[t].phase = "free"} \cup {NoThread}

\* Variant: dropped without a join.
Detached(tt, t) == tt

\* Dropping a loader joins its thread.
Joined(tt, t) == IF t = NoThread THEN tt ELSE [tt EXCEPT ![t] = FreeThread]

\* Registry::start
FreshCover(t) == [Absent EXCEPT !.id = nextId, !.st = "opening", !.loader = t]

\* Registry::retire, for the covers of S: loaders still at work are cancelled
\* and parked, finished ones are dropped with their cover.
LoadersOf(S) == {covers[p].loader : p \in {q \in S : Opening(q)}} \ {NoThread}

\* Variant: loaders are always dropped with their cover.
ParksNone(S) == {}

ToPark(S) == {t \in LoadersOf(S) : ~Finished(t)}

\* Variant: parked loaders are not cancelled.
ParksRunning(S) ==
    [t \in Threads |->
        IF t \in LoadersOf(S) \ ToPark(S) THEN FreeThread ELSE threads[t]]

AfterRetire(S) ==
    [t \in Threads |->
        IF t \in ToPark(S) THEN [threads[t] EXCEPT !.cancel = TRUE]
        ELSE IF t \in LoadersOf(S) THEN FreeThread
        ELSE threads[t]]

-----------------------------------------------------------------------------
(* The compositor's thread *)

Init ==
    /\ up = TRUE
    /\ settings = NoSettings
    /\ pushed \in Raws \ BadRaws
    /\ epoch = 0
    /\ covers = [p \in Plays |-> Absent]
    /\ nextId = 1
    /\ threads = [t \in Threads |-> FreeThread]
    /\ retired = {}
    /\ joining = NoThread
    /\ inFrame = FALSE
    /\ views = [p \in Plays |-> 0]
    /\ last = NoMsg
    /\ queue = <<>>
    /\ told = {}
    /\ exists \in [Plays -> BOOLEAN]
    /\ \A p \in Plays \ Fickle : exists[p]

\* nsc_set_settings with values that parse to the settings in force, with or
\* without the reload listener's drain.
PushSame(r) ==
    /\ up /\ ~inFrame
    /\ ParseOf[r] = settings
    /\ pushed' = r
    /\ Drained \/ UNCHANGED notes
    /\ UNCHANGED <<up, settings, epoch, covers, nextId, threads, retired,
                   joining, inFrame, views, exists>>

\* The hash map after a reset: empty, then the default cover def opened on t.
\* Variant: covers still opening survive the reset.
ResetKeepsOpening(def, t) ==
    [p \in Plays |-> IF p = def THEN FreshCover(t)
                     ELSE IF Opening(p) THEN covers[p] ELSE Absent]

ResetTo(def, t) ==
    [p \in Plays |-> IF p = def THEN FreshCover(t) ELSE Absent]

\* The notifier on a reset: forget the last message, push a config error.  The
\* config.reloaded listener then drains the queue (d); prewarm and paintCovers
\* push settings too, and leave the queue alone.
\* Variant: the last message is not forgotten.
NotesKept(r, d) ==
    LET q == IF r \in BadRaws THEN Bounded(queue, <<"config", r>>) ELSE queue
    IN  /\ last' = IF r \in BadRaws THEN <<"config", r>> ELSE last
        /\ told' = IF d THEN Messages(q) ELSE {}
        /\ queue' = IF d THEN <<>> ELSE q

NotesReset(r, d) ==
    LET q == IF r \in BadRaws THEN Bounded(queue, <<"config", r>>) ELSE queue
    IN  /\ last' = IF r \in BadRaws THEN <<"config", r>> ELSE NoMsg
        /\ told' = IF d THEN Messages(q) ELSE {}
        /\ queue' = IF d THEN <<>> ELSE q

\* Registry::set_settings with new settings: every cover is retired, the epoch
\* bumped, the notifier reset, and the new default cover opened (prewarm).
PushNew(r) ==
    LET new == ParseOf[r]
        def == DefaultPlay[new]
        tt  == AfterRetire(Plays)
    IN  /\ up /\ ~inFrame
        /\ new # settings
        /\ epoch < MaxEpoch
        /\ pushed' = r
        /\ settings' = new
        /\ epoch' = epoch + 1
        /\ retired' = retired \cup ToPark(Plays)
        /\ \/ /\ def = NoPlay
              /\ covers' = ResetTo(NoPlay, NoThread)
              /\ threads' = tt
              /\ UNCHANGED nextId
           \/ /\ def # NoPlay
              /\ nextId <= MaxId
              /\ \E t \in Spawnable(tt) :
                    /\ covers' = ResetTo(def, t)
                    /\ threads' = Spawn(tt, t, def, new)
              /\ nextId' = nextId + 1
        /\ \E d \in BOOLEAN : NotesReset(r, d)
        /\ UNCHANGED <<up, joining, inFrame, views, exists>>

\* Registry::warm (nsc_prewarm): a window just got a rule with this cover.
Warm(p) ==
    /\ up /\ ~inFrame
    /\ settings # NoSettings
    /\ covers[p].st = "absent"
    /\ nextId <= MaxId
    /\ \E t \in Spawnable(threads) :
          /\ covers' = [covers EXCEPT ![p] = FreshCover(t)]
          /\ threads' = Spawn(threads, t, p, settings)
    /\ nextId' = nextId + 1
    /\ UNCHANGED <<up, settings, pushed, epoch, retired, joining, inFrame,
                   views, notes, exists>>

\* Registry::begin_frame: parked loaders that have finished are reaped.
BeginFrame ==
    LET reaped == {t \in retired : Finished(t)}
    IN  /\ up /\ ~inFrame
        /\ settings # NoSettings
        /\ inFrame' = TRUE
        /\ retired' = retired \ reaped
        /\ threads' = [t \in Threads |->
                          IF t \in reaped THEN FreeThread ELSE threads[t]]
        /\ covers' = [p \in Plays |-> [covers[p] EXCEPT !.polled = FALSE]]
        /\ views' = [p \in Plays |-> 0]
        /\ UNCHANGED <<up, settings, pushed, epoch, nextId, joining, notes,
                       exists>>

-----------------------------------------------------------------------------
(* Registry::resolve: one call, by what it finds.  Each case leaves the cover *)
(* c in the map, with last_used = now, and hands out the cover's frame.       *)

Stores(p, c) ==
    /\ covers' = [covers EXCEPT ![p] = [c EXCEPT !.age = 0]]
    /\ views' = [views EXCEPT ![p] = c.frame]
    /\ UNCHANGED <<up, settings, pushed, epoch, retired, joining, inFrame,
                   exists>>

FailedCover(c) == [c EXCEPT !.st = "failed", !.loader = NoThread, !.frame = 0]

\* The cover is given a loader on thread t.  Without a thread the result
\* channel is closed, which the same call finds out.
OpenOn(p, c, t) ==
    /\ t \in Spawnable(threads)
    /\ threads' = Spawn(threads, t, p, settings)
    /\ IF t = NoThread THEN /\ Stores(p, FailedCover(c))
                            /\ Push(LoaderMsg)
                       ELSE /\ Stores(p, [c EXCEPT !.loader = t])
                            /\ UNCHANGED notes

ResolveAbsent(p) ==
    /\ covers[p].st = "absent"
    /\ nextId <= MaxId
    /\ nextId' = nextId + 1
    /\ \E t \in Threads \cup {NoThread} : OpenOn(p, FreshCover(t), t)

\* The retry time of a missing file that is not tried again now.
\* Variant: pushed back on every frame.
PushedBack(c) == MissingRetry

NextRetry(c) == IF c.retryIn = 0 THEN MissingRetry ELSE c.retryIn

ResolveMissing(p) ==
    LET c == covers[p]
    IN  /\ c.st = "missing"
        /\ UNCHANGED nextId
        /\ \/ /\ c.retryIn = 0 /\ exists[p]
              /\ \E t \in Threads \cup {NoThread} :
                    OpenOn(p, [c EXCEPT !.st = "opening", !.retry = TRUE], t)
           \/ /\ ~(c.retryIn = 0 /\ exists[p])
              /\ Stores(p, [c EXCEPT !.retryIn = NextRetry(c)])
              /\ UNCHANGED <<threads, notes>>

\* Variant: polled for every window that shows the cover.
PollAlways(p, c) ==
    \/ /\ Stores(p, c)
       /\ UNCHANGED notes
    \/ /\ c.anim
       /\ Stores(p, [c EXCEPT !.frame = IF @ = 1 THEN 2 ELSE 1])
       /\ UNCHANGED notes

\* Polling a source that is ready, at most once per frame; a still image has
\* nothing after its first frame.
PollReady(p, c) ==
    \/ /\ c.polled
       /\ Stores(p, c)
       /\ UNCHANGED notes
    \/ /\ ~c.polled
       /\ \/ /\ Stores(p, [c EXCEPT !.polled = TRUE])
             /\ UNCHANGED notes
          \/ /\ c.anim
             /\ Stores(p, [c EXCEPT !.polled = TRUE,
                                    !.frame = IF @ = 1 THEN 2 ELSE 1])
             /\ UNCHANGED notes
          \/ /\ c.anim /\ p \in Faulty
             /\ Stores(p, [FailedCover(c) EXCEPT !.polled = TRUE])
             /\ Push(Error(p))

\* Something is in the result channel of the cover's loader.
Sent(t) == t # NoThread /\ threads[t].phase \in {"sent", "done"}

ResolveOpening(p) ==
    LET c == covers[p]
        t == c.loader
        r == threads[t].res
        ready == [c EXCEPT !.st = "ready", !.loader = NoThread,
                           !.cfg = threads[t].cfg, !.anim = threads[t].anim,
                           !.frame = IF r = "frame" THEN 1 ELSE @]
        gone  == [c EXCEPT !.st = "missing", !.loader = NoThread,
                           !.retryIn = MissingRetry]
    IN  /\ c.st = "opening"
        /\ UNCHANGED nextId
        /\ \/ /\ t # NoThread /\ ~Sent(t)
              /\ Stores(p, c)
              /\ UNCHANGED <<threads, notes>>
           \/ /\ t = NoThread
              /\ Stores(p, FailedCover(c))
              /\ Push(LoaderMsg)
              /\ UNCHANGED threads
           \/ /\ Sent(t) /\ r \in {"frame", "noframe"}
              /\ threads' = Joined(threads, t)
              /\ PollReady(p, ready)
           \/ /\ Sent(t) /\ r = "missing"
              /\ threads' = Joined(threads, t)
              /\ Stores(p, gone)
              /\ IF c.retry THEN UNCHANGED notes ELSE Push(Missing(p))
           \/ /\ Sent(t) /\ r = "error"
              /\ threads' = Joined(threads, t)
              /\ Stores(p, FailedCover(c))
              /\ Push(Error(p))

ResolveReady(p) ==
    /\ covers[p].st = "ready"
    /\ PollReady(p, covers[p])
    /\ UNCHANGED <<nextId, threads>>

ResolveFailed(p) ==
    /\ covers[p].st = "failed"
    /\ Stores(p, covers[p])
    /\ UNCHANGED <<nextId, threads, notes>>

Resolve(p) ==
    /\ up /\ inFrame
    /\ \/ ResolveAbsent(p)
       \/ ResolveMissing(p)
       \/ ResolveOpening(p)
       \/ ResolveReady(p)
       \/ ResolveFailed(p)

-----------------------------------------------------------------------------

\* Covers end_frame closes: not shown for EvictAfter, and not the default one.
Stale == {p \in Present : /\ p # DefaultPlay[settings]
                          /\ covers[p].age >= EvictAfter}

\* Registry::end_frame, and the drain that ends every paintCovers.
EndFrame ==
    /\ up /\ inFrame
    /\ inFrame' = FALSE
    /\ covers' = [p \in Plays |-> IF p \in Stale THEN Absent ELSE covers[p]]
    /\ threads' = AfterRetire(Stale)
    /\ retired' = retired \cup ToPark(Stale)
    /\ views' = [p \in Plays |-> 0]
    /\ Drained
    /\ UNCHANGED <<up, settings, pushed, epoch, nextId, joining, exists>>

\* nsc_shutdown drops the registry, loader by loader.
Shutdown ==
    /\ up /\ ~inFrame
    /\ up' = FALSE
    /\ settings' = NoSettings
    /\ covers' = [p \in Plays |-> Absent]
    /\ retired' = retired \cup LoadersOf(Plays)
    /\ last' = NoMsg
    /\ queue' = <<>>
    /\ told' = {}
    /\ UNCHANGED <<pushed, epoch, nextId, threads, joining, inFrame, views,
                   exists>>

\* Loader::drop cancels, then joins.
\* Variant: joins without cancelling.
DropUncancelled(t) ==
    /\ ~up /\ joining = NoThread
    /\ t \in retired
    /\ joining' = t
    /\ UNCHANGED <<up, settings, pushed, epoch, covers, nextId, threads, retired,
                   inFrame, views, notes, exists>>

DropLoader(t) ==
    /\ ~up /\ joining = NoThread
    /\ t \in retired
    /\ joining' = t
    /\ threads' = [threads EXCEPT ![t].cancel = TRUE]
    /\ UNCHANGED <<up, settings, pushed, epoch, covers, nextId, retired,
                   inFrame, views, notes, exists>>

JoinLoader ==
    /\ joining # NoThread
    /\ Finished(joining)
    /\ threads' = Joined(threads, joining)
    /\ retired' = retired \ {joining}
    /\ joining' = NoThread
    /\ UNCHANGED <<up, settings, pushed, epoch, covers, nextId, inFrame, views,
                   notes, exists>>

\* The plugin is out of memory; nothing of it may run any more.
Unloaded == ~up /\ retired = {} /\ joining = NoThread

Stopped == Unloaded /\ UNCHANGED vars

-----------------------------------------------------------------------------
(* Loader threads: load() and the job around it *)

ThreadStep(t, th) ==
    /\ threads' = [threads EXCEPT ![t] = th]
    /\ UNCHANGED <<up, settings, pushed, epoch, covers, nextId, retired,
                   joining, inFrame, views, notes, exists>>

\* The opener returns: no such file, an error (or a panic), or a source whose
\* first frame the thread then waits for.
ThreadOpen(t) ==
    LET th == threads[t]
    IN  /\ th.phase = "open"
        /\ \/ /\ ~exists[th.play]
              /\ ThreadStep(t, [th EXCEPT !.phase = "sent", !.res = "missing"])
           \/ /\ exists[th.play] /\ th.play \in Faulty
              /\ ThreadStep(t, [th EXCEPT !.phase = "sent", !.res = "error"])
           \/ /\ exists[th.play]
              /\ ThreadStep(t, [th EXCEPT !.phase = "poll"])

\* A poll of the new source yields its first frame, or fails.
ThreadFrame(t) ==
    LET th == threads[t]
    IN  /\ th.phase = "poll"
        /\ \/ \E a \in BOOLEAN :
                 ThreadStep(t, [th EXCEPT !.phase = "sent", !.res = "frame",
                                          !.anim = a])
           \/ /\ th.play \in Faulty
              /\ ThreadStep(t, [th EXCEPT !.phase = "sent", !.res = "error"])

\* No frame yet, which only happens to an animated source: the loader hands it
\* over without one when it is cancelled or its deadline has passed.
GivesUp(t) ==
    /\ threads[t].phase = "poll"
    /\ ThreadStep(t, [threads[t] EXCEPT !.phase = "sent", !.res = "noframe",
                                        !.anim = TRUE])

ThreadCancelled(t) == threads[t].cancel /\ GivesUp(t)
ThreadDeadline(t)  == ~threads[t].cancel /\ GivesUp(t)

\* Worker: after the job has sent its result the done flag is raised.
ThreadDone(t) ==
    /\ threads[t].phase = "sent"
    /\ ThreadStep(t, [threads[t] EXCEPT !.phase = "done"])

-----------------------------------------------------------------------------
(* The world *)

Less(n) == IF n = 0 THEN 0 ELSE n - 1

\* A tick of the clock.  A frame takes far less than one.
Tick ==
    /\ ~inFrame
    /\ covers' = [p \in Plays |->
          IF covers[p].st = "absent" THEN covers[p]
          ELSE [covers[p] EXCEPT
                  !.age = IF @ < EvictAfter THEN @ + 1 ELSE @,
                  !.retryIn = Less(@)]]
    /\ UNCHANGED <<up, settings, pushed, epoch, nextId, threads, retired,
                   joining, inFrame, views, notes, exists>>

\* A cover's file appears or goes away.
FileChange(p) ==
    /\ p \in Fickle
    /\ exists' = [exists EXCEPT ![p] = ~@]
    /\ UNCHANGED <<up, settings, pushed, epoch, covers, nextId, threads,
                   retired, joining, inFrame, views, notes>>

-----------------------------------------------------------------------------

ThreadNext(t) ==
    \/ ThreadOpen(t)
    \/ ThreadFrame(t)
    \/ ThreadCancelled(t)
    \/ ThreadDeadline(t)
    \/ ThreadDone(t)

Next ==
    \/ \E r \in Raws : PushSame(r) \/ PushNew(r)
    \/ \E p \in Plays : Warm(p) \/ Resolve(p) \/ FileChange(p)
    \/ BeginFrame
    \/ EndFrame
    \/ Shutdown
    \/ JoinLoader
    \/ \E t \in Threads : DropLoader(t) \/ ThreadNext(t)
    \/ Tick
    \/ Stopped

Spec == Init /\ [][Next]_vars

-----------------------------------------------------------------------------
(* Properties *)

Queues == {q \in Seq(Msgs) : Len(q) <= QueueCap}

\* Every variable keeps its shape, and whatever fails between two drains the
\* queue stays within its limit (notify.rs:19, "keep the queue bounded in case
\* the shim stops draining it").
TypeOK ==
    /\ up \in BOOLEAN
    /\ settings \in Configs \cup {NoSettings}
    /\ pushed \in Raws
    /\ epoch \in Nat
    /\ covers \in [Plays -> Cover]
    /\ nextId \in Nat
    /\ threads \in [Threads -> Thread]
    /\ retired \in SUBSET Threads
    /\ joining \in Threads \cup {NoThread}
    /\ inFrame \in BOOLEAN
    /\ views \in [Plays -> 0..2]
    /\ last \in Msgs \cup {NoMsg}
    /\ queue \in Queues
    /\ told \in SUBSET Msgs
    /\ exists \in [Plays -> BOOLEAN]

Holders(t) == {p \in Plays : covers[p].loader = t}

\* A running loader thread has exactly one owner that will join it: the cover
\* it works for, or the parking list.  None is leaked (it would outlive the
\* plugin's code) and none is joined twice (pthread_join of a dead id).
ThreadsOwned ==
    \A t \in Threads :
        IF threads[t].phase = "free"
        THEN t \notin retired /\ Holders(t) = {}
        ELSE \/ t \in retired /\ Holders(t) = {}
             \/ t \notin retired /\ \E p \in Plays : Holders(t) = {p}

\* The compositor's thread never joins a loader that is still opening its file
\* or waiting for a frame, whatever becomes of the cover: not on a settings
\* change, not on eviction, not when its result is taken.
NeverJoinsWorking ==
    [][\A t \in Threads : threads[t].phase \in {"open", "poll"}
            => /\ threads'[t].phase # "free"
               /\ threads'[t].play = threads[t].play]_vars

\* What a cover shows, or will show, was opened with the settings in force: a
\* loader started before a settings change never lands in a later cover.
CurrentSettings ==
    \A p \in Plays :
        /\ covers[p].st = "ready" => covers[p].cfg = settings
        /\ covers[p].loader # NoThread =>
              /\ threads[covers[p].loader].play = p
              /\ threads[covers[p].loader].cfg = settings

\* ffi.rs: the pixels handed out by nsc_resolve stay where they are until
\* nsc_end_frame.  However many windows show the cover, and whatever its loader
\* does meanwhile, the cover keeps the frame the first of them was given.
ViewsStayValid ==
    [][\A p \in Plays : views[p] # 0 /\ inFrame' =>
            covers'[p].frame = views[p] /\ covers'[p].id = covers[p].id]_vars

\* Cover ids key the shim's textures: covers in the map have ids of their own,
\* and an id that was handed out is never handed out again.
IdsDistinct ==
    \A p, q \in Present : covers[p].id < nextId
                          /\ (p # q => covers[p].id # covers[q].id)

Heard == told \cup Messages(queue)

\* A cover that stays black has been explained to the user since the settings
\* last changed: the notifier's deduplication, its reset and the silent retry of
\* a missing file never swallow the only message about a cover.
FailuresReported ==
    \A p \in Plays :
        /\ covers[p].st = "failed" => Heard \cap {Error(p), LoaderMsg} # {}
        /\ covers[p].st = "missing" => Missing(p) \in Heard

LifeOf(c) == [id |-> c.id, stage |-> c.st, frame |-> c.frame]
Lives == [p \in Plays |-> LifeOf(covers[p])]

Life == INSTANCE CoverLife WITH Covers <- Plays, life <- Lives, given <- views,
                                fresh <- nextId, painting <- inFrame

\* What the shim's texture cache relies on: an id is never used again and shows
\* the frames of one source, which nothing takes away before the end of a frame
\* they were shown in, nor between two frames but new settings or the unload.
ImplementsLife == Life!Spec

\* Registry::drop on unload: every loader thread ends and is joined, without
\* the clock having to move, since a cancelled loader stops waiting for frames.
Unloads == ~up ~> Unloaded

\* A parked loader comes to its end, so the list it is on cannot only grow.
ParkedEnd == \A t \in Threads : t \in retired ~> t \notin retired

\* A missing file is tried again: a cover that windows keep showing does not
\* stay missing while its file is there.
MissingRecovers ==
    \A p \in Plays : ~<>[](up /\ exists[p] /\ covers[p].st = "missing")

\* config.rs: a config error is shown to the user.
ConfigErrorShown ==
    settings # NoSettings /\ pushed \in BadRaws => <<"config", pushed>> \in Heard

-----------------------------------------------------------------------------
(* The inductive invariant behind the safety properties *)

\* A loader belongs to one cover, which is opening, and works for it.
LoadersHeld ==
    \A p \in Plays : covers[p].loader # NoThread =>
        /\ covers[p].st = "opening"
        /\ threads[covers[p].loader].phase # "free"
        /\ threads[covers[p].loader].play = p
        /\ threads[covers[p].loader].cfg = settings
        /\ covers[p].loader \notin retired
        /\ \A q \in Plays \ {p} : covers[q].loader # covers[p].loader

\* Every thread that runs is held or parked.
ThreadsKept ==
    \A t \in Threads :
        threads[t].phase # "free" <=>
            t \in retired \/ \E p \in Plays : covers[p].loader = t

\* Unloading has given up all covers.
DownClean ==
    /\ ~up => ~inFrame /\ \A p \in Plays : covers[p] = Absent
    /\ joining # NoThread => ~up /\ joining \in retired

\* A cover has a frame only while its source is there, opened with the settings
\* in force.
FramesReady ==
    \A p \in Plays :
        /\ covers[p].frame # 0 => covers[p].st = "ready"
        /\ covers[p].st = "ready" => covers[p].cfg = settings

\* A frame handed out is the cover's, which has been polled in this frame.
ViewsHeld ==
    \A p \in Plays : views[p] # 0 =>
        /\ inFrame
        /\ covers[p].st = "ready"
        /\ covers[p].polled
        /\ covers[p].frame = views[p]

\* No time passes in a frame: what is shown in it has just been used.
ShownIsUsed == \A p \in Plays : views[p] # 0 => covers[p].age = 0

IInv ==
    /\ TypeOK
    /\ LoadersHeld
    /\ ThreadsKept
    /\ DownClean
    /\ FramesReady
    /\ ViewsHeld
    /\ IdsDistinct

-----------------------------------------------------------------------------
(* Fairness.  Threads run, the compositor keeps rendering capture frames in  *)
(* which the covers on screen are resolved, and the clock moves.  The          *)
(* environment (settings, files, rules, the unload itself) is free.  The        *)
(* first-frame deadline is only relied on for loaders nobody has cancelled: it *)
(* is cancelling that has to end the others.                                   *)
LiveSpec ==
    /\ Spec
    /\ \A t \in Threads :
          /\ WF_vars(ThreadOpen(t))
          /\ WF_vars(ThreadCancelled(t))
          /\ WF_vars(t \notin retired /\ ThreadDeadline(t))
          /\ WF_vars(ThreadDone(t))
          /\ WF_vars(DropLoader(t))
    /\ WF_vars(JoinLoader)
    /\ WF_vars(BeginFrame)
    /\ WF_vars(EndFrame)
    /\ \A p \in Plays : SF_vars(Resolve(p))
    /\ SF_vars(Tick)

=============================================================================
