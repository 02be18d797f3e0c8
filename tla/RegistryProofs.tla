--------------------------- MODULE RegistryProofs ---------------------------
(***************************************************************************)
(* Proofs about the cover registry, for any number of covers, settings and *)
(* threads.                                                                *)
(***************************************************************************)
EXTENDS Registry, FiniteSetTheorems, TLAPS

-----------------------------------------------------------------------------
(* Types *)

\* One more message leaves the queue a queue, within its limit.
LEMMA BoundedType ==
    ASSUME NEW q \in Queues, NEW m \in Msgs
    PROVE  Bounded(q, m) \in Queues
<1>1. q \in Seq(Msgs) /\ Len(q) \in Nat /\ Len(q) <= QueueCap /\ QueueCap \in Nat \ {0}
  BY RegistryAssumption DEF Queues
<1>2. CASE Len(q) >= QueueCap
  <2>1. q # <<>>
    BY <1>1, <1>2
  <2>2. Tail(q) \in Seq(Msgs) /\ Len(Tail(q)) = Len(q) - 1
    BY <1>1, <2>1
  <2>3. Append(Tail(q), m) \in Seq(Msgs) /\ Len(Append(Tail(q), m)) = Len(q)
    BY <1>1, <2>2
  <2> QED BY <1>1, <1>2, <2>3 DEF Bounded, Queues
<1>3. CASE ~(Len(q) >= QueueCap)
  <2>1. Append(q, m) \in Seq(Msgs) /\ Len(Append(q, m)) = Len(q) + 1
    BY <1>1
  <2> QED BY <1>1, <1>3, <2>1 DEF Bounded, Queues
<1> QED BY <1>2, <1>3

LEMMA EmptyQueue == <<>> \in Queues
<1>1. Len(<<>>) = 0 /\ 0 <= QueueCap
  BY RegistryAssumption
<1> QED BY <1>1 DEF Queues

LEMMA MsgsOf ==
    ASSUME NEW p \in Plays
    PROVE  /\ Missing(p) \in Msgs
           /\ Error(p) \in Msgs
           /\ LoaderMsg \in Msgs
BY DEF Missing, Error, LoaderMsg, Msgs

\* The messages of a queue are messages.
LEMMA MessagesType ==
    ASSUME NEW q \in Seq(Msgs)
    PROVE  Messages(q) \in SUBSET Msgs
BY DEF Messages

LEMMA RecordTypes ==
    /\ Absent \in Cover
    /\ FreeThread \in Thread
    /\ \A t \in Threads \cup {NoThread}, n \in Nat :
          [Absent EXCEPT !.id = n, !.st = "opening", !.loader = t] \in Cover
    /\ \A p \in Plays, s \in Configs \cup {NoSettings} : NewThread(p, s) \in Thread
<1>0. 0 \in 0..MissingRetry /\ 0 \in 0..EvictAfter
  BY RegistryAssumption
<1>1. Absent \in Cover
  BY <1>0 DEF Absent, Cover, States
<1>2. FreeThread \in Thread
  BY DEF FreeThread, Thread, Phases, Results
<1>3. ASSUME NEW t \in Threads \cup {NoThread}, NEW n \in Nat
      PROVE  [Absent EXCEPT !.id = n, !.st = "opening", !.loader = t] \in Cover
  BY <1>1 DEF Cover, States
<1>4. ASSUME NEW p \in Plays, NEW s \in Configs \cup {NoSettings}
      PROVE  NewThread(p, s) \in Thread
  BY <1>2 DEF NewThread, Thread, Phases
<1> QED BY <1>1, <1>2, <1>3, <1>4

\* Threads keep their shape through a retirement.
LEMMA RetireType ==
    ASSUME TypeOK, NEW S \in SUBSET Plays
    PROVE  /\ AfterRetire(S) \in [Threads -> Thread]
           /\ ToPark(S) \in SUBSET Threads
           /\ LoadersOf(S) \in SUBSET Threads
<1>1. LoadersOf(S) \in SUBSET Threads
  BY DEF TypeOK, LoadersOf, Cover
<1>2. \A t \in Threads : [threads[t] EXCEPT !.cancel = TRUE] \in Thread
  BY DEF TypeOK, Thread
<1>3. FreeThread \in Thread
  BY RecordTypes
<1> QED BY <1>1, <1>2, <1>3 DEF AfterRetire, ToPark, TypeOK

\* Threads keep their shape when one is started or joined.
LEMMA SpawnType ==
    ASSUME NEW tt \in [Threads -> Thread], NEW t \in Threads \cup {NoThread},
           NEW p \in Plays, NEW s \in Configs \cup {NoSettings}
    PROVE  /\ Spawn(tt, t, p, s) \in [Threads -> Thread]
           /\ Joined(tt, t) \in [Threads -> Thread]
BY RecordTypes DEF Spawn, Joined

LEMMA FreshType ==
    ASSUME TypeOK, NEW t \in Threads \cup {NoThread}
    PROVE  FreshCover(t) \in Cover
BY RecordTypes DEF FreshCover, TypeOK

\* Pushing a message keeps the notifier's shape.
LEMMA PushType ==
    ASSUME TypeOK, NEW m \in Msgs, Push(m)
    PROVE  last' \in Msgs \cup {NoMsg} /\ queue' \in Queues
           /\ told' \in SUBSET Msgs
BY BoundedType DEF Push, Enqueue, TypeOK

LEMMA DrainType ==
    ASSUME TypeOK, Drained
    PROVE  last' \in Msgs \cup {NoMsg} /\ queue' \in Queues
           /\ told' \in SUBSET Msgs
BY MessagesType, EmptyQueue DEF Drained, TypeOK, Queues

\* What resolve leaves in the map has its shape.
LEMMA StoresType ==
    ASSUME TypeOK, NEW p \in Plays, NEW c \in Cover, Stores(p, c)
    PROVE  /\ covers' \in [Plays -> Cover]
           /\ views' \in [Plays -> 0..2]
           /\ up' \in BOOLEAN
           /\ settings' \in Configs \cup {NoSettings}
           /\ pushed' \in Raws
           /\ epoch' \in Nat
           /\ retired' \in SUBSET Threads
           /\ joining' \in Threads \cup {NoThread}
           /\ inFrame' \in BOOLEAN
           /\ exists' \in [Plays -> BOOLEAN]
<1>1. 0 \in 0..EvictAfter
  BY RegistryAssumption
<1>2. [c EXCEPT !.age = 0] \in Cover /\ c.frame \in 0..2
  BY <1>1 DEF Cover
<1> QED BY <1>2 DEF Stores, TypeOK

LEMMA FailedType ==
    ASSUME NEW c \in Cover
    PROVE  FailedCover(c) \in Cover
<1>1. 0 \in 0..2
  OBVIOUS
<1>2. [c EXCEPT !.st = "failed"] \in Cover
  BY DEF Cover, States
<1>3. [c EXCEPT !.st = "failed", !.loader = NoThread] \in Cover
  BY <1>2 DEF Cover
<1> QED BY <1>1, <1>3 DEF FailedCover, Cover

LEMMA OpenOnType ==
    ASSUME TypeOK, NEW p \in Plays, NEW t \in Threads \cup {NoThread},
           NEW c \in Cover, OpenOn(p, c, t), nextId' \in Nat
    PROVE  TypeOK'
<1>1. threads' \in [Threads -> Thread]
  BY SpawnType DEF OpenOn, TypeOK
<1>2. CASE t = NoThread
  BY <1>1, <1>2, StoresType, FailedType, PushType, MsgsOf DEF OpenOn, TypeOK
<1>3. CASE t # NoThread
  <2>1. [c EXCEPT !.loader = t] \in Cover
    BY DEF Cover
  <2> QED BY <1>1, <1>3, <2>1, StoresType DEF OpenOn, TypeOK, notes
<1> QED BY <1>2, <1>3

LEMMA PollReadyType ==
    ASSUME TypeOK, NEW p \in Plays, NEW c \in Cover, PollReady(p, c),
           nextId' \in Nat, threads' \in [Threads -> Thread]
    PROVE  TypeOK'
<1>1. [c EXCEPT !.polled = TRUE] \in Cover
  BY DEF Cover
<1>2. [c EXCEPT !.polled = TRUE, !.frame = IF @ = 1 THEN 2 ELSE 1] \in Cover
  <2>1. (IF c.frame = 1 THEN 2 ELSE 1) \in 0..2
    OBVIOUS
  <2> QED BY <1>1, <2>1 DEF Cover
<1>3. [FailedCover(c) EXCEPT !.polled = TRUE] \in Cover
  BY FailedType DEF Cover
<1>4. CASE Stores(p, c) /\ UNCHANGED notes
  BY <1>4, StoresType DEF TypeOK, notes
<1>5. CASE Stores(p, [c EXCEPT !.polled = TRUE]) /\ UNCHANGED notes
  BY <1>1, <1>5, StoresType DEF TypeOK, notes
<1>6. CASE /\ Stores(p, [c EXCEPT !.polled = TRUE,
                                 !.frame = IF @ = 1 THEN 2 ELSE 1])
           /\ UNCHANGED notes
  BY <1>2, <1>6, StoresType DEF TypeOK, notes
<1>7. CASE Stores(p, [FailedCover(c) EXCEPT !.polled = TRUE]) /\ Push(Error(p))
  BY <1>3, <1>7, StoresType, PushType, MsgsOf DEF TypeOK
<1> QED BY <1>4, <1>5, <1>6, <1>7 DEF PollReady

\* Every case of resolve keeps the types.
LEMMA ResolveType ==
    ASSUME TypeOK, NEW p \in Plays, Resolve(p)
    PROVE  TypeOK'
<1>1. CASE ResolveAbsent(p)
  <2>1. nextId' \in Nat
    BY <1>1 DEF ResolveAbsent, TypeOK
  <2>2. PICK t \in Threads \cup {NoThread} : OpenOn(p, FreshCover(t), t)
    BY <1>1 DEF ResolveAbsent
  <2>3. FreshCover(t) \in Cover
    BY FreshType
  <2> QED BY <2>1, <2>2, <2>3, OpenOnType
<1> USE DEF TypeOK
<1>0. covers[p] \in Cover
  OBVIOUS
<1>2. CASE ResolveMissing(p)
  <2>1. NextRetry(covers[p]) \in 0..MissingRetry
    BY <1>0, RegistryAssumption DEF NextRetry, Cover
  <2>2. [covers[p] EXCEPT !.retryIn = NextRetry(covers[p])] \in Cover
    BY <1>0, <2>1 DEF Cover
  <2>3. [covers[p] EXCEPT !.st = "opening", !.retry = TRUE] \in Cover
    BY <1>0 DEF Cover, States
  <2>4. nextId' \in Nat
    BY <1>2 DEF ResolveMissing
  <2>5. CASE \E t \in Threads \cup {NoThread} :
                 OpenOn(p, [covers[p] EXCEPT !.st = "opening", !.retry = TRUE], t)
    BY <2>3, <2>4, <2>5, OpenOnType
  <2>6. CASE /\ Stores(p, [covers[p] EXCEPT !.retryIn = NextRetry(covers[p])])
             /\ UNCHANGED <<threads, notes>>
    BY <2>2, <2>4, <2>6, StoresType DEF notes
  <2> QED BY <1>2, <2>5, <2>6 DEF ResolveMissing
<1>3. CASE ResolveOpening(p)
  <2> DEFINE c == covers[p]
             t == c.loader
             r == threads[t].res
             ready == [c EXCEPT !.st = "ready", !.loader = NoThread,
                                !.cfg = threads[t].cfg, !.anim = threads[t].anim,
                                !.frame = IF r = "frame" THEN 1 ELSE @]
             gone  == [c EXCEPT !.st = "missing", !.loader = NoThread,
                                !.retryIn = MissingRetry]
  <2>1. nextId' \in Nat /\ t \in Threads \cup {NoThread}
    BY <1>0, <1>3 DEF ResolveOpening, Cover
  <2>2. Joined(threads, t) \in [Threads -> Thread]
    BY <2>1, RecordTypes DEF Joined
  <2>3. CASE Stores(p, c) /\ UNCHANGED <<threads, notes>>
    BY <1>0, <2>1, <2>3, StoresType DEF notes
  <2>4. CASE Stores(p, FailedCover(c)) /\ Push(LoaderMsg) /\ UNCHANGED threads
    BY <1>0, <2>1, <2>4, StoresType, FailedType, PushType, MsgsOf
  <2>5. CASE Sent(t) /\ threads' = Joined(threads, t) /\ PollReady(p, ready)
    <3>1. threads[t] \in Thread
      BY <2>1, <2>5 DEF Sent
    <3>2. (IF r = "frame" THEN 1 ELSE c.frame) \in 0..2
      BY <1>0 DEF Cover
    <3>3. threads[t].cfg \in Configs \cup {NoSettings} /\ threads[t].anim \in BOOLEAN
      BY <3>1 DEF Thread
    <3>4. [c EXCEPT !.st = "ready", !.loader = NoThread] \in Cover
      BY <1>0 DEF Cover, States
    <3>5. [c EXCEPT !.st = "ready", !.loader = NoThread, !.cfg = threads[t].cfg,
                    !.anim = threads[t].anim] \in Cover
      BY <3>3, <3>4 DEF Cover
    <3>6. ready \in Cover
      BY <3>2, <3>5 DEF Cover
    <3> QED BY <2>1, <2>2, <2>5, <3>6, PollReadyType
  <2>6. CASE /\ threads' = Joined(threads, t)
             /\ Stores(p, gone)
             /\ IF c.retry THEN UNCHANGED notes ELSE Push(Missing(p))
    <3>1. MissingRetry \in 0..MissingRetry
      BY RegistryAssumption
    <3>2. [c EXCEPT !.st = "missing", !.loader = NoThread] \in Cover
      BY <1>0 DEF Cover, States
    <3>3. gone \in Cover
      BY <3>1, <3>2 DEF Cover
    <3> QED BY <2>1, <2>2, <2>6, <3>3, StoresType, PushType, MsgsOf DEF notes
  <2>7. CASE /\ threads' = Joined(threads, t)
             /\ Stores(p, FailedCover(c))
             /\ Push(Error(p))
    BY <1>0, <2>1, <2>2, <2>7, StoresType, FailedType, PushType, MsgsOf
  <2> QED BY <1>3, <2>3, <2>4, <2>5, <2>6, <2>7 DEF ResolveOpening
<1>4. CASE ResolveReady(p)
  BY <1>0, <1>4, PollReadyType DEF ResolveReady
<1>5. CASE ResolveFailed(p)
  BY <1>0, <1>5, StoresType DEF ResolveFailed, notes
<1> QED BY <1>1, <1>2, <1>3, <1>4, <1>5 DEF Resolve

\* A settings change keeps the types.
LEMMA PushNewType ==
    ASSUME TypeOK, NEW raw \in Raws, PushNew(raw)
    PROVE  TypeOK'
<1> DEFINE new == ParseOf[raw]
           def == DefaultPlay[new]
           tt  == AfterRetire(Plays)
<1>1. new \in Configs /\ def \in Plays \cup {NoPlay}
  BY RegistryAssumption
<1>2. /\ tt \in [Threads -> Thread]
      /\ ToPark(Plays) \in SUBSET Threads
  BY RetireType
<1>3. <<"config", raw>> \in Msgs
  BY DEF Msgs
<1>4. /\ last' \in Msgs \cup {NoMsg}
      /\ queue' \in Queues
      /\ told' \in SUBSET Msgs
  <2>1. PICK d \in BOOLEAN : NotesReset(raw, d)
    BY DEF PushNew
  <2> DEFINE q == IF raw \in BadRaws THEN Bounded(queue, <<"config", raw>>) ELSE queue
  <2>2. q \in Queues
    BY <1>3, BoundedType DEF TypeOK
  <2>3. Messages(q) \in SUBSET Msgs /\ <<>> \in Queues
    BY <2>2, MessagesType, EmptyQueue DEF Queues
  <2> QED BY <1>3, <2>1, <2>2, <2>3 DEF NotesReset
<1>5. covers' \in [Plays -> Cover] /\ threads' \in [Threads -> Thread]
      /\ nextId' \in Nat
  <2>1. ASSUME NEW t \in Threads \cup {NoThread}
        PROVE  ResetTo(def, t) \in [Plays -> Cover]
               /\ ResetTo(NoPlay, t) \in [Plays -> Cover]
    BY FreshType, RecordTypes, RegistryAssumption DEF ResetTo
  <2>2. CASE def = NoPlay
    BY <1>2, <2>1, <2>2 DEF PushNew, TypeOK
  <2>3. CASE def # NoPlay
    <3>1. PICK t \in Spawnable(tt) :
             /\ covers' = ResetTo(def, t)
             /\ threads' = Spawn(tt, t, def, new)
      BY <2>3 DEF PushNew
    <3>2. t \in Threads \cup {NoThread} /\ def \in Plays
      BY <1>1, <2>3 DEF Spawnable
    <3>3. Spawn(tt, t, def, new) \in [Threads -> Thread]
      BY <1>1, <1>2, <3>2, SpawnType
    <3>4. nextId' \in Nat
      BY <2>3 DEF PushNew, TypeOK
    <3> QED BY <2>1, <3>1, <3>2, <3>3, <3>4
  <2> QED BY <2>2, <2>3
<1> QED BY <1>1, <1>2, <1>4, <1>5 DEF PushNew, TypeOK

\* A thread's own step.
LEMMA ThreadStepType ==
    ASSUME TypeOK, NEW t \in Threads, NEW th \in Thread, ThreadStep(t, th)
    PROVE  TypeOK'
BY DEF ThreadStep, TypeOK, notes

LEMMA ThreadNextType ==
    ASSUME TypeOK, NEW t \in Threads, ThreadNext(t)
    PROVE  TypeOK'
<1>0. threads[t] \in Thread
  BY DEF TypeOK
<1>1. ASSUME NEW r \in Results, NEW a \in BOOLEAN
      PROVE  /\ [threads[t] EXCEPT !.phase = "sent", !.res = r] \in Thread
             /\ [threads[t] EXCEPT !.phase = "sent", !.res = r, !.anim = a] \in Thread
  <2>1. [threads[t] EXCEPT !.phase = "sent", !.res = r] \in Thread
    BY <1>0 DEF Thread, Phases, Results
  <2> QED BY <2>1 DEF Thread
<1>2. /\ [threads[t] EXCEPT !.phase = "poll"] \in Thread
      /\ [threads[t] EXCEPT !.phase = "done"] \in Thread
  BY <1>0 DEF Thread, Phases
<1>3. {"missing", "error", "frame", "noframe"} \subseteq Results
  BY DEF Results
<1>4. CASE ThreadOpen(t)
  BY <1>1, <1>2, <1>3, <1>4, ThreadStepType DEF ThreadOpen
<1>5. CASE ThreadFrame(t)
  BY <1>1, <1>3, <1>5, ThreadStepType DEF ThreadFrame
<1>6. CASE ThreadCancelled(t) \/ ThreadDeadline(t)
  BY <1>1, <1>3, <1>6, ThreadStepType DEF ThreadCancelled, ThreadDeadline, GivesUp
<1>7. CASE ThreadDone(t)
  BY <1>2, <1>7, ThreadStepType DEF ThreadDone
<1> QED BY <1>4, <1>5, <1>6, <1>7 DEF ThreadNext

\* Every step keeps the types.
LEMMA TypeStep ==
    ASSUME TypeOK, [Next]_vars
    PROVE  TypeOK'
<1>1. ASSUME NEW r \in Raws, PushSame(r)
      PROVE  TypeOK'
  BY <1>1, DrainType DEF PushSame, TypeOK, notes
<1>2. ASSUME NEW r \in Raws, PushNew(r)
      PROVE  TypeOK'
  BY <1>2, PushNewType
<1>3. ASSUME NEW p \in Plays, Warm(p)
      PROVE  TypeOK'
  <2>1. PICK t \in Spawnable(threads) :
           /\ covers' = [covers EXCEPT ![p] = FreshCover(t)]
           /\ threads' = Spawn(threads, t, p, settings)
    BY <1>3 DEF Warm
  <2>2. t \in Threads \cup {NoThread}
    BY DEF Spawnable
  <2>3. FreshCover(t) \in Cover /\ threads' \in [Threads -> Thread]
    BY <2>1, <2>2, FreshType, SpawnType DEF TypeOK
  <2> QED BY <1>3, <2>1, <2>3 DEF Warm, TypeOK, notes
<1>4. ASSUME NEW p \in Plays, Resolve(p)
      PROVE  TypeOK'
  BY <1>4, ResolveType
<1>5. CASE BeginFrame
  <2>1. \A p \in Plays : [covers[p] EXCEPT !.polled = FALSE] \in Cover
    BY DEF TypeOK, Cover
  <2>2. threads' \in [Threads -> Thread]
    BY <1>5, RecordTypes DEF BeginFrame, TypeOK
  <2> QED BY <1>5, <2>1, <2>2 DEF BeginFrame, TypeOK, notes
<1>6. CASE EndFrame
  <2>1. Stale \in SUBSET Plays
    BY DEF Stale, Present
  <2>2. /\ threads' \in [Threads -> Thread]
        /\ retired' \in SUBSET Threads
    BY <1>6, <2>1, RetireType DEF EndFrame, TypeOK
  <2>3. /\ last' \in Msgs \cup {NoMsg}
        /\ queue' \in Queues
        /\ told' \in SUBSET Msgs
    BY <1>6, DrainType DEF EndFrame
  <2>4. covers' \in [Plays -> Cover]
    BY <1>6, RecordTypes DEF EndFrame, TypeOK
  <2>5. 0 \in 0..2
    OBVIOUS
  <2>6. views' \in [Plays -> 0..2]
    BY <1>6, <2>5 DEF EndFrame
  <2> QED BY <2>6, <1>6, <2>2, <2>3, <2>4 DEF EndFrame, TypeOK
<1>7. CASE Shutdown
  <2>1. retired' \in SUBSET Threads
    BY <1>7, RetireType DEF Shutdown, TypeOK
  <2>2. Absent \in Cover
    BY RecordTypes
  <2>3. <<>> \in Queues
    BY EmptyQueue
  <2> QED BY <1>7, <2>1, <2>2, <2>3 DEF Shutdown, TypeOK
<1>8. CASE JoinLoader
  BY <1>8, RecordTypes DEF JoinLoader, Joined, TypeOK, notes
<1>9. ASSUME NEW t \in Threads, DropLoader(t)
      PROVE  TypeOK'
  BY <1>9 DEF DropLoader, TypeOK, Thread, notes
<1>10. ASSUME NEW t \in Threads, ThreadNext(t)
       PROVE  TypeOK'
  BY <1>10, ThreadNextType
<1>11. CASE Tick
  <2>1. \A p \in Plays :
           [covers[p] EXCEPT !.age = IF @ < EvictAfter THEN @ + 1 ELSE @,
                             !.retryIn = Less(@)] \in Cover
    <3> TAKE p \in Plays
    <3>1. covers[p] \in Cover
      BY DEF TypeOK
    <3>2. /\ (IF covers[p].age < EvictAfter THEN covers[p].age + 1
                                            ELSE covers[p].age) \in 0..EvictAfter
          /\ Less(covers[p].retryIn) \in 0..MissingRetry
      BY <3>1, RegistryAssumption DEF Cover, Less
    <3>3. [covers[p] EXCEPT !.age = IF @ < EvictAfter THEN @ + 1 ELSE @] \in Cover
      BY <3>1, <3>2 DEF Cover
    <3> QED BY <3>2, <3>3 DEF Cover
  <2> QED BY <1>11, <2>1 DEF Tick, TypeOK, notes
<1>12. ASSUME NEW p \in Plays, FileChange(p)
       PROVE  TypeOK'
  BY <1>12 DEF FileChange, TypeOK, notes
<1>13. CASE UNCHANGED vars
  BY <1>13 DEF vars, notes, TypeOK
<1> QED
  BY <1>1, <1>2, <1>3, <1>4, <1>5, <1>6, <1>7, <1>8, <1>9, <1>10, <1>11, <1>12,
     <1>13 DEF Next, Stopped

LEMMA InitType == Init => TypeOK
<1>1. <<>> \in Queues /\ 0 \in 0..2 /\ 1 \in Nat
  BY EmptyQueue
<1>2. Absent \in Cover /\ FreeThread \in Thread
  BY RecordTypes
<1> SUFFICES ASSUME Init PROVE TypeOK
  OBVIOUS
<1>3. covers \in [Plays -> Cover] /\ threads \in [Threads -> Thread]
  BY <1>2 DEF Init
<1>4. views \in [Plays -> 0..2] /\ nextId \in Nat /\ epoch \in Nat
  BY <1>1 DEF Init
<1>5. queue \in Queues /\ told \in SUBSET Msgs /\ last \in Msgs \cup {NoMsg}
  BY <1>1 DEF Init
<1> QED BY <1>3, <1>4, <1>5 DEF Init, TypeOK

\* Every variable of the registry keeps its shape, whatever the covers, the
\* settings, the threads and the bounds.
THEOREM TypeCorrect == Spec => []TypeOK
<1>1. Init => TypeOK
  BY InitType
<1>2. TypeOK /\ [Next]_vars => TypeOK'
  BY TypeStep
<1> QED BY <1>1, <1>2, PTL DEF Spec

-----------------------------------------------------------------------------
(* The inductive invariant: loaders and their threads *)

\* What a retirement does to each thread: those of retired covers that still work
\* are parked and keep their job, those that have finished are joined, and nobody
\* else's is touched.
LEMMA RetireEffect ==
    ASSUME TypeOK, LoadersHeld, NEW S \in SUBSET Plays, NEW t \in Threads
    PROVE  /\ t \in LoadersOf(S) <=> \E p \in S : covers[p].loader = t
           /\ t \notin LoadersOf(S) =>
                 t \notin ToPark(S) /\ AfterRetire(S)[t] = threads[t]
           /\ t \in ToPark(S) =>
                 /\ t \in LoadersOf(S)
                 /\ AfterRetire(S)[t].phase # "free"
           /\ t \in LoadersOf(S) \ ToPark(S) => AfterRetire(S)[t].phase = "free"
<1>0. t # NoThread
  BY RegistryAssumption
<1>1. t \in LoadersOf(S) <=> \E p \in S : covers[p].loader = t
  BY <1>0 DEF LoadersOf, LoadersHeld, Opening
<1>2. ToPark(S) \subseteq LoadersOf(S)
  BY DEF ToPark
<1>3. ASSUME t \in ToPark(S)
      PROVE  AfterRetire(S)[t].phase # "free"
  <2>1. AfterRetire(S)[t] = [threads[t] EXCEPT !.cancel = TRUE]
    BY <1>3 DEF AfterRetire
  <2>2. threads[t].phase # "free"
    BY <1>0, <1>1, <1>2, <1>3 DEF LoadersHeld
  <2>3. threads[t] \in Thread
    BY DEF TypeOK
  <2> QED BY <2>1, <2>2, <2>3 DEF Thread
<1>4. ASSUME t \in LoadersOf(S) \ ToPark(S)
      PROVE  AfterRetire(S)[t].phase = "free"
  BY <1>4 DEF AfterRetire, FreeThread
<1>5. ASSUME t \notin LoadersOf(S)
      PROVE  AfterRetire(S)[t] = threads[t]
  BY <1>2, <1>5 DEF AfterRetire
<1> QED BY <1>1, <1>2, <1>3, <1>4, <1>5

\* Giving cover p a loader on a free thread.
LEMMA OpensLoader ==
    ASSUME TypeOK, LoadersHeld, ThreadsKept,
           NEW p \in Plays, NEW c, NEW t \in Spawnable(threads),
           covers[p].loader = NoThread,
           covers' = [covers EXCEPT ![p] = c],
           threads' = Spawn(threads, t, p, settings),
           c.loader = t, t # NoThread => c.st = "opening",
           UNCHANGED <<settings, retired>>
    PROVE  LoadersHeld' /\ ThreadsKept'
<1>0. /\ NoThread \notin Threads
      /\ covers \in [Plays -> Cover] /\ threads \in [Threads -> Thread]
  BY RegistryAssumption DEF TypeOK
<1>1. CASE t = NoThread
  <2>1. threads' = threads
    BY <1>1 DEF Spawn
  <2> QED BY <1>0, <1>1, <2>1 DEF LoadersHeld, ThreadsKept
<1>2. CASE t # NoThread
  <2>1. t \in Threads /\ threads[t].phase = "free"
    BY <1>2 DEF Spawnable
  <2>2. t \notin retired /\ \A q \in Plays : covers[q].loader # t
    BY <2>1 DEF ThreadsKept
  <2>3. /\ threads'[t].phase = "open" /\ threads'[t].play = p
        /\ threads'[t].cfg = settings
        /\ \A u \in Threads \ {t} : threads'[u] = threads[u]
    BY <1>0, <1>2, <2>1 DEF Spawn, NewThread, FreeThread
  <2>4. covers'[p].loader = t /\ covers'[p].st = "opening"
        /\ \A q \in Plays \ {p} : covers'[q] = covers[q]
    BY <1>0, <1>2
  <2>5. \A q \in Plays : covers[q].loader \in Threads \cup {NoThread}
    BY <1>0 DEF Cover
  <2>6. LoadersHeld'
    BY <2>2, <2>3, <2>4, <2>5 DEF LoadersHeld
  <2>7. ThreadsKept'
    <3> SUFFICES ASSUME NEW u \in Threads
                 PROVE  threads'[u].phase # "free" <=>
                           u \in retired' \/ \E q \in Plays : covers'[q].loader = u
      BY DEF ThreadsKept
    <3>1. CASE u = t
      BY <2>3, <2>4, <3>1
    <3>2. CASE u # t
      BY <1>0, <2>3, <2>4, <3>2 DEF ThreadsKept
    <3> QED BY <3>1, <3>2
  <2> QED BY <2>6, <2>7
<1> QED BY <1>1, <1>2

\* Taking the result of cover p's loader, whose thread is joined.
LEMMA LandsLoader ==
    ASSUME TypeOK, LoadersHeld, ThreadsKept,
           NEW p \in Plays, NEW c,
           covers' = [covers EXCEPT ![p] = c],
           threads' = Joined(threads, covers[p].loader),
           c.loader = NoThread,
           UNCHANGED <<settings, retired>>
    PROVE  LoadersHeld' /\ ThreadsKept'
<1> DEFINE t == covers[p].loader
<1>0. /\ NoThread \notin Threads
      /\ covers \in [Plays -> Cover] /\ threads \in [Threads -> Thread]
  BY RegistryAssumption DEF TypeOK
<1>1. covers'[p].loader = NoThread /\ \A q \in Plays \ {p} : covers'[q] = covers[q]
  BY <1>0
<1>2. CASE t = NoThread
  <2>1. threads' = threads
    BY <1>2 DEF Joined
  <2> QED BY <1>0, <1>1, <1>2, <2>1 DEF LoadersHeld, ThreadsKept
<1>3. CASE t # NoThread
  <2>1. t \in Threads
    BY <1>0, <1>3 DEF Cover
  <2>2. t \notin retired /\ \A q \in Plays \ {p} : covers[q].loader # t
    BY <1>3 DEF LoadersHeld
  <2>3. /\ threads'[t].phase = "free"
        /\ \A u \in Threads \ {t} : threads'[u] = threads[u]
    BY <1>0, <1>3, <2>1 DEF Joined, FreeThread
  <2>4. \A q \in Plays : covers[q].loader \in Threads \cup {NoThread}
    BY <1>0 DEF Cover
  <2>5. LoadersHeld'
    BY <1>1, <2>2, <2>3, <2>4 DEF LoadersHeld
  <2>6. ThreadsKept'
    <3> SUFFICES ASSUME NEW u \in Threads
                 PROVE  threads'[u].phase # "free" <=>
                           u \in retired' \/ \E q \in Plays : covers'[q].loader = u
      BY DEF ThreadsKept
    <3>1. CASE u = t
      BY <1>0, <1>1, <2>2, <2>3, <3>1
    <3>2. CASE u # t
      BY <1>0, <1>1, <2>3, <3>2 DEF ThreadsKept
    <3> QED BY <3>1, <3>2
  <2> QED BY <2>5, <2>6
<1> QED BY <1>2, <1>3

\* Leaving cover p with the loader it has, or none.
LEMMA KeepsLoader ==
    ASSUME TypeOK, LoadersHeld, ThreadsKept,
           NEW p \in Plays, NEW c,
           covers' = [covers EXCEPT ![p] = c],
           c.loader = covers[p].loader,
           c.loader # NoThread => c.st = "opening",
           UNCHANGED <<threads, settings, retired>>
    PROVE  LoadersHeld' /\ ThreadsKept'
<1>1. /\ covers'[p].loader = covers[p].loader
      /\ covers[p].loader # NoThread => covers'[p].st = "opening"
      /\ \A q \in Plays \ {p} : covers'[q] = covers[q]
  BY DEF TypeOK
<1>2. \A q \in Plays : covers'[q].loader = covers[q].loader
  BY <1>1
<1> QED BY <1>1, <1>2 DEF LoadersHeld, ThreadsKept

-----------------------------------------------------------------------------
(* The inductive invariant: resolve *)

\* Storing a cover that has a frame only when it is ready and polled, under its
\* own id or a fresh one, keeps what frames and views promise.
LEMMA StoresFrames ==
    ASSUME TypeOK, FramesReady, ViewsHeld, IdsDistinct, DownClean, up, inFrame,
           NEW p \in Plays, NEW c \in Cover, Stores(p, c),
           c.frame # 0 => c.st = "ready" /\ c.polled,
           c.st = "ready" => c.cfg = settings,
           c.st # "absent",
           \/ c.id = nextId /\ nextId' = nextId + 1
           \/ covers[p].st # "absent" /\ c.id = covers[p].id /\ nextId' = nextId
    PROVE  FramesReady' /\ ViewsHeld' /\ IdsDistinct' /\ DownClean'
<1>1. /\ covers'[p] = [c EXCEPT !.age = 0]
      /\ views'[p] = c.frame
      /\ \A q \in Plays \ {p} : covers'[q] = covers[q] /\ views'[q] = views[q]
      /\ UNCHANGED <<up, settings, joining, inFrame, retired>>
  BY DEF Stores, TypeOK
<1>2. /\ covers'[p].frame = c.frame /\ covers'[p].st = c.st
      /\ covers'[p].polled = c.polled /\ covers'[p].cfg = c.cfg
      /\ covers'[p].id = c.id
  BY <1>1 DEF Cover
<1>3. FramesReady'
  BY <1>1, <1>2 DEF FramesReady
<1>4. ViewsHeld'
  BY <1>1, <1>2 DEF ViewsHeld
<1>5. IdsDistinct'
  <2>1. nextId \in Nat /\ \A q \in Plays : covers[q].id \in Nat
    BY DEF TypeOK, Cover
  <2>2. \A q \in Present' \ {p} : q \in Present /\ covers'[q].id = covers[q].id
    BY <1>1 DEF Present
  <2>3. CASE c.id = nextId /\ nextId' = nextId + 1
    BY <1>2, <2>1, <2>2, <2>3 DEF IdsDistinct, Present
  <2>4. CASE covers[p].st # "absent" /\ c.id = covers[p].id /\ nextId' = nextId
    <3>1. p \in Present
      BY <2>4 DEF Present
    <3> QED BY <1>2, <2>1, <2>2, <2>4, <3>1 DEF IdsDistinct, Present
  <2> QED BY <2>3, <2>4
<1>6. DownClean'
  BY <1>1 DEF DownClean
<1> QED BY <1>3, <1>4, <1>5, <1>6

\* The fields of a failed cover.
LEMMA FailedFields ==
    ASSUME NEW c \in Cover
    PROVE  /\ FailedCover(c).st = "failed" /\ FailedCover(c).loader = NoThread
           /\ FailedCover(c).frame = 0 /\ FailedCover(c).id = c.id
BY DEF FailedCover, Cover

LEMMA FreshFields ==
    ASSUME NEW t
    PROVE  /\ FreshCover(t).st = "opening" /\ FreshCover(t).loader = t
           /\ FreshCover(t).frame = 0 /\ FreshCover(t).id = nextId
BY DEF FreshCover, Absent

\* Opening cover p, as a new one or again, keeps the invariant.
LEMMA OpenOnInv ==
    ASSUME IInv, up, inFrame, NEW p \in Plays, NEW c \in Cover,
           NEW t \in Threads \cup {NoThread}, OpenOn(p, c, t),
           covers[p].loader = NoThread, c.loader \in {NoThread, t},
           c.st = "opening", c.frame = 0,
           \/ c.id = nextId /\ nextId' = nextId + 1
           \/ covers[p].st # "absent" /\ c.id = covers[p].id /\ nextId' = nextId
    PROVE  IInv'
<1> USE DEF IInv
<1>1. nextId' \in Nat
  BY DEF TypeOK
<1>2. TypeOK'
  BY <1>1, OpenOnType
<1>3. CASE t = NoThread
  <2>1. Stores(p, FailedCover(c)) /\ threads' = threads
    BY <1>3 DEF OpenOn, Spawn
  <2>2. FailedCover(c) \in Cover
    BY FailedType
  <2>3. FramesReady' /\ ViewsHeld' /\ IdsDistinct' /\ DownClean'
    BY <2>1, <2>2, FailedFields, StoresFrames
  <2>4. [FailedCover(c) EXCEPT !.age = 0].loader = NoThread
    BY <2>2, FailedFields DEF Cover
  <2>5. LoadersHeld' /\ ThreadsKept'
    BY <2>1, <2>4, KeepsLoader DEF Stores
  <2> QED BY <1>2, <2>3, <2>5
<1>4. CASE t # NoThread
  <2> DEFINE d == [c EXCEPT !.loader = t]
  <2>1. Stores(p, d) /\ threads' = Spawn(threads, t, p, settings)
        /\ t \in Spawnable(threads)
    BY <1>4 DEF OpenOn
  <2>2. d \in Cover /\ d.frame = 0 /\ d.st = "opening" /\ d.id = c.id
    BY DEF Cover
  <2>3. FramesReady' /\ ViewsHeld' /\ IdsDistinct' /\ DownClean'
    BY <2>1, <2>2, StoresFrames
  <2>4. [d EXCEPT !.age = 0].loader = t /\ [d EXCEPT !.age = 0].st = "opening"
    BY DEF Cover
  <2>5. LoadersHeld' /\ ThreadsKept'
    BY <2>1, <2>4, OpensLoader DEF Stores
  <2> QED BY <1>2, <2>3, <2>5
<1> QED BY <1>3, <1>4

\* Polling a ready cover keeps what frames and views promise, and says what it
\* leaves: no loader, and the frame in hand if the cover was polled already.
LEMMA PollReadyInv ==
    ASSUME TypeOK, FramesReady, ViewsHeld, IdsDistinct, DownClean, up, inFrame,
           NEW p \in Plays, NEW c \in Cover, PollReady(p, c),
           c.st = "ready", c.loader = NoThread, c.cfg = settings,
           covers[p].st # "absent", c.id = covers[p].id, nextId' = nextId
    PROVE  /\ FramesReady' /\ ViewsHeld' /\ IdsDistinct' /\ DownClean'
           /\ \E d \in Cover : /\ covers' = [covers EXCEPT ![p] = d]
                               /\ d.loader = NoThread
           /\ c.polled => covers'[p].frame = c.frame
           /\ covers'[p].id = c.id
<1>0. 0 \in 0..EvictAfter
  BY RegistryAssumption
<1>1. ASSUME NEW d \in Cover, Stores(p, d), d.id = c.id, d.st # "absent",
             d.st = "ready" => d.cfg = settings, d.loader = NoThread,
             d.frame # 0 => d.st = "ready" /\ d.polled,
             c.polled => d.frame = c.frame
      PROVE  /\ FramesReady' /\ ViewsHeld' /\ IdsDistinct' /\ DownClean'
             /\ \E e \in Cover : /\ covers' = [covers EXCEPT ![p] = e]
                                 /\ e.loader = NoThread
             /\ c.polled => covers'[p].frame = c.frame
             /\ covers'[p].id = c.id
  <2>1. FramesReady' /\ ViewsHeld' /\ IdsDistinct' /\ DownClean'
    BY <1>1, StoresFrames
  <2> DEFINE e == [d EXCEPT !.age = 0]
  <2>2. e \in Cover /\ e.loader = NoThread /\ e.frame = d.frame /\ e.id = d.id
    BY <1>0, <1>1 DEF Cover
  <2>3. covers' = [covers EXCEPT ![p] = e] /\ covers'[p] = e
    BY <1>1 DEF Stores, TypeOK
  <2> QED BY <1>1, <2>1, <2>2, <2>3
<1>2. CASE c.polled /\ Stores(p, c)
  BY <1>1, <1>2
<1>3. CASE ~c.polled /\ Stores(p, [c EXCEPT !.polled = TRUE])
  <2> DEFINE d == [c EXCEPT !.polled = TRUE]
  <2>1. d \in Cover /\ d.st = "ready" /\ d.loader = NoThread /\ d.cfg = settings
        /\ d.id = c.id /\ d.polled
    BY DEF Cover
  <2> QED BY <1>1, <1>3, <2>1
<1>4. CASE ~c.polled /\ Stores(p, [c EXCEPT !.polled = TRUE,
                                           !.frame = IF @ = 1 THEN 2 ELSE 1])
  <2> DEFINE b == [c EXCEPT !.polled = TRUE]
             d == [c EXCEPT !.polled = TRUE, !.frame = IF @ = 1 THEN 2 ELSE 1]
  <2>0. b \in Cover
    BY DEF Cover
  <2>1. d \in Cover
    <3>1. (IF c.frame = 1 THEN 2 ELSE 1) \in 0..2
      OBVIOUS
    <3> QED BY <2>0, <3>1 DEF Cover
  <2>2. d.st = "ready" /\ d.loader = NoThread /\ d.cfg = settings
        /\ d.id = c.id /\ d.polled
    BY DEF Cover
  <2> QED BY <1>1, <1>4, <2>1, <2>2
<1>5. CASE ~c.polled /\ Stores(p, [FailedCover(c) EXCEPT !.polled = TRUE])
  <2> DEFINE d == [FailedCover(c) EXCEPT !.polled = TRUE]
  <2>1. FailedCover(c) \in Cover
    BY FailedType
  <2>2. d \in Cover /\ d.st = "failed" /\ d.loader = NoThread /\ d.frame = 0
        /\ d.id = c.id
    BY <2>1, FailedFields DEF Cover
  <2> QED BY <1>1, <1>5, <2>2
<1> QED BY <1>2, <1>3, <1>4, <1>5 DEF PollReady

\* What resolve does with a result that is in the loader's channel, or with a
\* loader that never ran, keeps the invariant.
LEMMA ResolveOpeningInv ==
    ASSUME IInv, up, inFrame, NEW p \in Plays, ResolveOpening(p), TypeOK'
    PROVE  IInv'
<1> USE DEF IInv
<1> DEFINE c == covers[p]
           t == c.loader
           r == threads[t].res
           ready == [c EXCEPT !.st = "ready", !.loader = NoThread,
                              !.cfg = threads[t].cfg, !.anim = threads[t].anim,
                              !.frame = IF r = "frame" THEN 1 ELSE @]
           gone  == [c EXCEPT !.st = "missing", !.loader = NoThread,
                              !.retryIn = MissingRetry]
           Kept  == FramesReady' /\ ViewsHeld' /\ IdsDistinct' /\ DownClean'
           Held  == LoadersHeld' /\ ThreadsKept'
<1>0. /\ c \in Cover /\ c.st = "opening" /\ c.frame = 0
      /\ nextId' = nextId /\ t \in Threads \cup {NoThread}
  BY DEF ResolveOpening, TypeOK, FramesReady, Cover
<1>1. CASE Stores(p, c) /\ UNCHANGED <<threads, notes>>
  <2>1. Kept
    BY <1>0, <1>1, StoresFrames
  <2>2. [c EXCEPT !.age = 0].loader = c.loader /\ [c EXCEPT !.age = 0].st = "opening"
    BY <1>0 DEF Cover
  <2>3. Held
    BY <1>1, <2>2, KeepsLoader DEF Stores
  <2> QED BY <2>1, <2>3
<1>2. CASE Stores(p, FailedCover(c)) /\ UNCHANGED threads /\ t = NoThread
  <2>1. FailedCover(c) \in Cover
    BY <1>0, FailedType
  <2>2. Kept
    BY <1>0, <1>2, <2>1, FailedFields, StoresFrames
  <2>3. [FailedCover(c) EXCEPT !.age = 0].loader = NoThread
    BY <1>0, <2>1, FailedFields DEF Cover
  <2>4. Held
    BY <1>2, <2>3, KeepsLoader DEF Stores
  <2> QED BY <2>2, <2>4
<1>3. CASE Sent(t) /\ threads' = Joined(threads, t) /\ PollReady(p, ready)
  <2>1. t # NoThread /\ threads[t] \in Thread /\ threads[t].cfg = settings
    BY <1>0, <1>3 DEF Sent, TypeOK, LoadersHeld
  <2>2. ready \in Cover
    <3>1. (IF r = "frame" THEN 1 ELSE c.frame) \in 0..2
      BY <1>0
    <3>2. threads[t].cfg \in Configs \cup {NoSettings} /\ threads[t].anim \in BOOLEAN
      BY <2>1 DEF Thread
    <3>3. [c EXCEPT !.st = "ready", !.loader = NoThread] \in Cover
      BY <1>0 DEF Cover, States
    <3>4. [c EXCEPT !.st = "ready", !.loader = NoThread, !.cfg = threads[t].cfg,
                    !.anim = threads[t].anim] \in Cover
      BY <3>2, <3>3 DEF Cover
    <3> QED BY <3>1, <3>4 DEF Cover
  <2>3. /\ ready.st = "ready" /\ ready.loader = NoThread
        /\ ready.cfg = settings /\ ready.id = c.id
    BY <1>0, <2>1 DEF Cover
  <2>4. /\ Kept
        /\ \E d \in Cover : covers' = [covers EXCEPT ![p] = d] /\ d.loader = NoThread
    BY <1>0, <1>3, <2>2, <2>3, PollReadyInv
  <2>5. UNCHANGED <<settings, retired>>
    BY <1>3 DEF PollReady, Stores
  <2>6. Held
    BY <1>3, <2>4, <2>5, LandsLoader
  <2> QED BY <2>4, <2>6
<1>4. ASSUME NEW d \in Cover, d.id = c.id, d.st \notin {"absent", "ready"},
             d.frame = 0, d.loader = NoThread,
             Stores(p, d), threads' = Joined(threads, t)
      PROVE  Kept /\ Held
  <2>1. Kept
    BY <1>0, <1>4, StoresFrames
  <2>2. [d EXCEPT !.age = 0].loader = NoThread
    BY <1>4 DEF Cover
  <2>3. Held
    BY <1>4, <2>2, LandsLoader DEF Stores
  <2> QED BY <2>1, <2>3
<1>5. CASE Stores(p, gone) /\ threads' = Joined(threads, t)
  <2>0. MissingRetry \in 0..MissingRetry
    BY RegistryAssumption
  <2>1. [c EXCEPT !.st = "missing", !.loader = NoThread] \in Cover
    BY <1>0 DEF Cover, States
  <2>2. gone \in Cover
    BY <2>0, <2>1 DEF Cover
  <2>3. gone.id = c.id /\ gone.st = "missing" /\ gone.frame = 0
        /\ gone.loader = NoThread
    BY <1>0 DEF Cover
  <2> QED BY <1>4, <1>5, <2>2, <2>3
<1>6. CASE Stores(p, FailedCover(c)) /\ threads' = Joined(threads, t)
  BY <1>0, <1>4, <1>6, FailedType, FailedFields
<1> QED BY <1>1, <1>2, <1>3, <1>5, <1>6 DEF ResolveOpening

\* Every case of resolve keeps the invariant.
LEMMA ResolveInv ==
    ASSUME IInv, NEW p \in Plays, Resolve(p)
    PROVE  IInv'
<1> USE DEF IInv
<1> DEFINE c == covers[p]
<1>0. up /\ inFrame /\ c \in Cover
  BY DEF Resolve, TypeOK
<1>1. TypeOK'
  BY ResolveType
<1>2. CASE ResolveAbsent(p)
  <2>1. PICK t \in Threads \cup {NoThread} : OpenOn(p, FreshCover(t), t)
    BY <1>2 DEF ResolveAbsent
  <2>2. c.loader = NoThread /\ nextId' = nextId + 1
    BY <1>2 DEF ResolveAbsent, LoadersHeld
  <2> QED BY <1>0, <2>1, <2>2, FreshType, FreshFields, OpenOnInv
<1>3. CASE ResolveMissing(p)
  <2>1. c.st = "missing" /\ c.loader = NoThread /\ c.frame = 0 /\ nextId' = nextId
    BY <1>0, <1>3 DEF ResolveMissing, LoadersHeld, FramesReady
  <2> DEFINE d == [c EXCEPT !.st = "opening", !.retry = TRUE]
             e == [c EXCEPT !.retryIn = NextRetry(c)]
  <2>2. ASSUME NEW t \in Threads \cup {NoThread}, OpenOn(p, d, t)
        PROVE  IInv'
    <3>1. d \in Cover /\ d.loader = NoThread /\ d.st = "opening" /\ d.frame = 0
          /\ d.id = c.id
      BY <1>0, <2>1 DEF Cover, States
    <3> QED BY <1>0, <2>1, <2>2, <3>1, OpenOnInv
  <2>3. CASE Stores(p, e) /\ UNCHANGED <<threads, notes>>
    <3>1. NextRetry(c) \in 0..MissingRetry
      BY <1>0, RegistryAssumption DEF NextRetry, Cover
    <3>2. e \in Cover /\ e.id = c.id /\ e.st = "missing" /\ e.frame = 0
          /\ e.loader = NoThread
      BY <1>0, <2>1, <3>1 DEF Cover
    <3>3. FramesReady' /\ ViewsHeld' /\ IdsDistinct' /\ DownClean'
      BY <1>0, <2>1, <2>3, <3>2, StoresFrames
    <3>4. [e EXCEPT !.age = 0].loader = NoThread
      BY <3>2 DEF Cover
    <3>5. LoadersHeld' /\ ThreadsKept'
      BY <2>1, <2>3, <3>4, KeepsLoader DEF Stores
    <3> QED BY <1>1, <3>3, <3>5
  <2> QED BY <1>3, <2>2, <2>3 DEF ResolveMissing
<1>4. CASE ResolveOpening(p)
  BY <1>0, <1>1, <1>4, ResolveOpeningInv
<1>5. CASE ResolveReady(p)
  <2>1. c.st = "ready" /\ c.loader = NoThread /\ c.cfg = settings
        /\ nextId' = nextId /\ threads' = threads /\ PollReady(p, c)
    BY <1>5 DEF ResolveReady, LoadersHeld, FramesReady
  <2>2. /\ FramesReady' /\ ViewsHeld' /\ IdsDistinct' /\ DownClean'
        /\ \E d \in Cover : covers' = [covers EXCEPT ![p] = d] /\ d.loader = NoThread
    BY <1>0, <2>1, PollReadyInv
  <2>3. UNCHANGED <<settings, retired>>
    BY <2>1 DEF PollReady, Stores
  <2>4. LoadersHeld' /\ ThreadsKept'
    BY <2>1, <2>2, <2>3, KeepsLoader
  <2> QED BY <1>1, <2>2, <2>4
<1>6. CASE ResolveFailed(p)
  <2>1. c.st = "failed" /\ c.loader = NoThread /\ c.frame = 0
        /\ nextId' = nextId /\ threads' = threads /\ Stores(p, c)
    BY <1>0, <1>6 DEF ResolveFailed, LoadersHeld, FramesReady
  <2>2. FramesReady' /\ ViewsHeld' /\ IdsDistinct' /\ DownClean'
    BY <1>0, <2>1, StoresFrames
  <2>3. [c EXCEPT !.age = 0].loader = NoThread
    BY <1>0, <2>1 DEF Cover
  <2>4. LoadersHeld' /\ ThreadsKept'
    BY <2>1, <2>3, KeepsLoader DEF Stores
  <2> QED BY <1>1, <2>2, <2>4
<1> QED BY <1>2, <1>3, <1>4, <1>5, <1>6 DEF Resolve

-----------------------------------------------------------------------------
(* The inductive invariant: the other calls, the threads, the world *)

\* A settings change leaves at most the new default cover, opened with the new
\* settings on a thread of its own; every other loader is parked or joined.
LEMMA PushNewInv ==
    ASSUME IInv, NEW raw \in Raws, PushNew(raw)
    PROVE  IInv'
<1> USE DEF IInv
<1> DEFINE new == ParseOf[raw]
           def == DefaultPlay[new]
           tt  == AfterRetire(Plays)
<1>0. /\ NoThread \notin Threads /\ NoPlay \notin Plays
      /\ new \in Configs /\ def \in Plays \cup {NoPlay}
  BY RegistryAssumption
<1>1. TypeOK'
  BY PushNewType
<1>2. /\ up /\ ~inFrame /\ settings' = new
      /\ retired' = retired \cup ToPark(Plays)
      /\ UNCHANGED <<up, joining, inFrame, views>>
  BY DEF PushNew
\* The threads after the retirement, and who keeps them.
<1>3. ASSUME NEW u \in Threads
      PROVE  tt[u].phase # "free" <=> u \in retired'
  <2>1. u \in LoadersOf(Plays) => u \notin retired
    BY <1>0, RetireEffect DEF LoadersHeld
  <2>2. u \notin LoadersOf(Plays) =>
           (threads[u].phase # "free" <=> u \in retired)
    BY RetireEffect DEF ThreadsKept
  <2>3. CASE u \in LoadersOf(Plays)
    BY <1>2, <2>1, <2>3, RetireEffect
  <2>4. CASE u \notin LoadersOf(Plays)
    BY <1>2, <2>2, <2>4, RetireEffect
  <2> QED BY <2>3, <2>4
<1>4. \A p \in Plays : views'[p] = 0
  BY <1>2 DEF ViewsHeld, TypeOK
<1>5. joining' = NoThread
  BY <1>2 DEF DownClean
<1>6. tt \in [Threads -> Thread]
  BY RetireType
<1>7. CASE covers' = ResetTo(NoPlay, NoThread) /\ threads' = tt
  <2>1. \A p \in Plays : covers'[p] = Absent
    BY <1>0, <1>7 DEF ResetTo
  <2>2. \A p \in Plays : covers'[p].loader = NoThread /\ covers'[p].frame = 0
                         /\ covers'[p].st = "absent"
    BY <2>1 DEF Absent
  <2>3. LoadersHeld' /\ FramesReady' /\ ViewsHeld' /\ IdsDistinct' /\ DownClean'
    BY <1>2, <1>4, <1>5, <2>2
       DEF LoadersHeld, FramesReady, ViewsHeld, IdsDistinct, DownClean, Present
  <2>4. ThreadsKept'
    BY <1>0, <1>3, <1>7, <2>2 DEF ThreadsKept
  <2> QED BY <1>1, <2>3, <2>4
<1>8. ASSUME def # NoPlay, NEW t \in Spawnable(tt),
             covers' = ResetTo(def, t), threads' = Spawn(tt, t, def, new),
             nextId' = nextId + 1
      PROVE  IInv'
  <2>0. def \in Plays /\ t \in Threads \cup {NoThread}
        /\ (t # NoThread => tt[t].phase = "free")
    BY <1>0, <1>8 DEF Spawnable
  <2>1. covers'[def] = FreshCover(t)
        /\ \A p \in Plays \ {def} : covers'[p] = Absent
    BY <1>8, <2>0 DEF ResetTo
  <2>2. /\ covers'[def].loader = t /\ covers'[def].st = "opening"
        /\ covers'[def].frame = 0 /\ covers'[def].id = nextId
        /\ \A p \in Plays \ {def} :
              /\ covers'[p].loader = NoThread /\ covers'[p].frame = 0
              /\ covers'[p].st = "absent"
    BY <2>0, <2>1, FreshFields DEF Absent
  <2>3. FramesReady' /\ ViewsHeld' /\ DownClean'
    BY <1>2, <1>4, <1>5, <2>0, <2>2 DEF FramesReady, ViewsHeld, DownClean
  <2>4. IdsDistinct'
    BY <1>8, <2>2 DEF IdsDistinct, Present, TypeOK
  <2>5. CASE t = NoThread
    <3>1. threads' = tt
      BY <1>8, <2>5 DEF Spawn
    <3>2. LoadersHeld'
      BY <2>2, <2>5 DEF LoadersHeld
    <3>3. ThreadsKept'
      BY <1>0, <1>3, <2>2, <2>5, <3>1 DEF ThreadsKept
    <3> QED BY <1>1, <2>3, <2>4, <3>2, <3>3
  <2>6. CASE t # NoThread
    <3>1. t \in Threads /\ t \notin retired'
      BY <1>3, <2>0, <2>6
    <3>2. /\ threads'[t].phase = "open" /\ threads'[t].play = def
          /\ threads'[t].cfg = new
          /\ \A u \in Threads \ {t} : threads'[u] = tt[u]
      BY <1>6, <1>8, <2>6, <3>1 DEF Spawn, NewThread, FreeThread
    <3>3. LoadersHeld'
      BY <1>2, <2>2, <2>6, <3>1, <3>2 DEF LoadersHeld
    <3>4. ThreadsKept'
      <4> SUFFICES ASSUME NEW u \in Threads
                   PROVE  threads'[u].phase # "free" <=>
                             u \in retired' \/ \E q \in Plays : covers'[q].loader = u
        BY DEF ThreadsKept
      <4>1. CASE u = t
        BY <2>0, <2>2, <3>2, <4>1
      <4>2. CASE u # t
        BY <1>0, <1>3, <2>2, <3>2, <4>2
      <4> QED BY <4>1, <4>2
    <3> QED BY <1>1, <2>3, <2>4, <3>3, <3>4
  <2> QED BY <2>5, <2>6
<1> QED BY <1>7, <1>8 DEF PushNew

\* A window's rule opens a cover outside of frames.
LEMMA WarmInv ==
    ASSUME IInv, NEW p \in Plays, Warm(p), TypeOK'
    PROVE  IInv'
<1> USE DEF IInv
<1>1. PICK t \in Spawnable(threads) :
         /\ covers' = [covers EXCEPT ![p] = FreshCover(t)]
         /\ threads' = Spawn(threads, t, p, settings)
  BY DEF Warm
<1>2. /\ covers[p].st = "absent" /\ covers[p].loader = NoThread
      /\ nextId' = nextId + 1 /\ up /\ ~inFrame
      /\ UNCHANGED <<up, settings, retired, joining, inFrame, views>>
  BY DEF Warm, LoadersHeld
<1>3. LoadersHeld' /\ ThreadsKept'
  BY <1>1, <1>2, FreshFields, OpensLoader
<1>4. covers'[p] = FreshCover(t) /\ \A q \in Plays \ {p} : covers'[q] = covers[q]
  BY <1>1 DEF TypeOK
<1>5. FramesReady' /\ DownClean'
  BY <1>2, <1>4, FreshFields DEF FramesReady, DownClean
<1>6. ViewsHeld'
  BY <1>2 DEF ViewsHeld
<1>7. IdsDistinct'
  <2>1. nextId \in Nat /\ \A q \in Plays : covers[q].id \in Nat
    BY DEF TypeOK, Cover
  <2>2. \A q \in Present' \ {p} : q \in Present /\ covers'[q].id = covers[q].id
    BY <1>4 DEF Present
  <2>3. covers'[p].id = nextId
    BY <1>4, FreshFields
  <2> QED BY <1>2, <2>1, <2>2, <2>3 DEF IdsDistinct, Present
<1> QED BY <1>3, <1>5, <1>6, <1>7

\* Eviction at the end of a frame.
LEMMA EndFrameInv ==
    ASSUME IInv, EndFrame, TypeOK'
    PROVE  IInv'
<1> USE DEF IInv
<1>0. /\ NoThread \notin Threads /\ Stale \in SUBSET Plays
      /\ up /\ inFrame /\ ~inFrame'
      /\ retired' = retired \cup ToPark(Stale)
      /\ threads' = AfterRetire(Stale)
      /\ UNCHANGED <<up, settings, nextId, joining>>
  BY RegistryAssumption DEF EndFrame, Stale, Present
<1>1. /\ \A p \in Stale : /\ covers'[p].loader = NoThread
                          /\ covers'[p].frame = 0
                          /\ covers'[p].st = "absent"
      /\ \A p \in Plays \ Stale : covers'[p] = covers[p]
  BY <1>0 DEF EndFrame, Absent
<1>2. \A p \in Plays : views'[p] = 0
  BY DEF EndFrame
<1>3. FramesReady' /\ ViewsHeld' /\ DownClean'
  BY <1>0, <1>1, <1>2 DEF FramesReady, ViewsHeld, DownClean
<1>4. IdsDistinct'
  <2>1. \A p \in Present' : p \in Present /\ covers'[p].id = covers[p].id
    BY <1>0, <1>1 DEF Present
  <2> QED BY <1>0, <2>1 DEF IdsDistinct
<1>5. LoadersHeld'
  <2> SUFFICES ASSUME NEW p \in Plays \ Stale, covers[p].loader # NoThread
               PROVE  /\ covers'[p].st = "opening"
                      /\ threads'[covers[p].loader].phase # "free"
                      /\ threads'[covers[p].loader].play = p
                      /\ threads'[covers[p].loader].cfg = settings
                      /\ covers[p].loader \notin retired'
                      /\ \A q \in Plays \ {p} : covers'[q].loader # covers[p].loader
    BY <1>0, <1>1 DEF LoadersHeld
  <2>1. covers[p].loader \in Threads
    BY DEF TypeOK, Cover
  <2>2. covers[p].loader \notin LoadersOf(Stale)
    BY <1>0, <2>1, RetireEffect DEF LoadersHeld
  <2>3. threads'[covers[p].loader] = threads[covers[p].loader]
        /\ covers[p].loader \notin ToPark(Stale)
    BY <1>0, <2>1, <2>2, RetireEffect
  <2> QED BY <1>0, <1>1, <2>3 DEF LoadersHeld
<1>6. ThreadsKept'
  <2> SUFFICES ASSUME NEW u \in Threads
               PROVE  threads'[u].phase # "free" <=>
                         u \in retired' \/ \E q \in Plays : covers'[q].loader = u
    BY DEF ThreadsKept
  <2>1. u # NoThread
    BY <1>0
  <2>2. CASE u \in LoadersOf(Stale)
    <3>1. PICK p \in Stale : covers[p].loader = u
      BY <1>0, <2>2, RetireEffect
    <3>2. u \notin retired /\ \A q \in Plays \ {p} : covers[q].loader # u
      BY <1>0, <2>1, <3>1 DEF LoadersHeld
    <3>3. \A q \in Plays : covers'[q].loader # u
      BY <1>0, <1>1, <2>1, <3>1, <3>2
    <3> QED BY <1>0, <2>2, <3>2, <3>3, RetireEffect
  <2>3. CASE u \notin LoadersOf(Stale)
    <3>1. threads'[u] = threads[u] /\ u \notin ToPark(Stale)
          /\ \A p \in Stale : covers[p].loader # u
      BY <1>0, <2>3, RetireEffect
    <3>2. (\E q \in Plays : covers'[q].loader = u)
             <=> (\E q \in Plays : covers[q].loader = u)
      BY <1>0, <1>1, <2>1, <3>1
    <3> QED BY <1>0, <3>1, <3>2 DEF ThreadsKept
  <2> QED BY <2>2, <2>3
<1> QED BY <1>3, <1>4, <1>5, <1>6

\* Unloading hands every loader over to be dropped.
LEMMA ShutdownInv ==
    ASSUME IInv, Shutdown, TypeOK'
    PROVE  IInv'
<1> USE DEF IInv
<1>0. /\ NoThread \notin Threads
      /\ up /\ ~inFrame /\ joining = NoThread
      /\ retired' = retired \cup LoadersOf(Plays)
      /\ UNCHANGED <<threads, nextId, joining, inFrame, views>>
  BY RegistryAssumption DEF Shutdown, DownClean
<1>1. \A p \in Plays : /\ covers'[p] = Absent
                       /\ covers'[p].loader = NoThread
                       /\ covers'[p].frame = 0
                       /\ covers'[p].st = "absent"
  BY DEF Shutdown, Absent
<1>2. LoadersHeld' /\ FramesReady' /\ IdsDistinct' /\ DownClean'
  BY <1>0, <1>1 DEF LoadersHeld, FramesReady, IdsDistinct, DownClean, Present
<1>3. ViewsHeld'
  BY <1>0 DEF ViewsHeld
<1>4. ThreadsKept'
  <2> SUFFICES ASSUME NEW u \in Threads
               PROVE  threads[u].phase # "free" <=>
                         u \in retired \/ u \in LoadersOf(Plays)
    BY <1>0, <1>1 DEF ThreadsKept
  <2> QED BY <1>0, RetireEffect DEF ThreadsKept
<1> QED BY <1>2, <1>3, <1>4

\* The start of a frame reaps parked loaders that have finished.
LEMMA BeginFrameInv ==
    ASSUME IInv, BeginFrame, TypeOK'
    PROVE  IInv'
<1> USE DEF IInv
<1> DEFINE reaped == {t \in retired : Finished(t)}
<1>0. /\ NoThread \notin Threads /\ retired \subseteq Threads
      /\ up /\ ~inFrame /\ inFrame'
      /\ retired' = retired \ reaped
      /\ \A t \in Threads : threads'[t] = IF t \in reaped THEN FreeThread ELSE threads[t]
      /\ UNCHANGED <<up, settings, nextId, joining>>
  BY RegistryAssumption DEF BeginFrame, TypeOK
<1>1. \A p \in Plays : /\ covers'[p].loader = covers[p].loader
                       /\ covers'[p].st = covers[p].st
                       /\ covers'[p].frame = covers[p].frame
                       /\ covers'[p].cfg = covers[p].cfg
                       /\ covers'[p].id = covers[p].id
  BY DEF BeginFrame, TypeOK, Cover
<1>2. \A p \in Plays : views'[p] = 0
  BY DEF BeginFrame
<1>3. FramesReady' /\ ViewsHeld' /\ DownClean'
  BY <1>0, <1>1, <1>2 DEF FramesReady, ViewsHeld, DownClean
<1>4. IdsDistinct'
  BY <1>0, <1>1 DEF IdsDistinct, Present
<1>5. LoadersHeld'
  <2>1. \A p \in Plays : covers[p].loader # NoThread =>
           /\ covers[p].loader \in Threads
           /\ threads'[covers[p].loader] = threads[covers[p].loader]
    BY <1>0 DEF LoadersHeld, TypeOK, Cover
  <2> QED BY <1>0, <1>1, <2>1 DEF LoadersHeld
<1>6. ThreadsKept'
  <2> SUFFICES ASSUME NEW u \in Threads
               PROVE  threads'[u].phase # "free" <=>
                         u \in retired' \/ \E q \in Plays : covers[q].loader = u
    BY <1>1 DEF ThreadsKept
  <2>1. CASE u \in reaped
    <3>1. threads'[u].phase = "free" /\ u \notin retired'
      BY <1>0, <2>1 DEF FreeThread
    <3>2. \A q \in Plays : covers[q].loader # u
      BY <1>0, <2>1 DEF LoadersHeld
    <3> QED BY <3>1, <3>2
  <2>2. CASE u \notin reaped
    BY <1>0, <2>2 DEF ThreadsKept
  <2> QED BY <2>1, <2>2
<1> QED BY <1>3, <1>4, <1>5, <1>6

\* The drop of a loader on unload.
LEMMA DropInv ==
    ASSUME IInv, TypeOK', JoinLoader \/ \E t \in Threads : DropLoader(t)
    PROVE  IInv'
<1> USE DEF IInv
<1>0. NoThread \notin Threads
  BY RegistryAssumption
<1>1. CASE JoinLoader
  <2>1. /\ ~up /\ joining \in retired /\ joining \in Threads
        /\ retired' = retired \ {joining} /\ joining' = NoThread
        /\ \A p \in Plays : covers[p] = Absent
        /\ UNCHANGED <<up, settings, covers, nextId, inFrame, views>>
    BY <1>0, <1>1 DEF JoinLoader, DownClean, TypeOK
  <2>2. \A p \in Plays : covers[p].loader = NoThread
    BY <2>1 DEF Absent
  <2>3. /\ threads'[joining].phase = "free"
        /\ \A u \in Threads \ {joining} : threads'[u] = threads[u]
    BY <1>1, <2>1 DEF JoinLoader, Joined, FreeThread, TypeOK
  <2>4. ThreadsKept' /\ LoadersHeld'
    BY <1>0, <2>1, <2>2, <2>3 DEF ThreadsKept, LoadersHeld
  <2>5. FramesReady' /\ ViewsHeld' /\ IdsDistinct' /\ DownClean'
    BY <2>1 DEF FramesReady, ViewsHeld, IdsDistinct, DownClean, Present
  <2> QED BY <2>4, <2>5
<1>2. ASSUME NEW t \in Threads, DropLoader(t)
      PROVE  IInv'
  <2>1. /\ ~up /\ t \in retired /\ joining' = t
        /\ UNCHANGED <<up, settings, covers, nextId, retired, inFrame, views>>
    BY <1>2 DEF DropLoader
  <2>2. \A u \in Threads : /\ threads'[u].phase = threads[u].phase
                           /\ threads'[u].play = threads[u].play
                           /\ threads'[u].cfg = threads[u].cfg
    BY <1>2 DEF DropLoader, TypeOK, Thread
  <2>3. \A p \in Plays : covers[p].loader \in Threads \cup {NoThread}
    BY DEF TypeOK, Cover
  <2>4. LoadersHeld' /\ ThreadsKept'
    BY <2>1, <2>2, <2>3 DEF LoadersHeld, ThreadsKept
  <2>5. FramesReady' /\ ViewsHeld' /\ IdsDistinct' /\ DownClean'
    BY <2>1 DEF FramesReady, ViewsHeld, IdsDistinct, DownClean, Present
  <2> QED BY <2>4, <2>5
<1> QED BY <1>1, <1>2

\* A step of a thread keeps its job and never frees or starts it.
LEMMA ThreadEffect ==
    ASSUME TypeOK, NEW t \in Threads, ThreadNext(t)
    PROVE  /\ \A u \in Threads : /\ threads'[u].play = threads[u].play
                                 /\ threads'[u].cfg = threads[u].cfg
                                 /\ threads'[u].phase = "free"
                                       <=> threads[u].phase = "free"
           /\ UNCHANGED <<up, settings, covers, nextId, retired, joining, inFrame,
                          views>>
<1> DEFINE Same ==
      /\ \A u \in Threads : /\ threads'[u].play = threads[u].play
                            /\ threads'[u].cfg = threads[u].cfg
                            /\ threads'[u].phase = "free"
                                  <=> threads[u].phase = "free"
      /\ UNCHANGED <<up, settings, covers, nextId, retired, joining, inFrame, views>>
<1>0. threads[t] \in Thread
  BY DEF TypeOK
<1>1. ASSUME NEW th, ThreadStep(t, th), th.phase # "free",
             threads[t].phase # "free",
             th.play = threads[t].play, th.cfg = threads[t].cfg
      PROVE  Same
  BY <1>1 DEF ThreadStep, TypeOK
<1>2. ASSUME NEW r, NEW a
      PROVE  LET th == [threads[t] EXCEPT !.phase = "sent", !.res = r]
                 ta == [threads[t] EXCEPT !.phase = "sent", !.res = r, !.anim = a]
             IN  /\ th.phase = "sent" /\ th.play = threads[t].play
                 /\ th.cfg = threads[t].cfg
                 /\ ta.phase = "sent" /\ ta.play = threads[t].play
                 /\ ta.cfg = threads[t].cfg
  BY <1>0 DEF Thread
<1>3. ASSUME NEW ph
      PROVE  LET th == [threads[t] EXCEPT !.phase = ph]
             IN  th.phase = ph /\ th.play = threads[t].play /\ th.cfg = threads[t].cfg
  BY <1>0 DEF Thread
<1>4. ASSUME ThreadNext(t)
      PROVE  threads[t].phase # "free"
  BY <1>4 DEF ThreadNext, ThreadOpen, ThreadFrame, ThreadCancelled, ThreadDeadline,
              GivesUp, ThreadDone
<1>5. ASSUME NEW r, ThreadStep(t, [threads[t] EXCEPT !.phase = "sent", !.res = r])
      PROVE  Same
  BY <1>1, <1>2, <1>4, <1>5
<1>6. ASSUME NEW r, NEW a,
             ThreadStep(t, [threads[t] EXCEPT !.phase = "sent", !.res = r, !.anim = a])
      PROVE  Same
  <2> DEFINE ta == [threads[t] EXCEPT !.phase = "sent", !.res = r, !.anim = a]
  <2>1. ta.phase # "free" /\ ta.play = threads[t].play /\ ta.cfg = threads[t].cfg
    BY <1>0 DEF Thread
  <2>2. ThreadStep(t, ta) /\ threads[t].phase # "free"
    BY <1>4, <1>6
  <2> HIDE DEF ta, Same
  <2> QED BY <1>1, <2>1, <2>2
<1>7. ASSUME NEW ph, ph # "free", ThreadStep(t, [threads[t] EXCEPT !.phase = ph])
      PROVE  Same
  BY <1>1, <1>3, <1>4, <1>7
<1>8. CASE ThreadOpen(t)
  BY <1>5, <1>7, <1>8 DEF ThreadOpen
<1>9. CASE ThreadFrame(t)
  <2>1. CASE \E a \in BOOLEAN :
                ThreadStep(t, [threads[t] EXCEPT !.phase = "sent",
                                                 !.res = "frame", !.anim = a])
    BY <1>6, <2>1
  <2>2. CASE ThreadStep(t, [threads[t] EXCEPT !.phase = "sent", !.res = "error"])
    BY <1>5, <2>2
  <2> QED BY <1>9, <2>1, <2>2 DEF ThreadFrame
<1>10. CASE ThreadCancelled(t) \/ ThreadDeadline(t)
  BY <1>6, <1>10 DEF ThreadCancelled, ThreadDeadline, GivesUp
<1>11. CASE ThreadDone(t)
  BY <1>7, <1>11 DEF ThreadDone
<1> QED BY <1>8, <1>9, <1>10, <1>11 DEF ThreadNext

LEMMA ThreadNextInv ==
    ASSUME IInv, NEW t \in Threads, ThreadNext(t), TypeOK'
    PROVE  IInv'
<1> USE DEF IInv
<1>1. \A p \in Plays : covers[p].loader \in Threads \cup {NoThread}
  BY DEF TypeOK, Cover
<1>2. LoadersHeld'
  BY <1>1, ThreadEffect DEF LoadersHeld
<1>3. ThreadsKept'
  BY ThreadEffect DEF ThreadsKept
<1>4. FramesReady' /\ ViewsHeld' /\ IdsDistinct' /\ DownClean'
  BY ThreadEffect DEF FramesReady, ViewsHeld, IdsDistinct, DownClean, Present
<1> QED BY <1>2, <1>3, <1>4

\* Steps that leave loaders, threads, frames and ids alone.
LEMMA QuietInv ==
    ASSUME IInv, TypeOK',
           UNCHANGED <<up, nextId, threads, retired, joining, inFrame, views, settings>>,
           \A p \in Plays :
              /\ covers'[p].loader = covers[p].loader
              /\ covers'[p].st = covers[p].st
              /\ covers'[p].frame = covers[p].frame
              /\ covers'[p].polled = covers[p].polled
              /\ covers'[p].cfg = covers[p].cfg
              /\ covers'[p].id = covers[p].id
              /\ covers[p] = Absent => covers'[p] = Absent
    PROVE  IInv'
BY DEF IInv, LoadersHeld, ThreadsKept, DownClean, FramesReady, ViewsHeld,
       IdsDistinct, Present

LEMMA TickInv ==
    ASSUME IInv, Tick, TypeOK'
    PROVE  IInv'
<1>1. ASSUME NEW p \in Plays
      PROVE  /\ covers'[p].loader = covers[p].loader
             /\ covers'[p].st = covers[p].st
             /\ covers'[p].frame = covers[p].frame
             /\ covers'[p].polled = covers[p].polled
             /\ covers'[p].cfg = covers[p].cfg
             /\ covers'[p].id = covers[p].id
             /\ covers[p] = Absent => covers'[p] = Absent
  <2>1. covers[p] \in Cover
    BY DEF IInv, TypeOK
  <2>2. covers[p] = Absent => covers[p].st = "absent"
    BY DEF Absent
  <2> QED BY <2>1, <2>2 DEF Tick, Cover
<1> QED BY <1>1, QuietInv DEF Tick

-----------------------------------------------------------------------------
(* The theorems *)

LEMMA InvInit == Init => IInv
<1> SUFFICES ASSUME Init PROVE IInv
  OBVIOUS
<1>0. NoThread \notin Threads
  BY RegistryAssumption
<1>1. TypeOK
  BY InitType
<1>2. \A p \in Plays : /\ covers[p].loader = NoThread /\ covers[p].frame = 0
                       /\ covers[p].st = "absent" /\ views[p] = 0
  BY DEF Init, Absent
<1>3. \A t \in Threads : threads[t].phase = "free"
  BY DEF Init, FreeThread
<1>4. LoadersHeld /\ FramesReady /\ ViewsHeld /\ IdsDistinct
  BY <1>2 DEF LoadersHeld, FramesReady, ViewsHeld, IdsDistinct, Present
<1>5. ThreadsKept /\ DownClean
  BY <1>0, <1>2, <1>3 DEF Init, ThreadsKept, DownClean
<1> QED BY <1>1, <1>4, <1>5 DEF IInv

LEMMA InvStep ==
    ASSUME IInv, [Next]_vars
    PROVE  IInv'
<1>0. TypeOK'
  BY TypeStep DEF IInv
<1>1. ASSUME NEW r \in Raws, PushSame(r)
      PROVE  IInv'
  BY <1>0, <1>1, QuietInv DEF PushSame
<1>2. ASSUME NEW r \in Raws, PushNew(r)
      PROVE  IInv'
  BY <1>2, PushNewInv
<1>3. ASSUME NEW p \in Plays, Warm(p)
      PROVE  IInv'
  BY <1>0, <1>3, WarmInv
<1>4. ASSUME NEW p \in Plays, Resolve(p)
      PROVE  IInv'
  BY <1>4, ResolveInv
<1>5. ASSUME NEW p \in Plays, FileChange(p)
      PROVE  IInv'
  BY <1>0, <1>5, QuietInv DEF FileChange
<1>6. CASE BeginFrame
  BY <1>0, <1>6, BeginFrameInv
<1>7. CASE EndFrame
  BY <1>0, <1>7, EndFrameInv
<1>8. CASE Shutdown
  BY <1>0, <1>8, ShutdownInv
<1>9. CASE JoinLoader \/ \E t \in Threads : DropLoader(t)
  BY <1>0, <1>9, DropInv
<1>10. ASSUME NEW t \in Threads, ThreadNext(t)
       PROVE  IInv'
  BY <1>0, <1>10, ThreadNextInv
<1>11. CASE Tick
  BY <1>0, <1>11, TickInv
<1>12. CASE UNCHANGED vars
  BY <1>0, <1>12, QuietInv DEF vars
<1> QED
  BY <1>1, <1>2, <1>3, <1>4, <1>5, <1>6, <1>7, <1>8, <1>9, <1>10, <1>11, <1>12
     DEF Next, Stopped

\* The invariant holds in every reachable state of every instance.
THEOREM InvCorrect == Spec => []IInv
<1>1. Init => IInv
  BY InvInit
<1>2. IInv /\ [Next]_vars => IInv'
  BY InvStep
<1> QED BY <1>1, <1>2, PTL DEF Spec

\* No loader thread of the core is leaked or joined twice: while it runs, exactly
\* one cover, or the list of parked loaders, will join it.
THEOREM ThreadsOwnedCorrect == Spec => []ThreadsOwned
<1>1. IInv => ThreadsOwned
  <2> SUFFICES ASSUME IInv, NEW t \in Threads
               PROVE  IF threads[t].phase = "free"
                      THEN t \notin retired /\ Holders(t) = {}
                      ELSE \/ t \in retired /\ Holders(t) = {}
                           \/ t \notin retired /\ \E p \in Plays : Holders(t) = {p}
    BY DEF ThreadsOwned
  <2>0. t # NoThread
    BY RegistryAssumption
  <2>1. CASE threads[t].phase = "free"
    BY <2>1 DEF IInv, ThreadsKept, Holders
  <2>2. CASE t \in retired
    BY <2>0, <2>2 DEF IInv, ThreadsKept, LoadersHeld, Holders
  <2>3. CASE threads[t].phase # "free" /\ t \notin retired
    <3>1. PICK p \in Plays : covers[p].loader = t
      BY <2>3 DEF IInv, ThreadsKept
    <3>2. \A q \in Plays \ {p} : covers[q].loader # t
      BY <2>0, <3>1 DEF IInv, LoadersHeld
    <3>3. Holders(t) = {p}
      BY <3>1, <3>2 DEF Holders
    <3> QED BY <2>3, <3>3
  <2> QED BY <2>1, <2>2, <2>3 DEF IInv, ThreadsKept
<1> QED BY <1>1, InvCorrect, PTL

\* Nothing opened before a settings change is shown after it.
THEOREM CurrentSettingsCorrect == Spec => []CurrentSettings
<1>1. IInv => CurrentSettings
  BY DEF IInv, CurrentSettings, LoadersHeld, FramesReady
<1> QED BY <1>1, InvCorrect, PTL

\* Two covers never share the id their textures are cached under, and every id
\* in use has been passed by the counter that hands out the next one.
THEOREM IdsDistinctCorrect == Spec => []IdsDistinct
<1>1. IInv => IdsDistinct
  BY DEF IInv
<1> QED BY <1>1, InvCorrect, PTL

\* The frame nsc_resolve handed out stays the cover's until the frame ends.
THEOREM ViewsStayValidCorrect == Spec => ViewsStayValid
<1> DEFINE Stay == \A p \in Plays : views[p] # 0 /\ inFrame' =>
                      covers'[p].frame = views[p] /\ covers'[p].id = covers[p].id
<1>1. IInv /\ [Next]_vars => Stay
  <2> SUFFICES ASSUME IInv, [Next]_vars,
                      NEW p \in Plays, views[p] # 0, inFrame'
               PROVE  covers'[p].frame = views[p] /\ covers'[p].id = covers[p].id
    OBVIOUS
  <2>1. /\ inFrame /\ up /\ covers[p].st = "ready" /\ covers[p].polled
        /\ covers[p].frame = views[p] /\ covers[p] \in Cover
        /\ covers[p].cfg = settings /\ covers[p].loader = NoThread
    BY DEF IInv, ViewsHeld, DownClean, FramesReady, LoadersHeld, TypeOK
  <2>2. ASSUME NEW q \in Plays, Resolve(q)
        PROVE  covers'[p].frame = views[p] /\ covers'[p].id = covers[p].id
    <3>1. CASE q = p
      <4>1. PollReady(p, covers[p]) /\ nextId' = nextId
        BY <2>1, <2>2, <3>1
           DEF Resolve, ResolveAbsent, ResolveMissing, ResolveOpening, ResolveReady,
               ResolveFailed
      <4> QED BY <2>1, <4>1, PollReadyInv DEF IInv
    <3>2. CASE q # p
      <4>1. \E c : Stores(q, c)
        BY <2>2 DEF Resolve, ResolveAbsent, ResolveMissing, ResolveOpening,
                    ResolveReady, ResolveFailed, OpenOn, PollReady
      <4>2. covers'[p] = covers[p]
        BY <3>2, <4>1 DEF Stores, IInv, TypeOK
      <4> QED BY <2>1, <4>2
    <3> QED BY <3>1, <3>2
  <2>3. ASSUME NEW t \in Threads, ThreadNext(t)
        PROVE  covers' = covers
    BY <2>3, ThreadEffect DEF IInv
  <2>4. CASE UNCHANGED covers
    BY <2>1, <2>4
  <2> QED
    BY <2>1, <2>2, <2>3, <2>4
       DEF Next, Stopped, PushSame, PushNew, Warm, BeginFrame, EndFrame, Shutdown,
           JoinLoader, DropLoader, Tick, FileChange, vars
<1>2. [][Stay]_vars <=> ViewsStayValid
  BY PTL DEF ViewsStayValid
<1> QED BY <1>1, <1>2, InvCorrect, PTL DEF Spec

\* No call of the compositor's thread waits for a loader that is still opening a
\* file or waiting for its first frame.
THEOREM NeverJoinsWorkingCorrect == Spec => NeverJoinsWorking
<1> DEFINE Stay == \A t \in Threads : threads[t].phase \in {"open", "poll"} =>
                      /\ threads'[t].phase # "free"
                      /\ threads'[t].play = threads[t].play
<1>0. ASSUME TypeOK, NEW S \in SUBSET Plays, NEW t \in Threads,
                    threads[t].phase \in {"open", "poll"}
      PROVE  AfterRetire(S)[t].phase = threads[t].phase
             /\ AfterRetire(S)[t].play = threads[t].play
  <2>1. ~Finished(t)
    BY <1>0, RegistryAssumption DEF Finished
  <2>2. threads[t] \in Thread
    BY <1>0 DEF TypeOK
  <2> QED BY <2>1, <2>2 DEF AfterRetire, ToPark, Thread
<1>1. ASSUME NEW tt \in [Threads -> Thread], NEW u \in Spawnable(tt), NEW p, NEW s,
             NEW t \in Threads, tt[t].phase \in {"open", "poll"}
      PROVE  Spawn(tt, u, p, s)[t] = tt[t]
  BY <1>1 DEF Spawn, Spawnable
<1>2. IInv /\ [Next]_vars => Stay
  <2> SUFFICES ASSUME IInv, [Next]_vars, NEW t \in Threads,
                    threads[t].phase \in {"open", "poll"}
               PROVE  threads'[t].phase # "free" /\ threads'[t].play = threads[t].play
    OBVIOUS
  <2> DEFINE Goal == threads'[t].phase # "free" /\ threads'[t].play = threads[t].play
  <2>1. TypeOK /\ threads \in [Threads -> Thread] /\ threads[t].phase # "free"
        /\ ~Finished(t) /\ t # NoThread
    BY RegistryAssumption DEF IInv, TypeOK, Finished
  <2>2. ASSUME NEW r \in Raws, PushNew(r)
        PROVE  Goal
    <3> DEFINE tt == AfterRetire(Plays)
    <3>1. tt \in [Threads -> Thread] /\ tt[t].phase = threads[t].phase
          /\ tt[t].play = threads[t].play
      BY <1>0, <2>1, RetireType
    <3>2. threads' = tt \/ \E u \in Spawnable(tt) : \E p, s : threads' = Spawn(tt, u, p, s)
      BY <2>2 DEF PushNew
    <3> QED BY <1>1, <2>1, <3>1, <3>2
  <2>3. ASSUME NEW p \in Plays, Warm(p)
        PROVE  Goal
    BY <1>1, <2>1, <2>3 DEF Warm
  <2>4. ASSUME NEW p \in Plays, Resolve(p)
        PROVE  Goal
    <3>1. \/ threads' = threads
          \/ \E u \in Spawnable(threads) : threads' = Spawn(threads, u, p, settings)
          \/ /\ Sent(covers[p].loader)
             /\ threads' = Joined(threads, covers[p].loader)
      BY <2>4 DEF Resolve, ResolveAbsent, ResolveMissing, ResolveOpening,
                  ResolveReady, ResolveFailed, OpenOn
    <3>2. ASSUME Sent(covers[p].loader)
          PROVE  Joined(threads, covers[p].loader)[t] = threads[t]
      BY <2>1, <3>2 DEF Sent, Joined
    <3> QED BY <1>1, <2>1, <3>1, <3>2
  <2>5. CASE BeginFrame
    BY <2>1, <2>5 DEF BeginFrame
  <2>6. CASE EndFrame
    BY <1>0, <2>1, <2>6 DEF EndFrame, Stale, Present
  <2>7. CASE JoinLoader
    BY <2>1, <2>7 DEF JoinLoader, Joined, Finished
  <2>8. ASSUME NEW u \in Threads, DropLoader(u)
        PROVE  Goal
    BY <2>1, <2>8 DEF DropLoader, Thread
  <2>9. ASSUME NEW u \in Threads, ThreadNext(u)
        PROVE  Goal
    BY <2>1, <2>9, ThreadEffect
  <2>10. CASE threads' = threads
    BY <2>1, <2>10
  <2> QED
    BY <2>2, <2>3, <2>4, <2>5, <2>6, <2>7, <2>8, <2>9, <2>10
       DEF Next, Stopped, PushSame, Shutdown, Tick, FileChange, vars
<1>3. [][Stay]_vars <=> NeverJoinsWorking
  BY PTL DEF NeverJoinsWorking
<1> QED BY <1>2, <1>3, InvCorrect, PTL DEF Spec


-----------------------------------------------------------------------------
(* What the user hears.  The queue keeps the latest QueueCap messages, and a  *)
(* message is pushed in a frame only when the cover it is about settles, which *)
(* happens to a cover once per frame: as long as there are no more covers than *)
(* places in the queue, the messages of a frame are still in it when the frame *)
(* ends and everything is shown.                                               *)

\* The n latest messages of the queue.
Recent(n) == {queue[i] : i \in (Len(queue) - n + 1) .. Len(queue)}

\* Nothing more happens to such a cover in this frame, and it has been reported.
SettledCover(c) == c.st = "failed" \/ (c.st = "missing" /\ c.retryIn # 0)
Settled == {p \in Plays : SettledCover(covers[p])}

\* A missing cover, or one that is silently tried again.
OwesMissing(c) == c.st = "missing" \/ (c.st = "opening" /\ c.retry)

Explains(S, p, c) ==
    /\ c.st = "failed" => S \cap {Error(p), LoaderMsg} # {}
    /\ OwesMissing(c) => Missing(p) \in S

\* A message that is not repeated because it was the last one is known.
Repeats(S) == last = NoMsg \/ last \in ({"config"} \X Raws) \/ last \in S

ToldBy(n) ==
    /\ n <= IF inFrame THEN Cardinality(Settled) ELSE 0
    /\ \A p \in Plays : Explains(told \cup Recent(n), p, covers[p])
    /\ Repeats(told \cup Recent(n))
ToldInv == \E n \in 0 .. Len(queue) : ToldBy(n)

\* One more message: the window of the latest ones grows by it, whether or not
\* the oldest message of the queue has to go.
LEMMA RecentGrows ==
    ASSUME NEW q \in Seq(Msgs), NEW m \in Msgs, NEW n \in 0 .. Len(q), n < QueueCap
    PROVE  LET b == Bounded(q, m)
           IN  /\ n + 1 \in 0 .. Len(b)
               /\ {b[i] : i \in (Len(b) - (n + 1) + 1) .. Len(b)}
                    = {q[i] : i \in (Len(q) - n + 1) .. Len(q)} \cup {m}
<1> DEFINE b == Bounded(q, m)
           k == IF Len(q) >= QueueCap THEN 1 ELSE 0
<1>0. QueueCap \in Nat \ {0} /\ n \in Nat /\ n <= Len(q) /\ Len(q) \in Nat
  BY RegistryAssumption
<1>1. /\ Len(b) = Len(q) + 1 - k
      /\ b[Len(b)] = m
      /\ \A i \in 1 .. (Len(b) - 1) : b[i] = q[i + k]
  <2>1. CASE Len(q) >= QueueCap
    <3>1. q # <<>>
      BY <1>0, <2>1
    <3>2. Tail(q) \in Seq(Msgs) /\ Len(Tail(q)) = Len(q) - 1
      BY <3>1
    <3>3. \A i \in 1 .. Len(Tail(q)) : Tail(q)[i] = q[i + 1]
      BY <3>1
    <3>4. b = Append(Tail(q), m)
      BY <2>1 DEF Bounded
    <3>5. Len(b) = Len(q) /\ b[Len(b)] = m
      BY <3>2, <3>4
    <3>6. \A i \in 1 .. Len(Tail(q)) : b[i] = Tail(q)[i]
      BY <3>2, <3>4
    <3> HIDE DEF b
    <3> QED BY <2>1, <3>2, <3>3, <3>5, <3>6
  <2>2. CASE ~(Len(q) >= QueueCap)
    <3>1. b = Append(q, m)
      BY <2>2 DEF Bounded
    <3>2. Len(b) = Len(q) + 1 /\ b[Len(b)] = m /\ \A i \in 1 .. Len(q) : b[i] = q[i]
      BY <3>1
    <3> HIDE DEF b
    <3> QED BY <2>2, <3>2
  <2> QED BY <2>1, <2>2
<1>2. k \in {0, 1} /\ n + 1 <= Len(q) + 1 - k
  BY <1>0
<1> HIDE DEF b, k
<1> DEFINE W == {b[i] : i \in (Len(b) - (n + 1) + 1) .. Len(b)}
           V == {q[i] : i \in (Len(q) - n + 1) .. Len(q)}
<1>3. W \subseteq V \cup {m}
  <2> SUFFICES ASSUME NEW i \in (Len(b) - (n + 1) + 1) .. Len(b), i # Len(b)
               PROVE  b[i] \in V
    BY <1>1
  <2>1. i \in 1 .. (Len(b) - 1) /\ i + k \in (Len(q) - n + 1) .. Len(q)
    BY <1>0, <1>1, <1>2
  <2>2. b[i] = q[i + k]
    BY <2>1, <1>1
  <2> QED BY <2>1, <2>2
<1>4. V \cup {m} \subseteq W
  <2>1. m \in W
    <3>1. Len(b) \in (Len(b) - (n + 1) + 1) .. Len(b)
      BY <1>0, <1>1, <1>2
    <3> QED BY <3>1, <1>1
  <2>2. ASSUME NEW j \in (Len(q) - n + 1) .. Len(q) PROVE q[j] \in W
    <3>1. /\ j - k \in 1 .. (Len(b) - 1)
          /\ j - k \in (Len(b) - (n + 1) + 1) .. Len(b)
          /\ (j - k) + k = j
      BY <1>0, <1>1, <1>2
    <3>2. b[j - k] = q[j]
      BY <3>1, <1>1
    <3> QED BY <3>1, <3>2
  <2> QED BY <2>1, <2>2
<1>5. n + 1 \in 0 .. Len(b)
  BY <1>0, <1>1, <1>2
<1> QED BY <1>3, <1>4, <1>5 DEF b

\* A resolve that says nothing leaves the cover in debt for no more than before.
Silent(c, d) ==
    /\ SettledCover(c) => SettledCover(d)
    /\ d.st = "failed" => c.st = "failed"
    /\ OwesMissing(d) => OwesMissing(c)

\* One that speaks settles the cover with the message it owes.
Speaks(p, c, d, m) ==
    /\ ~SettledCover(c) /\ SettledCover(d)
    /\ \/ d.st = "failed" /\ m \in {Error(p), LoaderMsg}
       \/ d.st = "missing" /\ m = Missing(p)

SaysNothing(p) == \E d \in Cover :
    /\ covers' = [covers EXCEPT ![p] = d]
    /\ Silent(covers[p], d)
    /\ UNCHANGED notes
SaysSomething(p) == \E d \in Cover, m \in Msgs :
    /\ covers' = [covers EXCEPT ![p] = d]
    /\ Speaks(p, covers[p], d, m)
    /\ Push(m)

\* The cover resolve leaves in the map, for what is said about it.
LEMMA StoresSaid ==
    ASSUME NEW p \in Plays, NEW c \in Cover, Stores(p, c)
    PROVE  \E d \in Cover :
             /\ covers' = [covers EXCEPT ![p] = d]
             /\ d.st = c.st /\ d.retry = c.retry /\ d.retryIn = c.retryIn
<1>1. 0 \in 0 .. EvictAfter
  BY RegistryAssumption
<1> DEFINE d == [c EXCEPT !.age = 0]
<1>2. d \in Cover /\ d.st = c.st /\ d.retry = c.retry /\ d.retryIn = c.retryIn
  BY <1>1 DEF Cover
<1>3. covers' = [covers EXCEPT ![p] = d]
  BY DEF Stores
<1> QED BY <1>2, <1>3

\* PollReady, for a cover of the state c that is the one in the map or was opening.
LEMMA PollSays ==
    ASSUME TypeOK, NEW p \in Plays, NEW c \in Cover, PollReady(p, c),
           c.st = "ready", ~SettledCover(covers[p])
    PROVE  SaysNothing(p) \/ SaysSomething(p)
<1>1. ASSUME NEW d \in Cover, d.st = "ready", Stores(p, d), UNCHANGED notes
      PROVE  SaysNothing(p)
  <2>1. PICK e \in Cover : covers' = [covers EXCEPT ![p] = e] /\ e.st = "ready"
    BY <1>1, StoresSaid
  <2>2. Silent(covers[p], e)
    BY <2>1 DEF Silent, OwesMissing
  <2> QED BY <1>1, <2>1, <2>2 DEF SaysNothing
<1>2. CASE Stores(p, c) /\ UNCHANGED notes
  BY <1>1, <1>2
<1>3. CASE Stores(p, [c EXCEPT !.polled = TRUE]) /\ UNCHANGED notes
  <2>1. [c EXCEPT !.polled = TRUE] \in Cover /\ [c EXCEPT !.polled = TRUE].st = "ready"
    BY DEF Cover
  <2> QED BY <1>1, <1>3, <2>1
<1>4. CASE /\ Stores(p, [c EXCEPT !.polled = TRUE, !.frame = IF @ = 1 THEN 2 ELSE 1])
           /\ UNCHANGED notes
  <2> DEFINE d == [c EXCEPT !.polled = TRUE, !.frame = IF @ = 1 THEN 2 ELSE 1]
  <2>1. (IF c.frame = 1 THEN 2 ELSE 1) \in 0..2
    OBVIOUS
  <2>2. d \in Cover /\ d.st = "ready"
    BY <2>1 DEF Cover
  <2> QED BY <1>1, <1>4, <2>2
<1>5. CASE Stores(p, [FailedCover(c) EXCEPT !.polled = TRUE]) /\ Push(Error(p))
  <2> DEFINE d == [FailedCover(c) EXCEPT !.polled = TRUE]
  <2>1. FailedCover(c) \in Cover /\ FailedCover(c).st = "failed"
    BY FailedType, FailedFields
  <2>2. d \in Cover /\ d.st = "failed" /\ Stores(p, d)
    BY <1>5, <2>1 DEF Cover
  <2> HIDE DEF d
  <2>3. PICK e \in Cover : covers' = [covers EXCEPT ![p] = e] /\ e.st = "failed"
    BY <2>2, StoresSaid
  <2>4. Speaks(p, covers[p], e, Error(p))
    BY <2>3 DEF Speaks, SettledCover
  <2> QED BY <1>5, <2>3, <2>4, MsgsOf DEF SaysSomething
<1> QED BY <1>2, <1>3, <1>4, <1>5 DEF PollReady

\* Opening a cover says nothing, unless the thread cannot be started.
LEMMA OpenSays ==
    ASSUME TypeOK, NEW p \in Plays, NEW c \in Cover, NEW t \in Threads \cup {NoThread},
           OpenOn(p, c, t), c.st = "opening", ~SettledCover(covers[p]),
           c.retry => covers[p].st = "missing"
    PROVE  SaysNothing(p) \/ SaysSomething(p)
<1>1. CASE t = NoThread
  <2>1. FailedCover(c) \in Cover /\ FailedCover(c).st = "failed"
    BY FailedType, FailedFields
  <2>2. Stores(p, FailedCover(c)) /\ Push(LoaderMsg)
    BY <1>1 DEF OpenOn
  <2>3. PICK e \in Cover : covers' = [covers EXCEPT ![p] = e] /\ e.st = "failed"
    BY <2>1, <2>2, StoresSaid
  <2>4. Speaks(p, covers[p], e, LoaderMsg)
    BY <2>3 DEF Speaks, SettledCover
  <2> QED BY <2>2, <2>3, <2>4, MsgsOf DEF SaysSomething
<1>2. CASE t # NoThread
  <2> DEFINE d == [c EXCEPT !.loader = t]
  <2>1. d \in Cover /\ d.st = "opening" /\ d.retry = c.retry
    BY DEF Cover
  <2>2. Stores(p, d) /\ UNCHANGED notes
    BY <1>2 DEF OpenOn
  <2> HIDE DEF d
  <2>3. PICK e \in Cover : /\ covers' = [covers EXCEPT ![p] = e]
                           /\ e.st = "opening" /\ e.retry = c.retry
    BY <2>1, <2>2, StoresSaid
  <2>4. Silent(covers[p], e)
    BY <2>3 DEF Silent, OwesMissing
  <2> QED BY <2>2, <2>3, <2>4 DEF SaysNothing
<1> QED BY <1>1, <1>2

\* Whatever a resolve finds, it says nothing that is owed or settles the cover
\* with the message (resolve, LoadResult::Missing, fail).
LEMMA ResolveSays ==
    ASSUME TypeOK, NEW p \in Plays, Resolve(p)
    PROVE  SaysNothing(p) \/ SaysSomething(p)
<1> DEFINE c == covers[p]
<1>0. c \in Cover
  BY DEF TypeOK
<1>1. CASE ResolveAbsent(p)
  <2>1. PICK t \in Threads \cup {NoThread} : OpenOn(p, FreshCover(t), t)
    BY <1>1 DEF ResolveAbsent
  <2>2. /\ FreshCover(t) \in Cover
        /\ FreshCover(t).st = "opening" /\ FreshCover(t).retry = FALSE
    BY FreshType DEF FreshCover, Absent
  <2>3. ~SettledCover(c)
    BY <1>1 DEF ResolveAbsent, SettledCover
  <2> QED BY <2>1, <2>2, <2>3, OpenSays
<1>2. CASE ResolveMissing(p)
  <2>1. CASE c.retryIn = 0 /\ exists[p]
    <3> DEFINE d == [c EXCEPT !.st = "opening", !.retry = TRUE]
    <3>1. PICK t \in Threads \cup {NoThread} : OpenOn(p, d, t)
      BY <1>2, <2>1 DEF ResolveMissing
    <3>2. d \in Cover /\ d.st = "opening"
      BY <1>0 DEF Cover, States
    <3>3. ~SettledCover(c) /\ c.st = "missing"
      BY <1>2, <2>1 DEF ResolveMissing, SettledCover
    <3> HIDE DEF d
    <3> QED BY <3>1, <3>2, <3>3, OpenSays
  <2>2. CASE ~(c.retryIn = 0 /\ exists[p])
    <3> DEFINE d == [c EXCEPT !.retryIn = NextRetry(c)]
    <3>1. Stores(p, d) /\ UNCHANGED notes /\ c.st = "missing"
      BY <1>2, <2>2 DEF ResolveMissing
    <3>2. NextRetry(c) \in 1..MissingRetry
      BY <1>0, RegistryAssumption DEF NextRetry, Cover
    <3>3. d \in Cover /\ d.st = "missing" /\ d.retryIn # 0
      BY <1>0, <3>1, <3>2 DEF Cover
    <3> HIDE DEF d
    <3>4. PICK e \in Cover : /\ covers' = [covers EXCEPT ![p] = e]
                             /\ e.st = "missing" /\ e.retryIn # 0
      BY <3>1, <3>3, StoresSaid
    <3>5. Silent(covers[p], e)
      BY <3>1, <3>4 DEF Silent, SettledCover, OwesMissing
    <3> QED BY <3>1, <3>4, <3>5 DEF SaysNothing
  <2> QED BY <2>1, <2>2
<1>3. CASE ResolveOpening(p)
  <2> DEFINE t == c.loader
             r == threads[t].res
             ready == [c EXCEPT !.st = "ready", !.loader = NoThread,
                                !.cfg = threads[t].cfg, !.anim = threads[t].anim,
                                !.frame = IF r = "frame" THEN 1 ELSE @]
             gone  == [c EXCEPT !.st = "missing", !.loader = NoThread,
                                !.retryIn = MissingRetry]
  <2>1. c.st = "opening" /\ ~SettledCover(c)
    BY <1>3 DEF ResolveOpening, SettledCover
  <2>2. CASE Stores(p, c) /\ UNCHANGED notes
    <3>1. PICK e \in Cover : /\ covers' = [covers EXCEPT ![p] = e]
                             /\ e.st = c.st /\ e.retry = c.retry /\ e.retryIn = c.retryIn
      BY <1>0, <2>2, StoresSaid
    <3>2. Silent(covers[p], e)
      BY <3>1 DEF Silent, SettledCover, OwesMissing
    <3> QED BY <2>2, <3>1, <3>2 DEF SaysNothing
  <2>3. ASSUME NEW m \in {LoaderMsg, Error(p)}, Stores(p, FailedCover(c)), Push(m)
        PROVE  SaysSomething(p)
    <3>1. FailedCover(c) \in Cover /\ FailedCover(c).st = "failed"
      BY <1>0, FailedType, FailedFields
    <3>2. PICK e \in Cover : covers' = [covers EXCEPT ![p] = e] /\ e.st = "failed"
      BY <2>3, <3>1, StoresSaid
    <3>3. Speaks(p, covers[p], e, m)
      BY <2>1, <3>2 DEF Speaks, SettledCover
    <3> QED BY <2>3, <3>2, <3>3, MsgsOf DEF SaysSomething
  <2>4. CASE Sent(t) /\ PollReady(p, ready)
    <3>1. threads[t] \in Thread
      BY <2>4, <1>0 DEF Sent, TypeOK, Cover
    <3>2. (IF r = "frame" THEN 1 ELSE c.frame) \in 0..2
      BY <1>0 DEF Cover
    <3>3. threads[t].cfg \in Configs \cup {NoSettings} /\ threads[t].anim \in BOOLEAN
      BY <3>1 DEF Thread
    <3>4. [c EXCEPT !.st = "ready", !.loader = NoThread] \in Cover
      BY <1>0 DEF Cover, States
    <3>5. [c EXCEPT !.st = "ready", !.loader = NoThread, !.cfg = threads[t].cfg,
                    !.anim = threads[t].anim] \in Cover
      BY <3>3, <3>4 DEF Cover
    <3>6. ready \in Cover /\ ready.st = "ready"
      BY <1>0, <3>2, <3>5 DEF Cover
    <3> HIDE DEF ready
    <3> QED BY <2>1, <2>4, <3>6, PollSays
  <2>5. CASE /\ Stores(p, gone)
             /\ IF c.retry THEN UNCHANGED notes ELSE Push(Missing(p))
    <3>1. MissingRetry \in 0..MissingRetry /\ MissingRetry # 0
      BY RegistryAssumption
    <3>2. [c EXCEPT !.st = "missing", !.loader = NoThread] \in Cover
      BY <1>0 DEF Cover, States
    <3>3. gone \in Cover /\ gone.st = "missing" /\ gone.retryIn # 0
      BY <1>0, <3>1, <3>2 DEF Cover
    <3> HIDE DEF gone
    <3>4. PICK e \in Cover : /\ covers' = [covers EXCEPT ![p] = e]
                             /\ e.st = "missing" /\ e.retryIn # 0
      BY <2>5, <3>3, StoresSaid
    <3>5. CASE c.retry
      <4>1. Silent(covers[p], e)
        BY <2>1, <3>4, <3>5 DEF Silent, SettledCover, OwesMissing
      <4> QED BY <2>5, <3>4, <3>5, <4>1 DEF SaysNothing
    <3>6. CASE ~c.retry
      <4>1. Speaks(p, covers[p], e, Missing(p))
        BY <2>1, <3>4 DEF Speaks, SettledCover
      <4> QED BY <2>5, <3>4, <3>6, <4>1, MsgsOf DEF SaysSomething
    <3> QED BY <3>5, <3>6
  <2> QED BY <1>3, <2>2, <2>3, <2>4, <2>5 DEF ResolveOpening
<1>4. CASE ResolveReady(p)
  <2>1. ~SettledCover(c) /\ c.st = "ready"
    BY <1>4 DEF ResolveReady, SettledCover
  <2> QED BY <1>0, <1>4, <2>1, PollSays DEF ResolveReady
<1>5. CASE ResolveFailed(p)
  <2>1. Stores(p, c) /\ UNCHANGED notes
    BY <1>5 DEF ResolveFailed
  <2>2. PICK e \in Cover : /\ covers' = [covers EXCEPT ![p] = e]
                           /\ e.st = c.st /\ e.retry = c.retry /\ e.retryIn = c.retryIn
    BY <1>0, <2>1, StoresSaid
  <2>3. Silent(covers[p], e)
    BY <2>2 DEF Silent, SettledCover, OwesMissing
  <2> QED BY <2>1, <2>2, <2>3 DEF SaysNothing
<1> QED BY <1>1, <1>2, <1>3, <1>4, <1>5 DEF Resolve

\* A frame in which every settled cover counts once.
LEMMA SettledCount ==
    ASSUME IsFiniteSet(Plays), TypeOK, NEW p \in Plays, NEW d \in Cover,
           covers' = [covers EXCEPT ![p] = d],
           SettledCover(covers[p]) => SettledCover(d)
    PROVE  /\ Cardinality(Settled) \in Nat /\ Cardinality(Settled') \in Nat
           /\ Cardinality(Settled) <= Cardinality(Settled')
           /\ Cardinality(Settled') <= Cardinality(Plays)
           /\ ~SettledCover(covers[p]) /\ SettledCover(d)
                => Cardinality(Settled) + 1 <= Cardinality(Settled')
<1>1. Settled \in SUBSET Plays /\ Settled' \in SUBSET Plays
  BY DEF Settled
<1>2. Settled \subseteq Settled'
  <2>1. \A q \in Plays : q # p => covers'[q] = covers[q]
    BY DEF TypeOK
  <2>2. covers'[p] = d
    BY DEF TypeOK
  <2> QED BY <2>1, <2>2 DEF Settled
<1>3. IsFiniteSet(Settled) /\ IsFiniteSet(Settled')
      /\ Cardinality(Settled') <= Cardinality(Plays)
  BY <1>1, FS_Subset
<1>4. Cardinality(Settled) <= Cardinality(Settled')
  BY <1>2, <1>3, FS_Subset
<1>5. ASSUME ~SettledCover(covers[p]), SettledCover(d)
      PROVE  Cardinality(Settled) + 1 <= Cardinality(Settled')
  <2>1. p \notin Settled /\ p \in Settled'
    <3>1. covers'[p] = d
      BY DEF TypeOK
    <3> QED BY <1>5, <3>1 DEF Settled
  <2>2. Cardinality(Settled \cup {p}) = Cardinality(Settled) + 1
    BY <1>3, <2>1, FS_AddElement
  <2>3. Settled \cup {p} \in SUBSET Settled'
    BY <1>2, <2>1
  <2>4. Cardinality(Settled \cup {p}) <= Cardinality(Settled')
    BY <1>3, <2>3, FS_Subset
  <2> QED BY <2>2, <2>4
<1>6. Cardinality(Settled) \in Nat /\ Cardinality(Settled') \in Nat
  BY <1>3, FS_CardinalityType
<1> QED BY <1>3, <1>4, <1>5, <1>6

\* A resolve keeps the debts paid.
LEMMA ResolveTold ==
    ASSUME IsFiniteSet(Plays), Cardinality(Plays) <= QueueCap,
           TypeOK, ToldInv, NEW p \in Plays, Resolve(p)
    PROVE  ToldInv'
<1>1. inFrame /\ inFrame'
  BY DEF Resolve, ResolveAbsent, ResolveMissing, ResolveOpening, ResolveReady,
         ResolveFailed, OpenOn, PollReady, Stores
<1>2. PICK n \in 0 .. Len(queue) : ToldBy(n)
  BY DEF ToldInv
<1>3. /\ n <= Cardinality(Settled)
      /\ \A q \in Plays : Explains(told \cup Recent(n), q, covers[q])
      /\ Repeats(told \cup Recent(n))
  BY <1>1, <1>2 DEF ToldBy
<1>4. queue \in Seq(Msgs) /\ Len(queue) \in Nat /\ n \in Nat
  BY DEF TypeOK, Queues
<1>5. CASE SaysNothing(p)
  <2>1. PICK d \in Cover : /\ covers' = [covers EXCEPT ![p] = d]
                           /\ Silent(covers[p], d)
                           /\ UNCHANGED notes
    BY <1>5 DEF SaysNothing
  <2>2. Cardinality(Settled) <= Cardinality(Settled')
        /\ Cardinality(Settled) \in Nat /\ Cardinality(Settled') \in Nat
    BY <2>1, SettledCount DEF Silent
  <2>3. ASSUME NEW q \in Plays
        PROVE  Explains(told \cup Recent(n), q, covers'[q])
    <3>1. covers'[q] = IF q = p THEN d ELSE covers[q]
      BY <2>1 DEF TypeOK
    <3> QED BY <1>3, <2>1, <3>1 DEF Explains, Silent
  <2>4. queue' = queue /\ told' = told /\ last' = last
    BY <2>1 DEF notes
  <2>5. Recent(n)' = Recent(n)
    BY <2>4 DEF Recent
  <2>6. n <= Cardinality(Settled')
    BY <1>3, <1>4, <2>2
  <2>7. ToldBy(n)'
    BY <1>1, <1>3, <2>3, <2>4, <2>5, <2>6 DEF ToldBy, Repeats
  <2> QED BY <2>4, <2>7 DEF ToldInv
<1>6. CASE SaysSomething(p)
  <2>1. PICK d \in Cover, m \in Msgs : /\ covers' = [covers EXCEPT ![p] = d]
                                       /\ Speaks(p, covers[p], d, m)
                                       /\ Push(m)
    BY <1>6 DEF SaysSomething
  <2>2. /\ Cardinality(Settled) + 1 <= Cardinality(Settled')
        /\ Cardinality(Settled') <= Cardinality(Plays)
        /\ Cardinality(Settled) \in Nat /\ Cardinality(Settled') \in Nat
    BY <2>1, SettledCount DEF Speaks
  <2>3. QueueCap \in Nat
    BY RegistryAssumption
  <2>4. n + 1 <= Cardinality(Settled') /\ n < QueueCap
    <3> HIDE DEF Settled
    <3>1. Cardinality(Settled') <= QueueCap
      <4>1. Cardinality(Plays) \in Nat
        BY FS_CardinalityType
      <4> QED BY <2>2, <2>3, <4>1
    <3> QED BY <1>3, <1>4, <2>2, <2>3, <3>1
  <2>5. ASSUME NEW S, m \in S, told \cup Recent(n) \subseteq S, NEW q \in Plays
        PROVE  Explains(S, q, covers'[q])
    <3>1. covers'[q] = IF q = p THEN d ELSE covers[q]
      BY <2>1 DEF TypeOK
    <3>2. CASE q = p
      <4>1. d.st = "failed" => S \cap {Error(p), LoaderMsg} # {}
        BY <2>1, <2>5 DEF Speaks
      <4>2. OwesMissing(d) => Missing(p) \in S
        BY <2>1, <2>5 DEF Speaks, OwesMissing
      <4> QED BY <3>1, <3>2, <4>1, <4>2 DEF Explains
    <3>3. CASE q # p
      BY <1>3, <2>5, <3>1, <3>3 DEF Explains
    <3> QED BY <3>2, <3>3
  <2>6. told' = told /\ last' = m /\ queue' = IF last = m THEN queue ELSE Bounded(queue, m)
    BY <2>1 DEF Push, Enqueue
  <2>7. CASE last = m
    <3>1. m \notin {"config"} \X Raws /\ m # NoMsg
      BY <2>1 DEF Speaks, Error, LoaderMsg, Missing, NoMsg
    <3>2. m \in told \cup Recent(n)
      BY <1>3, <2>7, <3>1 DEF Repeats
    <3>3. queue' = queue
      BY <2>6, <2>7
    <3>4. Recent(n)' = Recent(n)
      BY <3>3 DEF Recent
    <3>5. n <= Cardinality(Settled')
      BY <1>4, <2>2, <2>4
    <3>6. ToldBy(n)'
      BY <1>1, <2>5, <2>6, <3>2, <3>4, <3>5 DEF ToldBy, Repeats
    <3> QED BY <3>3, <3>6 DEF ToldInv
  <2>8. CASE last # m
    <3>1. queue' = Bounded(queue, m)
      BY <2>6, <2>8
    <3>2. LET b == Bounded(queue, m)
          IN  /\ n + 1 \in 0 .. Len(b)
              /\ {b[i] : i \in (Len(b) - (n + 1) + 1) .. Len(b)}
                   = {queue[i] : i \in (Len(queue) - n + 1) .. Len(queue)} \cup {m}
      BY <1>4, <2>4, RecentGrows
    <3>4. n + 1 \in 0 .. Len(queue') /\ Recent(n + 1)' = Recent(n) \cup {m}
      BY <3>1, <3>2 DEF Recent
    <3>3. ToldBy(n + 1)'
      BY <1>1, <2>4, <2>5, <2>6, <3>4 DEF ToldBy, Repeats
    <3> QED BY <3>3, <3>4 DEF ToldInv
  <2> QED BY <2>7, <2>8
<1> QED BY <1>5, <1>6, ResolveSays

\* Nothing is owed: the window of the latest messages is empty.
LEMMA NoneRecent ==
    ASSUME NEW q \in Seq(Msgs)
    PROVE  {q[i] : i \in (Len(q) - 0 + 1) .. Len(q)} = {} /\ Len(q) \in Nat
<1>1. (Len(q) - 0 + 1) .. Len(q) = {}
  OBVIOUS
<1> QED BY <1>1

\* Between two frames everything owed is on the screen ...
LEMMA ToldBetween ==
    ASSUME TypeOK, ToldInv, ~inFrame
    PROVE  /\ \A p \in Plays : Explains(told, p, covers[p])
           /\ Repeats(told)
<1>1. PICK n \in 0 .. Len(queue) : ToldBy(n)
  BY DEF ToldInv
<1>2. n = 0
  BY <1>1 DEF ToldBy, TypeOK
<1>3. Recent(0) = {}
  BY NoneRecent DEF Recent, TypeOK
<1> QED BY <1>1, <1>2, <1>3 DEF ToldBy

\* ... and that is enough.
LEMMA ToldByScreen ==
    ASSUME TypeOK, Settled \in SUBSET Plays, IsFiniteSet(Plays),
           \A p \in Plays : Explains(told, p, covers[p]), Repeats(told)
    PROVE  ToldInv
<1>1. Recent(0) = {} /\ Len(queue) \in Nat
  BY NoneRecent DEF Recent, TypeOK
<1>2. Cardinality(Settled) \in Nat
  BY FS_Subset, FS_CardinalityType
<1>3. told \cup Recent(0) = told /\ 0 <= IF inFrame THEN Cardinality(Settled) ELSE 0
  BY <1>1, <1>2
<1>4. ToldBy(0)
  BY <1>3 DEF ToldBy
<1> QED BY <1>1, <1>4 DEF ToldInv

\* More on the screen explains as much.
LEMMA ExplainsMore ==
    ASSUME NEW S, NEW T, S \subseteq T, NEW p, NEW c, Explains(S, p, c)
    PROVE  Explains(T, p, c)
BY DEF Explains

LEMMA ToldStep ==
    ASSUME IsFiniteSet(Plays), Cardinality(Plays) <= QueueCap,
           TypeOK, ToldInv, [Next]_vars
    PROVE  ToldInv'
<1>t. TypeOK'
  BY TypeStep
<1>s. Settled' \in SUBSET Plays
  BY DEF Settled
<1>q. ASSUME \A p \in Plays : Explains(told, p, covers[p])', Repeats(told)'
      PROVE  ToldInv'
  <2>1. Recent(0)' = {} /\ Len(queue') \in Nat
    BY <1>t, NoneRecent DEF Recent, TypeOK
  <2>2. Cardinality(Settled') \in Nat
    BY <1>s, FS_Subset, FS_CardinalityType
  <2>3. told' \cup Recent(0)' = told' /\ 0 <= IF inFrame' THEN Cardinality(Settled') ELSE 0
    BY <2>1, <2>2
  <2>4. ToldBy(0)'
    BY <1>q, <2>3 DEF ToldBy
  <2> QED BY <2>1, <2>4 DEF ToldInv
<1>a. \A p \in Plays : Explains(told', p, Absent)
  BY DEF Explains, Absent, OwesMissing
<1>f. \A p \in Plays : \A t : Explains(told', p, FreshCover(t))
  BY DEF Explains, FreshCover, Absent, OwesMissing
<1>1. ASSUME NEW r \in Raws, PushSame(r)
      PROVE  ToldInv'
  <2>1. /\ \A p \in Plays : Explains(told, p, covers[p])
        /\ Repeats(told)
    BY <1>1, ToldBetween DEF PushSame
  <2>2. told \subseteq told' /\ last' = last /\ covers' = covers
    BY <1>1 DEF PushSame, Drained, notes
  <2> QED BY <1>q, <2>1, <2>2, ExplainsMore DEF Repeats
<1>2. ASSUME NEW r \in Raws, PushNew(r)
      PROVE  ToldInv'
  <2>1. \A p \in Plays : covers'[p] = Absent \/ \E t : covers'[p] = FreshCover(t)
    BY <1>2 DEF PushNew, ResetTo
  <2>2. last' = NoMsg \/ last' \in {"config"} \X Raws
    BY <1>2 DEF PushNew, NotesReset
  <2> QED BY <1>q, <1>a, <1>f, <2>1, <2>2 DEF Repeats
<1>3. ASSUME NEW p \in Plays, Warm(p)
      PROVE  ToldInv'
  <2>1. /\ \A q \in Plays : Explains(told, q, covers[q])
        /\ Repeats(told)
    BY <1>3, ToldBetween DEF Warm
  <2>2. told' = told /\ last' = last
    BY <1>3 DEF Warm, notes
  <2>3. \A q \in Plays : covers'[q] = covers[q] \/ \E t : covers'[q] = FreshCover(t)
    BY <1>3 DEF Warm, TypeOK
  <2> QED BY <1>q, <1>f, <2>1, <2>2, <2>3 DEF Repeats
<1>4. ASSUME NEW p \in Plays, Resolve(p)
      PROVE  ToldInv'
  BY <1>4, ResolveTold
<1>5. CASE BeginFrame
  <2>1. /\ \A q \in Plays : Explains(told, q, covers[q])
        /\ Repeats(told)
    BY <1>5, ToldBetween DEF BeginFrame
  <2>2. told' = told /\ last' = last
    BY <1>5 DEF BeginFrame, notes
  <2>3. \A q \in Plays : /\ covers'[q].st = covers[q].st /\ covers'[q].retry = covers[q].retry
    BY <1>5 DEF BeginFrame, TypeOK, Cover
  <2>4. \A q \in Plays : Explains(told, q, covers'[q])
    BY <2>1, <2>3 DEF Explains, OwesMissing
  <2> QED BY <1>q, <2>1, <2>2, <2>4 DEF Repeats
<1>6. CASE EndFrame
  <2>1. PICK n \in 0 .. Len(queue) : ToldBy(n)
    BY DEF ToldInv
  <2>2. told' = told \cup Messages(queue) /\ last' = last
    BY <1>6 DEF EndFrame, Drained
  <2>3. Recent(n) \subseteq Messages(queue)
    <3>1. queue \in Seq(Msgs) /\ Len(queue) \in Nat /\ DOMAIN queue = 1 .. Len(queue)
      BY DEF TypeOK, Queues
    <3>2. (Len(queue) - n + 1) .. Len(queue) \subseteq DOMAIN queue
      BY <3>1
    <3> QED BY <3>2 DEF Recent, Messages
  <2>4. \A q \in Plays : Explains(told', q, covers[q])
    BY <2>1, <2>2, <2>3, ExplainsMore DEF ToldBy
  <2>5. \A q \in Plays : covers'[q] \in {covers[q], Absent}
    BY <1>6 DEF EndFrame
  <2>6. Repeats(told)'
    BY <2>1, <2>2, <2>3 DEF ToldBy, Repeats
  <2> QED BY <1>q, <1>a, <2>4, <2>5, <2>6
<1>7. CASE Shutdown
  BY <1>7, <1>q, <1>a DEF Shutdown, Repeats
<1>8. CASE Tick
  <2>1. /\ \A q \in Plays : Explains(told, q, covers[q])
        /\ Repeats(told)
    BY <1>8, ToldBetween DEF Tick
  <2>2. told' = told /\ last' = last
    BY <1>8 DEF Tick, notes
  <2>3. \A q \in Plays : /\ covers'[q].st = covers[q].st /\ covers'[q].retry = covers[q].retry
    BY <1>8 DEF Tick, TypeOK, Cover
  <2>4. \A q \in Plays : Explains(told, q, covers'[q])
    BY <2>1, <2>3 DEF Explains, OwesMissing
  <2> QED BY <1>q, <2>1, <2>2, <2>4 DEF Repeats
<1>9. ASSUME UNCHANGED <<covers, inFrame, notes>>
      PROVE  ToldInv'
  <2>1. covers' = covers /\ inFrame' = inFrame /\ last' = last /\ queue' = queue /\ told' = told
    BY <1>9 DEF notes
  <2>2. Settled' = Settled
    BY <2>1 DEF Settled
  <2>3. PICK n \in 0 .. Len(queue) : ToldBy(n)
    BY DEF ToldInv
  <2>4. Recent(n)' = Recent(n)
    BY <2>1 DEF Recent
  <2>5. ToldBy(n)'
    BY <2>1, <2>2, <2>3, <2>4 DEF ToldBy, Repeats
  <2> QED BY <2>1, <2>5 DEF ToldInv
<1>10. ASSUME NEW t \in Threads, ThreadNext(t)
       PROVE  UNCHANGED <<covers, inFrame, notes>>
  BY <1>10 DEF ThreadNext, ThreadOpen, ThreadFrame, ThreadCancelled, ThreadDeadline,
               GivesUp, ThreadDone, ThreadStep
<1>11. (\E t \in Threads : DropLoader(t)) \/ JoinLoader \/ (\E p \in Plays : FileChange(p))
         \/ UNCHANGED vars => UNCHANGED <<covers, inFrame, notes>>
  BY DEF DropLoader, JoinLoader, FileChange, vars, notes
<1> QED
  BY <1>1, <1>2, <1>3, <1>4, <1>5, <1>6, <1>7, <1>8, <1>9, <1>10, <1>11 DEF Next, Stopped

\* A cover that stays black has been explained to the user, or the message is
\* queued: for settings whose covers are no more than the queue holds.
THEOREM FailuresReportedCorrect ==
    ASSUME IsFiniteSet(Plays), Cardinality(Plays) <= QueueCap
    PROVE  Spec => []FailuresReported
<1>1. Init => ToldInv
  <2> SUFFICES ASSUME Init PROVE ToldInv
    OBVIOUS
  <2>1. TypeOK
    BY InitType
  <2>2. \A p \in Plays : Explains(told, p, covers[p])
    BY DEF Init, Explains, Absent, OwesMissing
  <2>3. Repeats(told)
    BY DEF Init, Repeats
  <2>4. Settled \in SUBSET Plays
    BY DEF Settled
  <2> QED BY <2>1, <2>2, <2>3, <2>4, ToldByScreen
<1>2. TypeOK /\ ToldInv /\ [Next]_vars => ToldInv'
  BY ToldStep
<1>3. TypeOK /\ ToldInv => FailuresReported
  <2> SUFFICES ASSUME TypeOK, ToldInv PROVE FailuresReported
    OBVIOUS
  <2>1. PICK n \in 0 .. Len(queue) : ToldBy(n)
    BY DEF ToldInv
  <2>2. Recent(n) \subseteq Messages(queue)
    <3>1. queue \in Seq(Msgs) /\ Len(queue) \in Nat /\ DOMAIN queue = 1 .. Len(queue)
      BY DEF TypeOK, Queues
    <3>2. (Len(queue) - n + 1) .. Len(queue) \subseteq DOMAIN queue
      BY <3>1
    <3> QED BY <3>2 DEF Recent, Messages
  <2>3. \A p \in Plays : Explains(Heard, p, covers[p])
    BY <2>1, <2>2, ExplainsMore DEF ToldBy, Heard
  <2> QED BY <2>3 DEF FailuresReported, Explains, OwesMissing
<1> QED BY <1>1, <1>2, <1>3, InitType, TypeStep, PTL DEF Spec

-----------------------------------------------------------------------------
(* The registry implements CoverLife *)

LEMMA StoresLife ==
    ASSUME TypeOK, NEW p \in Plays, NEW c \in Cover, Stores(p, c)
    PROVE  /\ Lives' = [Lives EXCEPT ![p] = LifeOf(c)]
           /\ views' = [views EXCEPT ![p] = c.frame]
           /\ UNCHANGED <<up, epoch, inFrame>>
<1>1. covers \in [Plays -> Cover] /\ covers' = [covers EXCEPT ![p] = [c EXCEPT !.age = 0]]
  BY DEF Stores, TypeOK
<1>2. LifeOf([c EXCEPT !.age = 0]) = LifeOf(c)
  BY DEF LifeOf, Cover
<1>3. covers'[p] = [c EXCEPT !.age = 0] /\ \A q \in Plays \ {p} : covers'[q] = covers[q]
  BY <1>1
<1>4. /\ LifeOf(covers[p])' = LifeOf(c)
      /\ \A q \in Plays \ {p} : LifeOf(covers[q])' = LifeOf(covers[q])
  BY <1>2, <1>3 DEF LifeOf
<1>5. Lives' = [Lives EXCEPT ![p] = LifeOf(c)]
  BY <1>4 DEF Lives
<1> QED BY <1>5 DEF Stores

LEMMA LivesAre ==
    ASSUME NEW p \in Plays
    PROVE  Lives[p].id = covers[p].id /\ Lives[p].stage = covers[p].st
           /\ Lives[p].frame = covers[p].frame
BY DEF Lives, LifeOf

LEMMA LivesStay ==
    ASSUME \A p \in Plays : covers'[p].id = covers[p].id /\ covers'[p].st = covers[p].st
                            /\ covers'[p].frame = covers[p].frame
    PROVE  Lives' = Lives
BY DEF Lives, LifeOf

LEMMA LivesClosed ==
    ASSUME \A p \in Plays : covers'[p] = Absent
    PROVE  Lives' = Life!Closed
BY DEF Lives, LifeOf, Absent, Life!Closed, Life!NoCover

\* A call of resolve for a cover that is there.
LEMMA LooksOn ==
    ASSUME IInv, up, inFrame, NEW p \in Plays, NEW c \in Cover, Stores(p, c),
           covers[p].st # "absent", c.id = covers[p].id, nextId' = nextId,
           c.st \in Life!Follow[covers[p].st],
           c.frame # 0 => c.st = "ready",
           covers[p].frame # 0 /\ c.st = "ready" => c.frame # 0,
           views[p] # 0 => c.frame = covers[p].frame /\ c.st = covers[p].st
    PROVE  Life!Look(p) \/ UNCHANGED Life!vars
<1>1. /\ Lives' = [Lives EXCEPT ![p] = LifeOf(c)]
      /\ views' = [views EXCEPT ![p] = c.frame]
      /\ UNCHANGED <<up, epoch, inFrame>>
  BY StoresLife DEF IInv
<1>2. views \in [Plays -> 0..2] /\ c.frame \in 0..2
  BY DEF IInv, TypeOK, Cover
<1>3. CASE views[p] # 0
  <2>1. c.frame = covers[p].frame /\ c.st = covers[p].st /\ c.id = covers[p].id
    BY <1>3
  <2>2. LifeOf(c) = Lives[p]
    BY <2>1 DEF Lives, LifeOf
  <2>3. Lives' = Lives
    BY <1>1, <2>2 DEF Lives
  <2>4. views[p] = c.frame
    BY <1>3, <2>1 DEF IInv, ViewsHeld
  <2>5. views' = views
    BY <1>1, <1>2, <2>4
  <2> QED BY <1>1, <2>3, <2>5 DEF Life!vars
<1>4. CASE views[p] = 0
  <2>1. Lives'[p] = LifeOf(c)
    BY <1>1 DEF Lives
  <2>2. Lives'[p].id = c.id /\ Lives'[p].stage = c.st /\ Lives'[p].frame = c.frame
    BY <2>1 DEF LifeOf
  <2>3. Life!Resolve(p)
    BY <1>1, <1>4, <2>1, <2>2 DEF Life!Resolve
  <2>4. /\ Life!Present(p) /\ c.id = Lives[p].id /\ c.st \in Life!Follow[Lives[p].stage]
        /\ Lives[p].frame # 0 /\ c.st = "ready" => c.frame # 0
    BY LivesAre DEF Life!Present
  <2> QED BY <2>2, <2>3, <2>4 DEF Life!Look
<1> QED BY <1>3, <1>4

LEMMA OpensInFrame ==
    ASSUME IInv, up, inFrame, NEW p \in Plays, NEW c \in Cover, Stores(p, c),
           covers[p].st = "absent", c.id = nextId, nextId' = nextId + 1,
           c.st \in {"opening", "failed"}, c.frame = 0
    PROVE  Life!OpenInFrame(p)
<1>1. /\ Lives' = [Lives EXCEPT ![p] = LifeOf(c)]
      /\ views' = [views EXCEPT ![p] = c.frame]
      /\ UNCHANGED <<up, epoch, inFrame>>
  BY StoresLife DEF IInv
<1>2. LifeOf(c) = Life!Opened(c.st) /\ LifeOf(c).frame = c.frame
  BY DEF LifeOf, Life!Opened
<1>3. views[p] = 0
  BY DEF IInv, ViewsHeld
<1>4. Lives'[p] = Life!Opened(c.st) /\ Lives'[p].frame = c.frame
  BY <1>1, <1>2 DEF Lives
<1>5. Life!Resolve(p)
  BY <1>1, <1>2, <1>3, <1>4 DEF Life!Resolve
<1>6. ~Life!Present(p)
  BY LivesAre DEF Life!Present
<1> QED BY <1>4, <1>5, <1>6 DEF Life!OpenInFrame

\* What OpenOn stores.
LEMMA OpenStores ==
    ASSUME NEW p \in Plays, NEW c \in Cover, NEW t \in Threads \cup {NoThread},
           OpenOn(p, c, t), c.st = "opening", c.frame = 0
    PROVE  \E d \in Cover : /\ Stores(p, d) /\ d.id = c.id /\ d.frame = 0
                            /\ d.st \in {"opening", "failed"}
<1>1. CASE t = NoThread
  <2>1. Stores(p, FailedCover(c)) /\ FailedCover(c) \in Cover
    BY <1>1, FailedType DEF OpenOn
  <2> QED BY <2>1, FailedFields
<1>2. CASE t # NoThread
  <2> DEFINE d == [c EXCEPT !.loader = t]
  <2>1. Stores(p, d) /\ d \in Cover /\ d.id = c.id /\ d.frame = 0 /\ d.st = "opening"
    BY <1>2 DEF OpenOn, Cover
  <2> QED BY <2>1
<1> QED BY <1>1, <1>2

\* A poll of a source: c is what covers[p] has become.
LEMMA PollLooks ==
    ASSUME IInv, up, inFrame, NEW p \in Plays, NEW c \in Cover, PollReady(p, c),
           covers[p].st \in {"opening", "ready"}, c.st = "ready", c.id = covers[p].id,
           nextId' = nextId, covers[p].frame # 0 => c.frame # 0,
           covers[p].st = "ready" => c = covers[p]
    PROVE  Life!Look(p) \/ UNCHANGED Life!vars
<1>1. views[p] # 0 => covers[p].st = "ready" /\ c.polled
  BY DEF IInv, ViewsHeld
<1>2. {"ready", "failed"} \subseteq Life!Follow[covers[p].st] /\ covers[p].st # "absent"
  BY DEF Life!Follow
<1>3. CASE c.polled /\ Stores(p, c)
  BY <1>1, <1>2, <1>3, LooksOn
<1>4. CASE ~c.polled /\ Stores(p, [c EXCEPT !.polled = TRUE])
  <2> DEFINE d == [c EXCEPT !.polled = TRUE]
  <2>1. d \in Cover /\ d.st = "ready" /\ d.id = c.id /\ d.frame = c.frame
    BY DEF Cover
  <2> HIDE DEF d
  <2> QED BY <1>1, <1>2, <1>4, <2>1, LooksOn DEF d
<1>5. CASE ~c.polled /\ Stores(p, [c EXCEPT !.polled = TRUE,
                                           !.frame = IF @ = 1 THEN 2 ELSE 1])
  <2> DEFINE b == [c EXCEPT !.polled = TRUE]
             d == [c EXCEPT !.polled = TRUE, !.frame = IF @ = 1 THEN 2 ELSE 1]
  <2>1. b \in Cover
    BY DEF Cover
  <2>2. (IF c.frame = 1 THEN 2 ELSE 1) \in 0..2 \ {0}
    OBVIOUS
  <2>3. d \in Cover /\ d.st = "ready" /\ d.id = c.id /\ d.frame # 0
    BY <2>1, <2>2 DEF Cover
  <2>4. Stores(p, d)
    BY <1>5
  <2> HIDE DEF d
  <2> QED BY <1>1, <1>2, <1>5, <2>3, <2>4, LooksOn
<1>6. CASE ~c.polled /\ Stores(p, [FailedCover(c) EXCEPT !.polled = TRUE])
  <2> DEFINE d == [FailedCover(c) EXCEPT !.polled = TRUE]
  <2>1. FailedCover(c) \in Cover
    BY FailedType
  <2>2. d \in Cover /\ d.st = "failed" /\ d.frame = 0 /\ d.id = c.id
    BY <2>1, FailedFields DEF Cover
  <2>3. Stores(p, d)
    BY <1>6
  <2> HIDE DEF d
  <2> QED BY <1>1, <1>2, <1>6, <2>2, <2>3, LooksOn
<1> QED BY <1>3, <1>4, <1>5, <1>6 DEF PollReady

LEMMA ResolveLives ==
    ASSUME IInv, NEW p \in Plays, Resolve(p)
    PROVE  Life!OpenInFrame(p) \/ Life!Look(p) \/ UNCHANGED Life!vars
<1> DEFINE c == covers[p]
<1>0. up /\ inFrame /\ c \in Cover /\ (views[p] # 0 => c.st = "ready")
      /\ (c.frame # 0 => c.st = "ready")
  BY DEF Resolve, IInv, TypeOK, ViewsHeld, FramesReady
<1>1. CASE ResolveAbsent(p)
  <2>1. PICK t \in Threads \cup {NoThread} : OpenOn(p, FreshCover(t), t)
    BY <1>1 DEF ResolveAbsent
  <2>2. c.st = "absent" /\ nextId' = nextId + 1
    BY <1>1 DEF ResolveAbsent
  <2>3. FreshCover(t) \in Cover
    BY FreshType DEF IInv
  <2>4. PICK d \in Cover : /\ Stores(p, d) /\ d.id = FreshCover(t).id /\ d.frame = 0
                           /\ d.st \in {"opening", "failed"}
    BY <2>1, <2>3, FreshFields, OpenStores
  <2> QED BY <1>0, <2>2, <2>4, FreshFields, OpensInFrame
<1>2. CASE ResolveMissing(p)
  <2>1. c.st = "missing" /\ c.frame = 0 /\ nextId' = nextId /\ views[p] = 0
    BY <1>0, <1>2 DEF ResolveMissing
  <2>2. Life!Follow[c.st] = {"missing", "opening", "failed"}
    BY <2>1 DEF Life!Follow
  <2> DEFINE d == [c EXCEPT !.st = "opening", !.retry = TRUE]
             e == [c EXCEPT !.retryIn = NextRetry(c)]
  <2>3. ASSUME NEW t \in Threads \cup {NoThread}, OpenOn(p, d, t)
        PROVE  Life!Look(p) \/ UNCHANGED Life!vars
    <3>1. d \in Cover /\ d.st = "opening" /\ d.frame = 0 /\ d.id = c.id
      BY <1>0, <2>1 DEF Cover, States
    <3> HIDE DEF d
    <3>2. PICK f \in Cover : /\ Stores(p, f) /\ f.id = d.id /\ f.frame = 0
                             /\ f.st \in {"opening", "failed"}
      BY <2>3, <3>1, OpenStores
    <3> QED BY <1>0, <2>1, <2>2, <3>1, <3>2, LooksOn
  <2>4. CASE Stores(p, e)
    <3>1. NextRetry(c) \in 0..MissingRetry
      BY <1>0, RegistryAssumption DEF NextRetry, Cover
    <3>2. e \in Cover /\ e.id = c.id /\ e.st = "missing" /\ e.frame = 0
      BY <1>0, <2>1, <3>1 DEF Cover
    <3> HIDE DEF e
    <3> QED BY <1>0, <2>1, <2>2, <2>4, <3>2, LooksOn
  <2> QED BY <1>2, <2>3, <2>4 DEF ResolveMissing
<1>3. CASE ResolveOpening(p)
  <2> DEFINE t == c.loader
             r == threads[t].res
             ready == [c EXCEPT !.st = "ready", !.loader = NoThread,
                                !.cfg = threads[t].cfg, !.anim = threads[t].anim,
                                !.frame = IF r = "frame" THEN 1 ELSE @]
             gone  == [c EXCEPT !.st = "missing", !.loader = NoThread,
                                !.retryIn = MissingRetry]
  <2>1. c.st = "opening" /\ c.frame = 0 /\ nextId' = nextId /\ views[p] = 0
        /\ t \in Threads \cup {NoThread}
    BY <1>0, <1>3 DEF ResolveOpening, Cover
  <2>2. Life!Follow[c.st] = {"opening", "missing", "ready", "failed"}
    BY <2>1 DEF Life!Follow
  <2>3. ASSUME NEW d \in Cover, Stores(p, d), d.id = c.id, d.frame = 0,
               d.st \in {"opening", "missing", "failed"}
        PROVE  Life!Look(p) \/ UNCHANGED Life!vars
    BY <1>0, <2>1, <2>2, <2>3, LooksOn
  <2>4. CASE Stores(p, c)
    BY <1>0, <2>1, <2>3, <2>4
  <2>5. CASE Stores(p, FailedCover(c))
    BY <1>0, <2>3, <2>5, FailedType, FailedFields
  <2>6. CASE Stores(p, gone)
    <3>0. MissingRetry \in 0..MissingRetry
      BY RegistryAssumption
    <3>1. [c EXCEPT !.st = "missing", !.loader = NoThread] \in Cover
      BY <1>0 DEF Cover, States
    <3>2. gone \in Cover
      BY <3>0, <3>1 DEF Cover
    <3>3. gone.id = c.id /\ gone.st = "missing" /\ gone.frame = 0
      BY <1>0, <2>1 DEF Cover
    <3> HIDE DEF gone
    <3> QED BY <2>3, <2>6, <3>2, <3>3
  <2>7. CASE Sent(t) /\ PollReady(p, ready)
    <3>1. t # NoThread /\ threads[t] \in Thread
      BY <2>1, <2>7 DEF Sent, IInv, TypeOK
    <3>2. (IF r = "frame" THEN 1 ELSE c.frame) \in 0..2
      BY <2>1
    <3>3. threads[t].cfg \in Configs \cup {NoSettings} /\ threads[t].anim \in BOOLEAN
      BY <3>1 DEF Thread
    <3>4. [c EXCEPT !.st = "ready", !.loader = NoThread] \in Cover
      BY <1>0 DEF Cover, States
    <3>5. [c EXCEPT !.st = "ready", !.loader = NoThread, !.cfg = threads[t].cfg,
                    !.anim = threads[t].anim] \in Cover
      BY <3>3, <3>4 DEF Cover
    <3>6. ready \in Cover
      BY <3>2, <3>5 DEF Cover
    <3>7. ready.st = "ready" /\ ready.id = c.id
      BY <1>0 DEF Cover
    <3>8. PollReady(p, ready)
      BY <2>7
    <3> HIDE DEF ready
    <3> QED BY <1>0, <2>1, <3>6, <3>7, <3>8, PollLooks
  <2> QED BY <1>3, <2>4, <2>5, <2>6, <2>7 DEF ResolveOpening
<1>4. CASE ResolveReady(p)
  BY <1>0, <1>4, PollLooks DEF ResolveReady
<1>5. CASE ResolveFailed(p)
  <2>1. c.st = "failed" /\ c.frame = 0 /\ nextId' = nextId /\ views[p] = 0 /\ Stores(p, c)
    BY <1>0, <1>5 DEF ResolveFailed
  <2>2. Life!Follow[c.st] = {"failed"}
    BY <2>1 DEF Life!Follow
  <2> QED BY <1>0, <2>1, <2>2, LooksOn
<1> QED BY <1>1, <1>2, <1>3, <1>4, <1>5 DEF Resolve

\* New settings close every cover, and open the default one of the new settings.
LEMMA ResetLives ==
    ASSUME IInv, NEW raw \in Raws, PushNew(raw)
    PROVE  Life!Reset
<1> DEFINE new == ParseOf[raw]
           def == DefaultPlay[new]
<1>0. NoPlay \notin Plays /\ new \in Configs /\ def \in Plays \cup {NoPlay}
  BY RegistryAssumption
<1>1. up /\ ~inFrame /\ epoch' = epoch + 1 /\ UNCHANGED <<views, inFrame, up>>
  BY DEF PushNew
<1>2. CASE covers' = ResetTo(NoPlay, NoThread) /\ UNCHANGED nextId
  <2>1. \A p \in Plays : covers'[p] = Absent
    BY <1>0, <1>2 DEF ResetTo
  <2>2. Lives' = Life!Closed
    BY <2>1, LivesClosed
  <2> QED BY <1>1, <1>2, <2>2 DEF Life!Reset
<1>3. ASSUME def # NoPlay, NEW t, covers' = ResetTo(def, t), nextId' = nextId + 1
      PROVE  Life!Reset
  <2>1. def \in Plays
    BY <1>0, <1>3
  <2>2. covers'[def] = FreshCover(t) /\ \A p \in Plays \ {def} : covers'[p] = Absent
    BY <1>3, <2>1 DEF ResetTo
  <2>3. LifeOf(FreshCover(t)) = Life!Opened("opening")
    BY FreshFields DEF LifeOf, Life!Opened
  <2>4. LifeOf(Absent) = Life!NoCover
    BY DEF LifeOf, Absent, Life!NoCover
  <2>5. Lives' = [p \in Plays |-> LifeOf(covers'[p])]
    BY DEF Lives, LifeOf
  <2>6. \A p \in Plays : LifeOf(covers'[p])
                           = IF p = def THEN Life!Opened("opening") ELSE Life!NoCover
    BY <2>2, <2>3, <2>4
  <2>7. Lives' = [Life!Closed EXCEPT ![def] = Life!Opened("opening")]
    BY <2>5, <2>6 DEF Life!Closed
  <2> QED BY <1>1, <1>3, <2>1, <2>7 DEF Life!Reset
<1> QED BY <1>2, <1>3 DEF PushNew

LEMMA PrewarmLives ==
    ASSUME IInv, NEW p \in Plays, Warm(p)
    PROVE  Life!Prewarm(p)
<1>1. PICK t : covers' = [covers EXCEPT ![p] = FreshCover(t)]
  BY DEF Warm
<1>2. covers'[p] = FreshCover(t) /\ \A q \in Plays \ {p} : covers'[q] = covers[q]
  BY <1>1 DEF IInv, TypeOK
<1>3. LifeOf(FreshCover(t)) = Life!Opened("opening")
  BY FreshFields DEF LifeOf, Life!Opened
<1>4. Lives' = [q \in Plays |-> LifeOf(covers'[q])]
  BY DEF Lives, LifeOf
<1>5. Lives' = [Lives EXCEPT ![p] = Life!Opened("opening")]
  BY <1>2, <1>3, <1>4 DEF Lives
<1>6. ~Life!Present(p)
  BY LivesAre DEF Life!Present, Warm
<1> QED BY <1>5, <1>6 DEF Life!Prewarm, Warm

\* Covers that go at the end of a frame were not shown in it.
LEMMA EndFrameLives ==
    ASSUME IInv, ShownIsUsed, EndFrame
    PROVE  Life!EndFrame
<1>1. Stale \subseteq {p \in Plays : views[p] = 0}
  BY RegistryAssumption DEF Stale, Present, ShownIsUsed
<1>2. \A p \in Plays : LifeOf(covers'[p]) = IF p \in Stale THEN Life!NoCover ELSE Lives[p]
  <2>1. LifeOf(Absent) = Life!NoCover
    BY DEF LifeOf, Absent, Life!NoCover
  <2> QED BY <2>1 DEF EndFrame, Lives
<1>3. Lives' = [p \in Plays |-> LifeOf(covers'[p])]
  BY DEF Lives, LifeOf
<1>4. Lives' = [p \in Plays |-> IF p \in Stale THEN Life!NoCover ELSE Lives[p]]
  BY <1>2, <1>3
<1>5. views' = Life!NoneGiven
  BY DEF EndFrame, Life!NoneGiven
<1>6. up /\ inFrame /\ ~inFrame' /\ UNCHANGED <<nextId, epoch, up>>
  BY DEF EndFrame
<1> QED BY <1>1, <1>4, <1>5, <1>6 DEF Life!EndFrame

\* Nobody ages in a frame, and resolve has just used what it shows.
LEMMA UsedStep ==
    ASSUME IInv, ShownIsUsed, [Next]_vars
    PROVE  ShownIsUsed'
<1>1. ASSUME NEW p \in Plays, Resolve(p)
      PROVE  ShownIsUsed'
  <2>1. PICK c : Stores(p, c)
    BY <1>1 DEF Resolve, ResolveAbsent, ResolveMissing, ResolveOpening, ResolveReady,
                ResolveFailed, OpenOn, PollReady
  <2>2. \A q \in Plays \ {p} : covers'[q] = covers[q] /\ views'[q] = views[q]
    BY <2>1 DEF Stores, IInv, TypeOK
  <2>3. covers'[p].age = 0
    <3>1. PICK d \in Cover : d = covers'[p]
      BY <1>1, ResolveInv DEF IInv, TypeOK
    <3>2. covers'[p] = [c EXCEPT !.age = 0]
      BY <2>1 DEF Stores, IInv, TypeOK
    <3>3. "age" \in DOMAIN d
      BY DEF Cover
    <3>4. "age" \in DOMAIN c
      BY <3>1, <3>2, <3>3
    <3> QED BY <3>2, <3>4
  <2> QED BY <2>2, <2>3 DEF ShownIsUsed
<1>2. ASSUME \A p \in Plays : views'[p] = 0
      PROVE  ShownIsUsed'
  BY <1>2 DEF ShownIsUsed
<1>3. CASE ~inFrame /\ UNCHANGED views
  BY <1>2, <1>3 DEF IInv, ViewsHeld
<1>4. CASE BeginFrame \/ EndFrame
  BY <1>2, <1>4 DEF BeginFrame, EndFrame
<1>5. CASE UNCHANGED <<covers, views>>
  BY <1>5 DEF ShownIsUsed
<1>6. ASSUME NEW t \in Threads, ThreadNext(t)
      PROVE  UNCHANGED <<covers, views>>
  BY <1>6 DEF ThreadNext, ThreadOpen, ThreadFrame, ThreadCancelled, ThreadDeadline,
              GivesUp, ThreadDone, ThreadStep
<1> QED
  BY <1>1, <1>3, <1>4, <1>5, <1>6
     DEF Next, Stopped, PushSame, PushNew, Warm, Shutdown, JoinLoader, DropLoader, Tick,
         FileChange, vars

\* Every step is one of CoverLife or leaves what it speaks of alone.
LEMMA LifeStep ==
    ASSUME IInv, ShownIsUsed, [Next]_vars
    PROVE  [Life!Next]_(Life!vars)
<1> SUFFICES Life!Next \/ UNCHANGED Life!vars
  OBVIOUS
<1>1. ASSUME UNCHANGED <<covers, views, nextId, epoch, inFrame, up>>
      PROVE  UNCHANGED Life!vars
  BY <1>1, LivesStay DEF Life!vars
<1>2. ASSUME NEW r \in Raws, PushSame(r)
      PROVE  UNCHANGED Life!vars
  BY <1>1, <1>2 DEF PushSame
<1>3. ASSUME NEW r \in Raws, PushNew(r)
      PROVE  Life!Next
  BY <1>3, ResetLives DEF Life!Next
<1>4. ASSUME NEW p \in Plays, Warm(p)
      PROVE  Life!Next
  BY <1>4, PrewarmLives DEF Life!Next
<1>5. ASSUME NEW p \in Plays, Resolve(p)
      PROVE  Life!Next \/ UNCHANGED Life!vars
  BY <1>5, ResolveLives DEF Life!Next
<1>6. ASSUME NEW p \in Plays, FileChange(p)
      PROVE  UNCHANGED Life!vars
  BY <1>1, <1>6 DEF FileChange
<1>7. CASE BeginFrame
  <2>1. \A p \in Plays : covers'[p].id = covers[p].id /\ covers'[p].st = covers[p].st
                         /\ covers'[p].frame = covers[p].frame
    BY <1>7 DEF BeginFrame, IInv, TypeOK, Cover
  <2>2. Lives' = Lives
    BY <2>1, LivesStay
  <2>3. \A p \in Plays : views[p] = 0
    BY <1>7 DEF BeginFrame, IInv, ViewsHeld
  <2>4. views' = views
    BY <1>7, <2>3 DEF BeginFrame, IInv, TypeOK
  <2> QED BY <1>7, <2>2, <2>4 DEF BeginFrame, Life!BeginFrame, Life!Next
<1>8. CASE EndFrame
  BY <1>8, EndFrameLives DEF Life!Next
<1>9. CASE Shutdown
  <2>1. \A p \in Plays : covers'[p] = Absent
    BY <1>9 DEF Shutdown
  <2>2. Lives' = Life!Closed
    BY <2>1, LivesClosed
  <2> QED BY <1>9, <2>2 DEF Shutdown, Life!Shutdown, Life!Next
<1>10. CASE JoinLoader \/ \E t \in Threads : DropLoader(t)
  BY <1>1, <1>10 DEF JoinLoader, DropLoader
<1>11. ASSUME NEW t \in Threads, ThreadNext(t)
       PROVE  UNCHANGED Life!vars
  <2>1. UNCHANGED <<covers, views, nextId, epoch, inFrame, up>>
    BY <1>11 DEF ThreadNext, ThreadOpen, ThreadFrame, ThreadCancelled, ThreadDeadline,
                 GivesUp, ThreadDone, ThreadStep
  <2> QED BY <1>1, <2>1
<1>12. CASE Tick
  <2>1. \A p \in Plays : covers'[p].id = covers[p].id /\ covers'[p].st = covers[p].st
                         /\ covers'[p].frame = covers[p].frame
    BY <1>12 DEF Tick, IInv, TypeOK, Cover
  <2>2. Lives' = Lives
    BY <2>1, LivesStay
  <2> QED BY <1>12, <2>2 DEF Tick, Life!vars
<1>13. CASE UNCHANGED vars
  BY <1>1, <1>13 DEF vars
<1> QED
  BY <1>2, <1>3, <1>4, <1>5, <1>6, <1>7, <1>8, <1>9, <1>10, <1>11, <1>12, <1>13
     DEF Next, Stopped

LEMMA LifeInit == Init => Life!Init /\ ShownIsUsed
<1> SUFFICES ASSUME Init PROVE Life!Init /\ ShownIsUsed
  OBVIOUS
<1>1. Lives = Life!Closed
  BY DEF Init, Lives, LifeOf, Absent, Life!Closed, Life!NoCover
<1>2. views = Life!NoneGiven
  BY DEF Init, Life!NoneGiven
<1>3. ShownIsUsed
  BY DEF Init, ShownIsUsed
<1> QED BY <1>1, <1>2, <1>3 DEF Init, Life!Init

\* The registry implements CoverLife, whatever the settings, files, threads and
\* calls: the shim may keep one texture an id.
THEOREM ImplementsLifeCorrect == Spec => ImplementsLife
<1>1. Init => Life!Init /\ ShownIsUsed
  BY LifeInit
<1>2. IInv /\ ShownIsUsed /\ [Next]_vars => ShownIsUsed'
  BY UsedStep
<1>3. IInv /\ ShownIsUsed /\ [Next]_vars => [Life!Next]_(Life!vars)
  BY LifeStep
<1> QED BY <1>1, <1>2, <1>3, InvCorrect, PTL DEF Spec, ImplementsLife, Life!Spec

=============================================================================
