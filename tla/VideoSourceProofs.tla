-------------------------- MODULE VideoSourceProofs --------------------------
(***************************************************************************)
(* Theorems about VideoSource, for every file length, frame rate, idle     *)
(* time and decoder.                                                       *)
(***************************************************************************)
EXTENDS VideoSource, TLAPS

(* A thread that is not waiting for a display time is not early. *)
NotEarly == pc \in {"check", "asleep", "decode", "publish"} => lag >= 0

(* Once a frame has gone out to nobody the thread is on its way to sleep, *)
(* and only a poll gets it back to decoding.                              *)
NobodyServed == lone > 0 => lone = 1 /\ ~Watched /\ pc \notin {"decode", "due", "early", "publish"}

(* TypeOK in two parts, numbers and the rest. *)
Numbers ==
    /\ pos \in 0..Frames /\ lag \in (-Step)..NoOrigin /\ spent \in 0..DecodeTime
    /\ slack \in 0..MaxSlack /\ idle \in 0..IdleAfter /\ unseen \in 0..2 /\ lone \in 0..2
Flags ==
    /\ pc \in Waiting \cup {"check", "decode", "due", "publish", "over", "gone"}
    /\ owner \in {"live", "failed", "quitting", "joining", "joined"}
    /\ looped \in BOOLEAN /\ slept \in BOOLEAN /\ published \in BOOLEAN /\ latest \in BOOLEAN
    /\ error \in BOOLEAN /\ ended \in BOOLEAN /\ quit \in BOOLEAN /\ reported \in BOOLEAN

VideoInv == TypeOK /\ NotEarly /\ Handoff /\ NobodyServed

LEMMA WokenType == ASSUME NEW l PROVE /\ l = "asleep" => Woken(l) = "check"
                                      /\ l = "early" => Woken(l) = "due"
                                      /\ l = "parked" => Woken(l) = "over"
                                      /\ l \notin Waiting => Woken(l) = l
BY DEF Woken, Waiting

LEMMA VideoInvInit == Init => VideoInv
<1> SUFFICES ASSUME Init PROVE VideoInv
    OBVIOUS
<1>1. TypeOK
  <2>1. Numbers
      BY VideoAssumption DEF Init, Numbers, NoOrigin
  <2>2. Flags
      BY DEF Init, Flags
  <2> QED BY <2>1, <2>2 DEF TypeOK, Numbers, Flags
<1>2. NotEarly /\ Handoff /\ NobodyServed
    BY VideoAssumption DEF Init, NotEarly, Handoff, NobodyServed, NoOrigin
<1> QED BY <1>1, <1>2 DEF VideoInv

(* The steps of the decode thread. *)

LEMMA CheckKeeps == VideoInv /\ (Check \/ SleepTimeout \/ Over) => VideoInv'
<1> SUFFICES ASSUME VideoInv, Check \/ SleepTimeout \/ Over PROVE VideoInv'
    OBVIOUS
<1> USE DEF VideoInv, Check, SleepTimeout, Over, shared
<1>1. TypeOK'
  <2>1. Numbers'
      BY VideoAssumption DEF TypeOK, Numbers, NotEarly, Waiting, NoOrigin, Watched
  <2>2. Flags'
    <3>1. CASE Check
        BY <3>1 DEF TypeOK, Flags, Waiting
    <3>2. CASE SleepTimeout
        BY <3>2 DEF TypeOK, Flags, Waiting
    <3>3. CASE Over
        BY <3>3 DEF TypeOK, Flags, Waiting
    <3> QED BY <3>1, <3>2, <3>3
  <2> QED BY <2>1, <2>2 DEF TypeOK, Numbers, Flags
<1>2. NotEarly'
    BY VideoAssumption DEF TypeOK, NotEarly, Waiting, NoOrigin
<1>3. Handoff'
    BY VideoAssumption DEF TypeOK, Handoff
<1>4. NobodyServed'
    BY VideoAssumption DEF TypeOK, NobodyServed, Waiting, Watched
<1> QED BY <1>1, <1>2, <1>3, <1>4

\* The frame after one that was on time or late is at most a Step early.
LEMMA DecodeKeeps == VideoInv /\ (DecodeFrame \/ DecodeEnd \/ DecodeError) => VideoInv'
<1> SUFFICES ASSUME VideoInv, DecodeFrame \/ DecodeEnd \/ DecodeError PROVE VideoInv'
    OBVIOUS
<1> USE VideoAssumption DEF VideoInv
<1>1. CASE DecodeFrame
  <2>1. lag >= 0 /\ NewLag \in (-Step)..MaxLag
      BY <1>1 DEF DecodeFrame, TypeOK, NotEarly, NewLag, NoOrigin
  <2>2. Numbers'
      BY <1>1, <2>1 DEF DecodeFrame, TypeOK, Numbers, NoOrigin, shared
  <2>3. Flags'
      BY <1>1 DEF DecodeFrame, TypeOK, Flags, Waiting, shared
  <2>4. NotEarly'
      BY <1>1, <2>1 DEF DecodeFrame, NotEarly
  <2>5. Handoff' /\ NobodyServed'
      BY <1>1, <2>1 DEF DecodeFrame, Handoff, NobodyServed, Watched, shared
  <2>6. TypeOK'
      BY <2>2, <2>3 DEF TypeOK, Numbers, Flags
  <2> QED BY <2>4, <2>5, <2>6
<1>2. CASE DecodeEnd \/ DecodeError
  <2>1. Numbers'
      BY <1>2 DEF DecodeEnd, DecodeError, TypeOK, Numbers, NoOrigin
  <2>2. Flags'
      BY <1>2 DEF DecodeEnd, DecodeError, TypeOK, Flags, Waiting
  <2>3. NotEarly' /\ Handoff' /\ NobodyServed'
      BY <1>2 DEF DecodeEnd, DecodeError, NotEarly, Handoff, NobodyServed, Watched
  <2>4. TypeOK'
      BY <2>1, <2>2 DEF TypeOK, Numbers, Flags
  <2> QED BY <2>3, <2>4
<1> QED BY <1>1, <1>2

LEMMA DueKeeps == VideoInv /\ (Due \/ DueTimeout) => VideoInv'
<1> SUFFICES ASSUME VideoInv, Due \/ DueTimeout PROVE VideoInv'
    OBVIOUS
<1> USE DEF VideoInv, Due, DueTimeout, shared
<1>1. TypeOK'
  <2>1. Numbers'
      BY VideoAssumption DEF TypeOK, Numbers, NotEarly, Waiting, NoOrigin, Watched
  <2>2. Flags'
      BY DEF TypeOK, Flags, Waiting
  <2> QED BY <2>1, <2>2 DEF TypeOK, Numbers, Flags
<1>2. NotEarly'
    BY VideoAssumption DEF TypeOK, NotEarly, Waiting, NoOrigin
<1>3. Handoff'
    BY VideoAssumption DEF TypeOK, Handoff
<1>4. NobodyServed'
    BY VideoAssumption DEF TypeOK, NobodyServed, Waiting, Watched
<1> QED BY <1>1, <1>2, <1>3, <1>4

LEMMA PublishKeeps == VideoInv /\ Publish => VideoInv'
<1> SUFFICES ASSUME VideoInv, Publish PROVE VideoInv'
    OBVIOUS
<1> USE DEF VideoInv, Publish, UpTo2
<1>1. TypeOK'
  <2>1. Numbers'
      BY VideoAssumption DEF TypeOK, Numbers, NotEarly, Waiting, NoOrigin, Watched
  <2>2. Flags'
      BY DEF TypeOK, Flags, Waiting
  <2> QED BY <2>1, <2>2 DEF TypeOK, Numbers, Flags
<1>2. NotEarly'
    BY VideoAssumption DEF TypeOK, NotEarly, Waiting, NoOrigin
<1>3. Handoff'
    BY VideoAssumption DEF TypeOK, Handoff
<1>4. NobodyServed'
    BY VideoAssumption DEF TypeOK, NobodyServed, Waiting, Watched
<1> QED BY <1>1, <1>2, <1>3, <1>4

(* The owner's and the clock's. *)

LEMMA PollKeeps == VideoInv /\ Poll => VideoInv'
<1> SUFFICES ASSUME VideoInv, Poll PROVE VideoInv'
    OBVIOUS
<1> USE DEF VideoInv, Poll
<1>1. TypeOK'
  <2>1. Numbers'
      BY VideoAssumption, WokenType DEF TypeOK, Numbers, NotEarly, Waiting, NoOrigin, Watched
  <2>2. Flags'
      BY WokenType DEF TypeOK, Flags, Waiting
  <2> QED BY <2>1, <2>2 DEF TypeOK, Numbers, Flags
<1>2. NotEarly'
    BY VideoAssumption, WokenType DEF TypeOK, NotEarly, Waiting, NoOrigin
<1>3. Handoff'
    BY VideoAssumption, WokenType DEF TypeOK, Handoff
<1>4. NobodyServed'
    BY VideoAssumption, WokenType DEF TypeOK, NobodyServed, Waiting, Watched
<1> QED BY <1>1, <1>2, <1>3, <1>4

LEMMA DropKeeps == VideoInv /\ (DropQuit \/ DropNotify \/ DropJoin) => VideoInv'
<1> SUFFICES ASSUME VideoInv, DropQuit \/ DropNotify \/ DropJoin PROVE VideoInv'
    OBVIOUS
<1> USE DEF VideoInv, DropQuit, DropNotify, DropJoin, thread, shared
<1>1. TypeOK'
  <2>1. Numbers'
      BY VideoAssumption, WokenType DEF TypeOK, Numbers, NotEarly, Waiting, NoOrigin, Watched
  <2>2. Flags'
    <3>1. CASE DropQuit
        BY <3>1, WokenType DEF TypeOK, Flags, Waiting
    <3>2. CASE DropNotify
        BY <3>2, WokenType DEF TypeOK, Flags, Waiting
    <3>3. CASE DropJoin
        BY <3>3, WokenType DEF TypeOK, Flags, Waiting
    <3> QED BY <3>1, <3>2, <3>3
  <2> QED BY <2>1, <2>2 DEF TypeOK, Numbers, Flags
<1>2. NotEarly'
    BY VideoAssumption, WokenType DEF TypeOK, NotEarly, Waiting, NoOrigin
<1>3. Handoff'
    BY VideoAssumption, WokenType DEF TypeOK, Handoff
<1>4. NobodyServed'
    BY VideoAssumption, WokenType DEF TypeOK, NobodyServed, Waiting, Watched
<1> QED BY <1>1, <1>2, <1>3, <1>4

LEMMA TickKeeps == VideoInv /\ Tick => VideoInv'
<1> SUFFICES ASSUME VideoInv, Tick PROVE VideoInv'
    OBVIOUS
<1> USE DEF VideoInv, Tick, Decoding
<1>1. TypeOK'
  <2>1. Numbers'
      BY VideoAssumption DEF TypeOK, Numbers, NotEarly, Waiting, NoOrigin, Watched
  <2>2. Flags'
      BY DEF TypeOK, Flags, Waiting
  <2> QED BY <2>1, <2>2 DEF TypeOK, Numbers, Flags
<1>2. NotEarly'
    BY VideoAssumption DEF TypeOK, NotEarly, Waiting, NoOrigin
<1>3. Handoff'
    BY VideoAssumption DEF TypeOK, Handoff
<1>4. NobodyServed'
    BY VideoAssumption DEF TypeOK, NobodyServed, Waiting, Watched
<1> QED BY <1>1, <1>2, <1>3, <1>4

\* Together with NotEarly and NobodyServed, the properties below are inductive.
THEOREM VideoInvCorrect == Spec => []VideoInv
<1>1. VideoInv /\ [Next]_vars => VideoInv'
  <2>1. VideoInv /\ UNCHANGED vars => VideoInv'
      BY DEF VideoInv, TypeOK, NotEarly, Handoff, NobodyServed, Watched, vars, thread, shared
  <2> QED BY <2>1, CheckKeeps, DecodeKeeps, DueKeeps, PublishKeeps, PollKeeps, DropKeeps, TickKeeps
          DEF Next, RunNext, Stopped
<1> QED BY VideoInvInit, <1>1, PTL DEF Spec

\* Every variable keeps its shape, for any clip and timing; the thread is never
\* more than one frame ahead of its clock.
THEOREM VideoTypeCorrect == Spec => []TypeOK
BY VideoInvCorrect, PTL DEF VideoInv

\* poll and run (mod.rs): the slot holds a frame exactly when the counters say
\* there is one the owner has not seen, through every interleaving.
THEOREM HandoffCorrect == Spec => []Handoff
BY VideoInvCorrect, PTL DEF VideoInv

\* run (mod.rs): however the waits end, at most one frame is published after the
\* owner has been away for IDLE_AFTER, until it polls again.
THEOREM NoLoneDecodingCorrect == Spec => []NoLoneDecoding
<1>1. VideoInv => NoLoneDecoding
    BY DEF VideoInv, TypeOK, NobodyServed, NoLoneDecoding
<1> QED BY VideoInvCorrect, <1>1, PTL
=============================================================================
