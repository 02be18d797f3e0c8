-------------------------------- MODULE Film --------------------------------
(***************************************************************************)
(* What a caller of Pipeline::next_frame is promised (the trait comments   *)
(* and Pipeline in src/media/video/pipeline.rs): the pictures of the file  *)
(* in display order, each once per pass, each at its own time plus the     *)
(* length of the passes before it; after the last one the end or, looped,  *)
(* the next pass; and an error only with a reason.                         *)
(***************************************************************************)
EXTENDS Integers, Sequences

CONSTANT NoFrame    \* the time of no frame

VARIABLES
    times,      \* the display times of the file's pictures, in display order
    length,     \* how much later each pass starts
    looped,     \* the cover loops
    shown,      \* pictures returned so far, over all passes
    last,       \* the time of the last one
    state,      \* "playing", "ended" or "failed"
    excuse      \* something has gone wrong that justifies an error

film == <<times, length, looped>>
vars == <<times, length, looped, shown, last, state, excuse>>

(* The time of the k-th picture ever shown. *)
TimeOf(k) == LET n == Len(times) IN ((k - 1) \div n) * length + times[((k - 1) % n) + 1]

Init == shown = 0 /\ last = NoFrame /\ state = "playing" /\ excuse \in BOOLEAN

Show ==
    /\ state = "playing" /\ times # <<>>
    /\ looped \/ shown < Len(times)
    /\ shown' = shown + 1 /\ last' = TimeOf(shown + 1)
    /\ UNCHANGED state

End ==
    /\ state = "playing" /\ ~looped /\ shown = Len(times)
    /\ state' = "ended" /\ UNCHANGED <<shown, last>>

Fail ==
    /\ state = "playing" /\ excuse'
    /\ state' = "failed" /\ UNCHANGED <<shown, last>>

Next ==
    /\ Show \/ End \/ Fail \/ UNCHANGED <<shown, last, state>>
    /\ excuse => excuse'
    /\ UNCHANGED film

Spec == Init /\ [][Next]_vars
=============================================================================
