------------------------------ MODULE CoverLife ------------------------------
(***************************************************************************)
(* What the shim relies on about the covers (src/shim/paint.cpp): it keeps *)
(* a cover's texture under the cover's id, replaces it when the generation *)
(* of the frame differs, forgets all textures when the epoch changes, and  *)
(* reads a frame's pixels until the end of the capture frame.  So an id is *)
(* never used again, has one source, whose frames it shows until that      *)
(* source fails for good, and outlives the frame it was shown in; and only *)
(* new settings or the unload take covers away between two frames.         *)
(***************************************************************************)
EXTENDS Naturals

CONSTANT Covers

VARIABLES
    life,       \* of each cover: its id, its stage and what it shows, 0 for nothing
    given,      \* what it has shown in this capture frame
    fresh,      \* the next id
    epoch,      \* of the settings
    painting,   \* a capture frame is being painted
    up          \* the core is loaded

vars == <<life, given, fresh, epoch, painting, up>>

NoCover == [id |-> 0, stage |-> "absent", frame |-> 0]
Opened(stage) == [id |-> fresh, stage |-> stage, frame |-> 0]
Present(c) == life[c].stage # "absent"

NoneGiven == [c \in Covers |-> 0]
Closed == [c \in Covers |-> NoCover]

Init ==
    /\ life = Closed /\ given = NoneGiven
    /\ fresh \in Nat \ {0} /\ epoch \in Nat /\ painting = FALSE /\ up = TRUE

Prewarm(c) ==
    /\ up /\ ~painting /\ fresh' = fresh + 1 /\ ~Present(c)
    /\ life' = [life EXCEPT ![c] = Opened("opening")]
    /\ UNCHANGED <<given, epoch, painting, up>>

(* New settings: all covers go, and the default cover comes. *)
Reset ==
    /\ up /\ ~painting /\ epoch' = epoch + 1
    /\ \/ life' = Closed /\ UNCHANGED fresh
       \/ /\ \E c \in Covers : life' = [Closed EXCEPT ![c] = Opened("opening")]
          /\ fresh' = fresh + 1
    /\ UNCHANGED <<given, painting, up>>

Shutdown ==
    /\ up /\ ~painting /\ ~up'
    /\ life' = Closed
    /\ UNCHANGED <<given, fresh, epoch, painting>>

BeginFrame ==
    /\ up /\ ~painting /\ painting'
    /\ UNCHANGED <<life, given, fresh, epoch, up>>

(* The first call with something to show decides for the whole frame. *)
Resolve(c) ==
    /\ up /\ painting /\ given[c] = 0
    /\ UNCHANGED <<epoch, painting, up>>
    /\ life' = [life EXCEPT ![c] = life'[c]]
    /\ given' = [given EXCEPT ![c] = life'[c].frame]

OpenInFrame(c) ==
    /\ fresh' = fresh + 1 /\ ~Present(c)
    /\ Resolve(c)
    /\ life'[c] \in {Opened("opening"), Opened("failed")}

(* There is a way back from a missing file only. *)
Follow == [opening |-> {"opening", "missing", "ready", "failed"},
           missing |-> {"missing", "opening", "failed"},
           ready   |-> {"ready", "failed"},
           failed  |-> {"failed"}]

(* A frame is followed by a frame while the source plays, and is not shown  *)
(* when it has failed.                                                      *)
Look(c) ==
    /\ Resolve(c) /\ UNCHANGED fresh
    /\ Present(c) /\ life'[c].id = life[c].id
    /\ life'[c].stage \in Follow[life[c].stage]
    /\ life'[c].frame # 0 => life'[c].stage = "ready"
    /\ life[c].frame # 0 /\ life'[c].stage = "ready" => life'[c].frame # 0

(* Covers that were not shown may be closed. *)
EndFrame ==
    /\ up /\ painting /\ ~painting'
    /\ \E S \in SUBSET {c \in Covers : given[c] = 0} :
          life' = [c \in Covers |-> IF c \in S THEN NoCover ELSE life[c]]
    /\ given' = NoneGiven
    /\ UNCHANGED <<fresh, epoch, up>>

Next ==
    \/ \E c \in Covers : Prewarm(c) \/ OpenInFrame(c) \/ Look(c)
    \/ Reset \/ Shutdown \/ BeginFrame \/ EndFrame

Spec == Init /\ [][Next]_vars
=============================================================================
