----------------------------- MODULE MCCapture -----------------------------
(***************************************************************************)
(* Capture on small instances.  The surface `shared' has a rule that keeps *)
(* its cover for two ticks and lets the client `friend' see it; `win' has  *)
(* one that only hides it.                                                 *)
(***************************************************************************)
EXTENDS Capture

CONSTANTS win, shared, stream, friend

MCRules == [s \in Surfaces |->
              IF s = shared THEN [hold |-> 2, show |-> {friend} \intersect Clients]
              ELSE [hold |-> 0, show |-> {}]]
=============================================================================
