----------------------------- MODULE MCPlugin ------------------------------
(***************************************************************************)
(* Plugin on small instances: two other plugins and two monitors.          *)
(***************************************************************************)
EXTENDS Plugin, TLC

PeerSymmetry == Permutations(Peers)
=============================================================================
