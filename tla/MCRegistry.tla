----------------------------- MODULE MCRegistry -----------------------------
(***************************************************************************)
(* Registry on a small instance: a default cover and one from a window     *)
(* rule, two settings and a raw configuration that is wrong but parses to  *)
(* the second of them.                                                     *)
(***************************************************************************)
EXTENDS Registry, TLC

CONSTANTS p1, p2, s1, s2, rawA, rawB, rawBad

MCParseOf == [r \in Raws |-> IF r = rawA THEN s1 ELSE s2]
MCDefault == [s \in Configs |-> IF s = s1 THEN p1 ELSE NoPlay]

ThreadSymmetry == Permutations(Threads)

=============================================================================
