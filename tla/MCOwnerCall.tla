------------------------------ MODULE MCOwnerCall ------------------------------
(* Small instances of OwnerCall for TLC. *)
EXTENDS OwnerCall, TLC

CONSTANTS a1, a2, d1, q1, op1, op2

\* a2 repeats the operation of a1, as the client's retry of a POST does.
RetriedOp == (a1 :> op1) @@ (a2 :> op1)
\* A decline without an operation id, as older apps send it.
OldDecline == (a1 :> op1) @@ (d1 :> LegacyOp)
OneDecline == (d1 :> op2)
NoPosts == << >>
OneDevice == (a1 :> op1)
=============================================================================
