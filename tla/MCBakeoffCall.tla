------------------------------ MODULE MCBakeoffCall -----------------------------
(***************************************************************************)
(* One bakeoff call by itself, to ask of it what the acceptance document says *)
(* of a caller who speaks while a timer runs.                                 *)
(***************************************************************************)
EXTENDS BakeoffCall
=============================================================================
