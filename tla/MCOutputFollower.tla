-------------------------- MODULE MCOutputFollower --------------------------
(***************************************************************************)
(* Model-checking instances of OutputFollower.                             *)
(***************************************************************************)
EXTENDS OutputFollower
=============================================================================
