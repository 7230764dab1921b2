---------------------------- MODULE MCCutChanges ----------------------------
(***************************************************************************)
(* Model values of CutChanges for TLC.                                     *)
(***************************************************************************)
EXTENDS CutChanges

CONSTANTS u1, u2, o1, i1, i2
=============================================================================
