---------------------------- MODULE MCRewardWatch ----------------------------
(***************************************************************************)
(* Small instances of RewardWatch for TLC.                                 *)
(***************************************************************************)
EXTENDS RewardWatch, TLC

CONSTANTS o1, u1

\* One watched orchestrator with one subscriber.
OneOrch == {o1}
OneUserSubs == (o1 :> {u1})
=============================================================================
