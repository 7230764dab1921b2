--------------------------- MODULE MCSubscriberDms ---------------------------
(***************************************************************************)
(* A small instance of SubscriberDms for TLC: two pollers with events of   *)
(* the same orchestrator, one of them with an event of another.            *)
(***************************************************************************)
EXTENDS SubscriberDms, TLC

CONSTANTS u1, u2, o1, o2, reward, cut, i1, i2

StreamEvents == (reward :> {1, 2} @@ cut :> {3})
OrchOfEvent == (1 :> o1 @@ 2 :> o2 @@ 3 :> o1)
=============================================================================
