------------------------------- MODULE Outbox -------------------------------
(***************************************************************************)
(* What a notification pipeline of the bot promises about the rows it is   *)
(* fed: a row is accepted into the database before it is shown to anyone,  *)
(* it is shown only while it is not yet marked as sent, and it is marked   *)
(* as sent only once it has been shown (core-beliefs.md, rule 7).  How the *)
(* rows are paged in, grouped, posted and retried is left open.            *)
(***************************************************************************)
CONSTANT Items

VARIABLES
    known,   \* rows persisted in the database
    shown,   \* rows that somebody has seen at least once
    done     \* rows marked as sent

vars == <<known, shown, done>>

TypeOK == known \subseteq Items /\ shown \subseteq Items /\ done \subseteq Items

Init == known = {} /\ shown = {} /\ done = {}

Accept(T) ==
    /\ T \subseteq Items
    /\ known' = known \union T
    /\ UNCHANGED <<shown, done>>

\* A post shows pending rows only; showing again what was shown is allowed.
Show(T) ==
    /\ T \subseteq known \ done
    /\ shown' = shown \union T
    /\ UNCHANGED <<known, done>>

Complete(T) ==
    /\ T \subseteq shown \intersect known
    /\ done' = done \union T
    /\ UNCHANGED <<known, shown>>

Next == \E T \in SUBSET Items : Accept(T) \/ Show(T) \/ Complete(T)

Spec == Init /\ [][Next]_vars
=============================================================================
