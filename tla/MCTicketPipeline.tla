-------------------------- MODULE MCTicketPipeline --------------------------
(***************************************************************************)
(* Small instances of TicketPipeline for TLC.                              *)
(***************************************************************************)
EXTENDS TicketPipeline, TLC

CONSTANTS g1, g2   \* an AI and a transcoding gateway

\* Two tickets of one block and a later one. The oldest has no recipient: it is
\* fetched by every digest and never leaves the unsent rows.
MCTs   == <<1, 1, 2>>
NullTo == <<NoAddress, 1, 2>>
MCFrom == <<g1, g2, g1>>
MCTx   == <<1, 2, 3>>

\* A batch redemption: two tickets of one orchestrator in one transaction.
PairTs   == <<1, 2>>
PairTo   == <<1, 1>>
PairFrom == <<g1, g2>>
PairOneTx == <<1, 1>>
=============================================================================
