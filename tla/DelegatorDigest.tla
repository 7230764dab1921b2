--------------------------- MODULE DelegatorDigest ---------------------------
(***************************************************************************)
(* Bond, Unbond and Rebond events: the delegator_poller stores them from   *)
(* three streams, one after the other, and the subscriber_digest_poster    *)
(* tells the subscribers of each orchestrator about them in one DM, in     *)
(* which a Bond is a new delegator or a stake change. The startup seed     *)
(* and /subscribe fill delegator_history.                                  *)
(*                                                                         *)
(* Events are numbered as they happen on chain; those of one block have    *)
(* the same timestamp. How a DM fails is the subject of SubscriberDms.     *)
(***************************************************************************)
EXTENDS Integers, FiniteSets, Sequences

CONSTANTS
    Users, Orchs, Delegators,
    FirstPairs,     \* who delegates to whom when the bot is deployed
    Streams,        \* EVENT_NAMES: 1 is Bond, the others are treated alike
    FetchLimit,     \* FETCH_LIMIT
    FaultKinds,     \* calls that may fail: a subset of {"explorer", "store", "crash"}
    MaxEvents,      \* bound: events on chain
    MaxChurn,       \* bound: /subscribe and /unsubscribe commands
    MaxFaults       \* bound: failed calls and crashes

Pairs == Delegators \X Orchs
Ids == 1..MaxEvents

ASSUME DelegatorAssumption ==
    /\ Streams = 1..Cardinality(Streams) /\ 1 \in Streams
    /\ FirstPairs \subseteq Pairs /\ FetchLimit \in Nat \ {0}
    /\ FaultKinds \subseteq {"explorer", "store", "crash"}
    /\ MaxEvents \in Nat /\ MaxChurn \in Nat /\ MaxFaults \in Nat

VARIABLES
    chain,     \* explorer: sequence of events [name, pair, at]
    bonded,    \* explorer: pairs in the delegator lists
    booted,    \* the startup seed is over
    rows,      \* subscriptions: pairs <<user, orchestrator>>
    cursor,    \* cursor[k]: event up to which stream k is read
    stored,    \* ids in delegator_events
    sent,      \* those with sent_to_subscribers = 1
    history,   \* delegator_history
    poll,      \* the poller's tick
    digest,    \* the poster's iteration
    told,      \* Discord: DMs <<user, id>> that arrived
    resent,    \* Discord: those that arrived again
    toldNew,   \* Discord: ids of Bonds told as new delegators
    due,       \* history: due[e], subscribers since e was stored, without an attempt so far
    churn, faults

vars == <<chain, bonded, booted, rows, cursor, stored, sent, history, poll, digest, told, resent,
          toldNew, due, churn, faults>>
explorerVars == <<chain, bonded>>
tableVars == <<rows, cursor, stored, sent, history>>
ghostVars == <<told, resent, toldNew, due>>

ReadStream(k) == [pc |-> "list", k |-> k, todo |-> {}, upto |-> 0]
NewTick == ReadStream(1)
NewDigest(pc, batch, orchs) ==
    [pc |-> pc, orchs |-> orchs, batch |-> batch, orch |-> {}, subs |-> {},
     bonds |-> {}, fresh |-> {}, done |-> {}]
IdleDigest == NewDigest("idle", {}, {})

OrchOf(e) == chain[e].pair[2]
Subscribers(o) == {u \in Users : <<u, o>> \in rows}
ListedPairs(os) == {p \in bonded : p[2] \in os}

Init ==
    /\ chain = <<>> /\ bonded = FirstPairs /\ booted = FALSE
    /\ rows \in SUBSET (Users \X Orchs)
    /\ cursor = [k \in Streams |-> 0] /\ stored = {} /\ sent = {} /\ history = {}
    /\ poll = NewTick /\ digest = IdleDigest
    /\ told = {} /\ resent = {} /\ toldNew = {}
    /\ due = [e \in Ids |-> {}]
    /\ churn = 0 /\ faults = 0

Fault(kind) == kind \in FaultKinds /\ faults < MaxFaults /\ faults' = faults + 1

\* A delegator bonds, or unbonds or rebonds a part of the stake, in this block or a later one.
Happen(k, p) ==
    /\ Len(chain) < MaxEvents
    /\ k = 1 \/ p \in bonded
    /\ \E at \in IF chain = <<>> THEN {0} ELSE {chain[Len(chain)].at, chain[Len(chain)].at + 1} :
           chain' = Append(chain, [name |-> k, pair |-> p, at |-> at])
    /\ bonded' = bonded \union {p}
    /\ UNCHANGED <<booted, tableVars, poll, digest, ghostVars, churn, faults>>

-----------------------------------------------------------------------------
(* Seeding.                                                                *)

\* seed_all_subscribed, before the pollers start: pages the delegators of every
\* orchestrator somebody is subscribed to.
SeedAll ==
    /\ ~booted
    /\ booted' = TRUE
    /\ history' = history \union ListedPairs({r[2] : r \in rows})
    /\ UNCHANGED <<explorerVars, rows, cursor, stored, sent, poll, digest, ghostVars, churn, faults>>

\* /subscribe, with seed_one for a new row; a seed that fails is only logged.
Subscribe(u, o) ==
    /\ booted /\ churn < MaxChurn /\ <<u, o>> \notin rows
    /\ churn' = churn + 1
    /\ rows' = rows \union {<<u, o>>}
    /\ history' = history \union ListedPairs({o})
    /\ UNCHANGED <<explorerVars, booted, cursor, stored, sent, poll, digest, ghostVars, faults>>

Unsubscribe(u, o) ==
    /\ booted /\ churn < MaxChurn /\ <<u, o>> \in rows
    /\ churn' = churn + 1
    /\ rows' = rows \ {<<u, o>>}
    /\ due' = [e \in Ids |-> IF e \in stored /\ OrchOf(e) = o THEN due[e] \ {u} ELSE due[e]]
    /\ UNCHANGED <<explorerVars, booted, cursor, stored, sent, history, poll, digest, told,
                   resent, toldNew, faults>>

-----------------------------------------------------------------------------
(* delegator_poller: one stream after the other.                           *)

NextStream == IF poll.k + 1 \in Streams THEN ReadStream(poll.k + 1) ELSE NewTick

\* Mutant: the cursor of a page points behind an event that is not there yet.
PageEndAhead == Len(chain) + 1

\* The explorer's next_cursor: what has been listed.
PageEnd == Len(chain)

\* list_events past the cursor; the bound stays below PAGE_LIMIT.
List ==
    LET page == {e \in DOMAIN chain : e > cursor[poll.k] /\ chain[e].name = poll.k} IN
    /\ booted /\ poll.pc = "list"
    /\ poll' = IF page = {} THEN NextStream
               ELSE [poll EXCEPT !.pc = "insert", !.todo = page, !.upto = PageEnd]
    /\ UNCHANGED <<explorerVars, booted, tableVars, digest, ghostVars, churn, faults>>

\* insert_delegator_event, and record_first_seen for a new Bond.
InsertRow(e) ==
    /\ poll.pc = "insert" /\ e \in poll.todo /\ \A f \in poll.todo : e <= f
    /\ poll' = [poll EXCEPT !.todo = @ \ {e}]
    /\ stored' = stored \union {e}
    /\ history' = IF e \notin stored /\ poll.k = 1 THEN history \union {chain[e].pair} ELSE history
    /\ due' = IF e \in stored THEN due ELSE [due EXCEPT ![e] = Subscribers(OrchOf(e))]
    /\ UNCHANGED <<explorerVars, booted, rows, cursor, sent, digest, told, resent, toldNew,
                   churn, faults>>

\* The page is stored: the cursor moves if the explorer gave the next one.
EndPage ==
    /\ poll.pc = "insert" /\ poll.todo = {}
    /\ cursor' \in {cursor, [cursor EXCEPT ![poll.k] = poll.upto]}
    /\ poll' = NextStream
    /\ UNCHANGED <<explorerVars, booted, rows, stored, sent, history, digest, ghostVars, churn, faults>>

\* A call fails: this stream is given up for the tick, the next one is read.
StreamFails ==
    /\ booted
    /\ Fault("explorer")
    /\ poll' = NextStream
    /\ UNCHANGED <<explorerVars, booted, tableVars, digest, ghostVars, churn>>

-----------------------------------------------------------------------------
(* subscriber_digest_poster                                                *)

\* fetch_unsent_delegator_events: ORDER BY block_timestamp LIMIT, ties in any order.
FetchUnsent ==
    LET unsent == stored \ sent IN
    /\ booted /\ digest.pc = "idle" /\ unsent # {}
    /\ \E B \in SUBSET unsent :
        /\ Cardinality(B) = IF Cardinality(unsent) < FetchLimit THEN Cardinality(unsent)
                            ELSE FetchLimit
        /\ \A e \in B, f \in unsent \ B : chain[e].at <= chain[f].at
        /\ digest' = NewDigest("orch", B, {OrchOf(e) : e \in B})
    /\ UNCHANGED <<explorerVars, booted, tableVars, poll, ghostVars, churn, faults>>

\* The next orchestrator, in the order of a HashMap: find_for_orchestrator.
FindSubs(o) ==
    LET events == {e \in digest.batch : OrchOf(e) = o}
        bonds == {e \in events : chain[e].name = 1}
    IN
    /\ digest.pc = "orch" /\ o \in digest.orchs
    /\ digest' = IF Subscribers(o) = {}
                 THEN [digest EXCEPT !.orchs = @ \ {o}, !.done = @ \union events]
                 ELSE [digest EXCEPT !.orchs = @ \ {o}, !.orch = {o}, !.pc = "label",
                                     !.subs = Subscribers(o), !.bonds = bonds]
    /\ UNCHANGED <<explorerVars, booted, tableVars, poll, ghostVars, churn, faults>>

\* Mutant: only rows told already count as prior.
PriorSent(e) == {f \in sent : chain[f].pair = chain[e].pair /\ chain[f].at < chain[e].at}

\* count_prior_delegator_events
Prior(e) == {f \in stored : chain[f].pair = chain[e].pair /\ chain[f].at < chain[e].at}

\* A Bond without prior rows of its pair is a new delegator.
Label(e) ==
    /\ digest.pc = "label" /\ e \in digest.bonds
    /\ digest' = [digest EXCEPT !.bonds = @ \ {e},
                                !.fresh = IF Prior(e) = {} THEN @ \union {e} ELSE @]
    /\ UNCHANGED <<explorerVars, booted, tableVars, poll, ghostVars, churn, faults>>

\* All labelled: get_orchestrator, and the message is built.
GetProfile ==
    /\ digest.pc = "label" /\ digest.bonds = {}
    /\ digest' = [digest EXCEPT !.pc = "send"]
    /\ UNCHANGED <<explorerVars, booted, tableVars, poll, ghostVars, churn, faults>>

InDigest == {e \in digest.batch : OrchOf(e) \in digest.orch}

\* One attempt to DM one subscriber, ok or not; after a failed one the others still have
\* their turn.
SendDm(u, ok) ==
    LET dms == IF ok THEN {u} \X InDigest ELSE {} IN
    /\ digest.pc = "send" /\ u \in digest.subs
    /\ digest' = [digest EXCEPT !.subs = @ \ {u}]
    /\ told' = told \union dms
    /\ resent' = resent \union (dms \intersect told)
    /\ toldNew' = IF ok THEN toldNew \union (digest.fresh \intersect InDigest) ELSE toldNew
    /\ due' = [e \in Ids |-> IF e \in InDigest THEN due[e] \ {u} ELSE due[e]]
    /\ UNCHANGED <<explorerVars, booted, tableVars, poll, churn, faults>>

\* DMs are closed and the failure cannot be counted: the iteration ends.
CountingFails(u) ==
    /\ digest.pc = "send" /\ u \in digest.subs
    /\ Fault("store")
    /\ digest' = IdleDigest
    /\ due' = [e \in Ids |-> IF e \in InDigest THEN due[e] \ {u} ELSE due[e]]
    /\ UNCHANGED <<explorerVars, booted, tableVars, poll, told, resent, toldNew, churn>>

OrchDone ==
    /\ digest.pc = "send" /\ digest.subs = {}
    /\ digest' = [digest EXCEPT !.pc = "orch", !.orch = {}, !.fresh = {},
                                !.done = @ \union InDigest]
    /\ UNCHANGED <<explorerVars, booted, tableVars, poll, ghostVars, churn, faults>>

Marked == digest.done

\* Mutant: the whole batch is marked once the first orchestrator is served.
MarkBatch ==
    /\ digest.pc = "orch" /\ digest.done # {}
    /\ sent' = sent \union digest.batch
    /\ digest' = IdleDigest
    /\ UNCHANGED <<explorerVars, booted, rows, cursor, stored, history, poll, ghostVars, churn, faults>>

\* mark_delegator_events_sent, one transaction at the end of the iteration.
MarkSent ==
    /\ digest.pc = "orch" /\ digest.orchs = {}
    /\ sent' = sent \union Marked
    /\ digest' = IdleDigest
    /\ UNCHANGED <<explorerVars, booted, rows, cursor, stored, history, poll, ghostVars, churn, faults>>

\* A query or get_orchestrator fails: the iteration ends and nothing is marked.
DigestFails ==
    /\ digest.pc \in {"orch", "label"}
    /\ Fault("explorer")
    /\ digest' = IdleDigest
    /\ UNCHANGED <<explorerVars, booted, tableVars, poll, ghostVars, churn>>

\* The process dies and starts over with the seed.
Crash ==
    /\ Fault("crash")
    /\ booted' = FALSE /\ poll' = NewTick /\ digest' = IdleDigest
    /\ UNCHANGED <<explorerVars, tableVars, ghostVars, churn>>

Next ==
    \/ \E k \in Streams, p \in Pairs : Happen(k, p)
    \/ SeedAll
    \/ \E u \in Users, o \in Orchs : Subscribe(u, o) \/ Unsubscribe(u, o)
    \/ List \/ EndPage \/ StreamFails
    \/ \E e \in Ids : InsertRow(e) \/ Label(e)
    \/ FetchUnsent \/ GetProfile \/ OrchDone \/ MarkSent \/ DigestFails
    \/ \E o \in Orchs : FindSubs(o)
    \/ \E u \in Users, ok \in BOOLEAN : SendDm(u, ok)
    \/ \E u \in Users : CountingFails(u)
    \/ Crash

Spec == Init /\ [][Next]_vars

-----------------------------------------------------------------------------
(* Properties                                                              *)

Events == [name : Streams, pair : Pairs, at : 0..MaxEvents]
Polls == [pc : {"list", "insert"}, k : Streams, todo : SUBSET Ids, upto : 0..MaxEvents]
Digests == [pc : {"idle", "orch", "label", "send"}, orchs : SUBSET Orchs, batch : SUBSET Ids,
            orch : SUBSET Orchs, subs : SUBSET Users, bonds : SUBSET Ids, fresh : SUBSET Ids,
            done : SUBSET Ids]

\* Types of the tables and of the two tasks.
TypeOK ==
    /\ chain \in Seq(Events) /\ Len(chain) <= MaxEvents
    /\ bonded \subseteq Pairs /\ booted \in BOOLEAN
    /\ rows \subseteq Users \X Orchs
    /\ cursor \in [Streams -> 0..MaxEvents]
    /\ stored \subseteq DOMAIN chain /\ sent \subseteq stored /\ history \subseteq Pairs
    /\ poll \in Polls /\ digest \in Digests
    /\ resent \subseteq told /\ told \subseteq Users \X stored /\ toldNew \subseteq stored
    /\ due \in [Ids -> SUBSET Users]
    /\ churn \in 0..MaxChurn /\ faults \in 0..MaxFaults

\* An event is marked only after everybody who was subscribed to its orchestrator when it
\* was stored, and still is, has had a DM attempt, whoever else comes and goes.
MarkedMeansAttempted == \A e \in sent : due[e] = {}

\* A digest reaches a user again only after a fault.
RedeliveryNeedsFault == faults = 0 => resent = {}

\* The marks of delegator events and the DMs about them agree: nobody is passed over
\* by a mark, and nothing is told again as long as every call succeeds.
MarksMatchDms == MarkedMeansAttempted /\ RedeliveryNeedsFault

\* Of the Bonds of one delegator to one orchestrator, in different blocks, at most one
\* is ever told as a new delegator, also when several are in one window.
OneNewPerPair ==
    \A e, f \in toldNew : chain[e].pair = chain[f].pair => chain[e].at = chain[f].at
=============================================================================
