--------------------------- MODULE TicketPipeline ---------------------------
(***************************************************************************)
(* The public payout pipeline: event_poller pages WinningTicketRedeemed    *)
(* rows from the explorer into the events table behind a persisted cursor, *)
(* digest_poster turns the unsent rows into Discord webhook posts and      *)
(* marks them sent.  The two tasks share nothing but the database.         *)
(*                                                                         *)
(* A ticket is its position in the explorer's ledger order, so a cursor    *)
(* is the number of tickets already listed.  Volatile state (poll, digest) *)
(* is lost when the process dies; the tables and Discord are not.          *)
(***************************************************************************)
EXTENDS Integers, FiniteSets

CONSTANTS
    NumTickets,   \* tickets the explorer ever indexes (a bound, see README)
    PageLimit,    \* PAGE_LIMIT of event_poller
    FetchLimit,   \* DIGEST_FETCH_LIMIT
    Channels,     \* the configured webhook URLs
    MaxAttempts,  \* MAX_ATTEMPTS of DiscordWebhook: posts of a payload in one send
    AiGateways,   \* gateways the explorer knows with kind "ai"
    NoAddress,    \* a NULL address column
    Ts,           \* Ts[t]: block_timestamp of ticket t
    To,           \* To[t]: to_address, the rank of an orchestrator's address
    From,         \* From[t]: from_address, a gateway
    TxOf,         \* TxOf[t]: tx_hash
    MaxFaults     \* bound: failed calls and crashes in a behaviour

Tickets == 1..NumTickets
Orchs   == {To[t] : t \in Tickets} \ {NoAddress}
NoQuote == 0      \* valuation columns NULL or not positive

ASSUME NumTicketsAssumption == NumTickets \in Nat
ASSUME LimitsAssumption == PageLimit \in Nat \ {0} /\ FetchLimit \in Nat \ {0}
ASSUME FaultsAssumption == MaxFaults \in Nat
ASSUME AttemptsAssumption == MaxAttempts \in Nat \ {0}
ASSUME TsAssumption == Ts \in [Tickets -> Int]
ASSUME ToAssumption ==
    /\ To \in [Tickets -> Int \union {NoAddress}]
    /\ NoAddress \notin Int

VARIABLES
    indexed,    \* explorer: how many tickets it lists
    quoted,     \* explorer: tickets it has a USD valuation for
    cursor,     \* cursors table, row events:WinningTicketRedeemed
    events,     \* events table: rows stored
    valuation,  \* valuation[t]: the ticket whose USD figures row t holds
    sent,       \* rows with sent_to_discord = 1
    poll,       \* event_poller: the iteration in progress
    digest,     \* digest_poster: the iteration in progress
    posts,      \* Discord: posts[c][t] messages in channel c that show t
    lapses,     \* history: lapses[c][t] of them whose success was not recorded
    faults      \* failed calls and crashes so far

explorerVars == <<indexed, quoted>>
tableVars    == <<cursor, events, valuation, sent>>
vars == <<indexed, quoted, cursor, events, valuation, sent, poll, digest,
          posts, lapses, faults>>

-----------------------------------------------------------------------------
(* Grouping: what one digest iteration posts for a batch of rows.          *)

Postable(t) == To[t] # NoAddress /\ From[t] # NoAddress

Oldest(S) == {t \in S : \A u \in S : Ts[t] <= Ts[u]}

Smaller(a, b) == IF a < b THEN a ELSE b

\* Mutant: WHERE sent_to_discord = 0 is missing.
FetchAnyRow(n) ==
    {B \in SUBSET events :
        /\ Cardinality(B) = Smaller(n, Cardinality(events))
        /\ \A t \in B, u \in events \ B : Ts[t] <= Ts[u]}

\* fetch_unsent: ORDER BY block_timestamp LIMIT n, ties in any order.
FetchUnsent(n) ==
    LET unsent == events \ sent IN
    {B \in SUBSET unsent :
        /\ Cardinality(B) = Smaller(n, Cardinality(unsent))
        /\ \A t \in B, u \in unsent \ B : Ts[t] <= Ts[u]}

\* The tickets of orchestrator o in the AI digest, or in the other one. ai is
\* the set of gateways whose profile came back with kind "ai": one that the
\* explorer answers 404 for falls back to transcoding.
Group(B, o, isAi, ai) ==
    {t \in B : To[t] = o /\ From[t] # NoAddress /\ ((From[t] \in ai) = isAi)}

\* One job per nonempty group; aiOf[o] is the lookup made for orchestrator o.
Jobs(B, aiOf) ==
    {j \in [orch : Orchs, ai : BOOLEAN, ids : SUBSET B] :
        j.ids = Group(B, j.orch, j.ai, aiOf[j.orch]) /\ j.ids # {}}

\* latest_ts of S is below latest_ts of T.
EndsBefore(S, T) == \E t \in T : \A u \in S : Ts[u] < Ts[t]

\* jobs.sort_by(latest_ts, orch_addr, is_ai)
Before(j, k) ==
    \/ EndsBefore(j.ids, k.ids)
    \/ /\ ~EndsBefore(k.ids, j.ids)
       /\ j.orch < k.orch \/ (j.orch = k.orch /\ ~j.ai /\ k.ai)

\* get_winning_ticket_by_tx_hash: the first listed ticket of the transaction.
ByTxHash(t) ==
    CHOOSE u \in Tickets : /\ TxOf[u] = TxOf[t]
                           /\ \A w \in Tickets : TxOf[w] = TxOf[t] => u <= w

-----------------------------------------------------------------------------
IdlePoll == [pc |-> "idle", at |-> 0, upto |-> 0, quotes |-> {}, next |-> FALSE]

NoJob == [orch |-> 0, ai |-> FALSE, ids |-> {}]

IdleDigest ==
    [pc |-> "idle", batch |-> {}, todo |-> {}, quote |-> [t \in Tickets |-> NoQuote],
     known |-> {}, jobs |-> {}, job |-> NoJob, took |-> {}]

Init ==
    /\ indexed = 0 /\ quoted = {}
    /\ cursor = 0 /\ events = {} /\ sent = {}
    /\ valuation = [t \in Tickets |-> NoQuote]
    /\ poll = IdlePoll /\ digest = IdleDigest
    /\ posts = [c \in Channels |-> [t \in Tickets |-> 0]]
    /\ lapses = posts
    /\ faults = 0

-----------------------------------------------------------------------------
(* The explorer, as the bot sees it.                                       *)

IndexTicket ==
    /\ indexed < NumTickets
    /\ indexed' = indexed + 1
    /\ UNCHANGED <<quoted, tableVars, poll, digest, posts, lapses, faults>>

QuoteTicket(t) ==
    /\ t \in 1..indexed
    /\ t \notin quoted
    /\ quoted' = quoted \union {t}
    /\ UNCHANGED <<indexed, tableVars, poll, digest, posts, lapses, faults>>

-----------------------------------------------------------------------------
(* event_poller                                                            *)

PollTick ==
    /\ poll.pc = "idle"
    /\ poll' = [poll EXCEPT !.pc = "list"]
    /\ UNCHANGED <<explorerVars, tableVars, digest, posts, lapses, faults>>

\* Mutant: the cursor is saved before the page is stored.
ListPageCursorFirst ==
    LET upto == Smaller(cursor + PageLimit, indexed) IN
    /\ poll.pc = "list"
    /\ cursor' = upto
    /\ poll' = IF upto = cursor THEN IdlePoll
               ELSE [pc |-> "insert", at |-> cursor + 1, upto |-> upto,
                     quotes |-> quoted \intersect ((cursor + 1)..upto), next |-> TRUE]
    /\ UNCHANGED <<explorerVars, events, valuation, sent, digest, posts, lapses,
                   faults>>

\* One page after the cursor. An empty page ends the iteration; the last page
\* of the listing may come without a next_cursor.
ListPage ==
    LET upto == Smaller(cursor + PageLimit, indexed) IN
    /\ poll.pc = "list"
    /\ IF upto = cursor
       THEN poll' = IdlePoll
       ELSE \E next \in BOOLEAN :
               /\ ~next => upto = indexed
               /\ poll' = [pc |-> "insert", at |-> cursor + 1, upto |-> upto,
                           quotes |-> quoted \intersect ((cursor + 1)..upto),
                           next |-> next]
    /\ UNCHANGED <<explorerVars, tableVars, digest, posts, lapses, faults>>

\* Mutant: the repair also touches rows that were already sent.
RepairAnyRow(t, quote) ==
    valuation' = IF quote # NoQuote /\ valuation[t] = NoQuote
                 THEN [valuation EXCEPT ![t] = quote] ELSE valuation

\* insert_event: INSERT OR IGNORE, then the valuation repair of a pending row.
Repair(t, quote) ==
    valuation' = IF quote # NoQuote /\ valuation[t] = NoQuote /\ t \notin sent
                 THEN [valuation EXCEPT ![t] = quote] ELSE valuation

InsertEvent ==
    /\ poll.pc = "insert"
    /\ events' = events \union {poll.at}
    /\ Repair(poll.at, IF poll.at \in poll.quotes THEN poll.at ELSE NoQuote)
    /\ poll' = IF poll.at < poll.upto THEN [poll EXCEPT !.at = poll.at + 1]
                                      ELSE [poll EXCEPT !.pc = "advance"]
    /\ UNCHANGED <<explorerVars, cursor, sent, digest, posts, lapses, faults>>

\* Mutant: the saved cursor points one row too far.
AdvanceCursorTooFar ==
    /\ poll.pc = "advance"
    /\ cursor' = IF poll.next THEN poll.upto + 1 ELSE cursor
    /\ poll' = IdlePoll
    /\ UNCHANGED <<explorerVars, events, valuation, sent, digest, posts, lapses,
                   faults>>

\* set_cursor after the whole page is stored; a short page ends the iteration.
AdvanceCursor ==
    /\ poll.pc = "advance"
    /\ IF poll.next
       THEN /\ cursor' = poll.upto
            /\ poll' = IF poll.upto - cursor < PageLimit
                       THEN IdlePoll ELSE [IdlePoll EXCEPT !.pc = "list"]
       ELSE cursor' = cursor /\ poll' = IdlePoll
    /\ UNCHANGED <<explorerVars, events, valuation, sent, digest, posts, lapses,
                   faults>>

\* Any `?` of run_once: the iteration is dropped, the next tick starts over.
PollAborts ==
    /\ faults < MaxFaults
    /\ poll.pc # "idle"
    /\ poll' = IdlePoll
    /\ faults' = faults + 1
    /\ UNCHANGED <<explorerVars, tableVars, digest, posts, lapses>>

-----------------------------------------------------------------------------
(* digest_poster                                                           *)

FetchBatch ==
    /\ digest.pc = "idle"
    /\ events # sent
    /\ \E B \in FetchUnsent(FetchLimit) :
          digest' = [IdleDigest EXCEPT
                        !.pc = "refresh", !.batch = B,
                        !.todo = {t \in B : valuation[t] = NoQuote},
                        !.quote = [t \in Tickets |-> IF t \in B THEN valuation[t]
                                                               ELSE NoQuote],
                        !.known = B \intersect quoted]
    /\ UNCHANGED <<explorerVars, tableVars, poll, posts, lapses, faults>>

\* Mutant: the row is repaired, the copy that is posted is not.
RefreshRowOnly ==
    /\ digest.pc = "refresh"
    /\ \E t \in Oldest(digest.todo) :
          /\ Repair(t, IF ByTxHash(t) \in quoted THEN ByTxHash(t) ELSE NoQuote)
          /\ digest' = [digest EXCEPT !.todo = @ \ {t}]
    /\ UNCHANGED <<explorerVars, cursor, events, sent, poll, posts, lapses, faults>>

\* refresh_event_valuation of the next row without USD figures: the explorer is
\* asked by transaction hash, the pending row repaired, the copy overwritten.
RefreshValuation ==
    /\ digest.pc = "refresh"
    /\ \E t \in Oldest(digest.todo) :
          LET fresh == IF ByTxHash(t) \in quoted THEN ByTxHash(t) ELSE NoQuote IN
          /\ Repair(t, fresh)
          /\ digest' = [digest EXCEPT !.todo = @ \ {t}, !.quote[t] = fresh]
    /\ UNCHANGED <<explorerVars, cursor, events, sent, poll, posts, lapses, faults>>

\* Mutant: a 404 profile lookup ends the iteration.
BuildJobsNoFallback ==
    /\ digest.pc = "refresh" /\ digest.todo = {}
    /\ \E aiOf \in [Orchs -> SUBSET AiGateways] :
          LET jobs == Jobs(digest.batch, aiOf) IN
          digest' = IF jobs = {} \/ \E o \in Orchs : aiOf[o] # AiGateways
                    THEN IdleDigest
                    ELSE [digest EXCEPT !.pc = "send", !.jobs = jobs]
    /\ UNCHANGED <<explorerVars, tableVars, poll, posts, lapses, faults>>

\* Profile lookups and grouping. aiOf[o] holds the AI gateways found for o; the
\* ones the explorer does not know are posted as transcoding.
BuildJobs ==
    /\ digest.pc = "refresh" /\ digest.todo = {}
    /\ \E aiOf \in [Orchs -> SUBSET AiGateways] :
          LET jobs == Jobs(digest.batch, aiOf) IN
          digest' = IF jobs = {} THEN IdleDigest
                    ELSE [digest EXCEPT !.pc = "send", !.jobs = jobs]
    /\ UNCHANGED <<explorerVars, tableVars, poll, posts, lapses, faults>>

Earliest(J) == {j \in J : \A k \in J \ {j} : ~Before(k, j)}

\* Counters of the messages that show the rows ids, n[c] more in channel c.
Plus(counts, n, ids) ==
    [c \in Channels |-> [t \in Tickets |->
        IF t \in ids THEN counts[c][t] + n[c] ELSE counts[c][t]]]

\* One message in each of the channels C.
Once(C) == [c \in Channels |-> IF c \in C THEN 1 ELSE 0]

\* How often the channels may show a payload without a 2xx when those in took end
\* with one: an attempt answered with a 5xx may be shown all the same and
\* DiscordWebhook::send posts again, the answer to the last attempt may be lost.
Strays(took) ==
    {n \in [Channels -> 0..MaxAttempts] : \A c \in took : n[c] < MaxAttempts}

\* Drop the iteration's state once its last job is dealt with.
Continue(d) == IF d.jobs = {} THEN IdleDigest
                              ELSE [d EXCEPT !.pc = "send", !.job = NoJob, !.took = {}]

\* FanOutNotifier::send is Ok once one webhook took the message. Those in took
\* answered 2xx, some of them after a retry.
SendDelivered ==
    /\ digest.pc = "send"
    /\ \E j \in Earliest(digest.jobs), took \in (SUBSET Channels) \ {{}} :
          /\ \E n \in Strays(took) :
                /\ posts' = Plus(Plus(posts, n, j.ids), Once(took), j.ids)
                /\ lapses' = Plus(lapses, n, j.ids)
                /\ faults' = IF \E c \in Channels : n[c] > 0 THEN faults + 1 ELSE faults
          /\ digest' = [digest EXCEPT !.pc = "mark", !.job = j, !.jobs = @ \ {j},
                                      !.took = took]
    /\ faults' <= MaxFaults
    /\ UNCHANGED <<explorerVars, tableVars, poll>>

\* Mutant: the error arm marks the rows as well.
SendFailsMarks ==
    /\ faults < MaxFaults
    /\ digest.pc = "send"
    /\ \E j \in Earliest(digest.jobs) :
          /\ sent' = sent \union j.ids
          /\ digest' = Continue([digest EXCEPT !.jobs = @ \ {j}])
    /\ faults' = faults + 1
    /\ UNCHANGED <<explorerVars, cursor, events, valuation, poll, posts, lapses>>

\* Every webhook reported an error, though its channel may show the message. The
\* job is logged and skipped, its rows stay.
SendFails ==
    /\ faults < MaxFaults
    /\ digest.pc = "send"
    /\ \E j \in Earliest(digest.jobs), n \in Strays({}) :
          /\ posts' = Plus(posts, n, j.ids)
          /\ lapses' = Plus(lapses, n, j.ids)
          /\ digest' = Continue([digest EXCEPT !.jobs = @ \ {j}])
    /\ faults' = faults + 1
    /\ UNCHANGED <<explorerVars, tableVars, poll>>

\* mark_sent: one transaction for all rows of the job.
MarkSent ==
    /\ digest.pc = "mark"
    /\ sent' = sent \union digest.job.ids
    /\ digest' = Continue(digest)
    /\ UNCHANGED <<explorerVars, cursor, events, valuation, poll, posts, lapses,
                   faults>>

\* The post that was confirmed is not recorded: its rows stay unsent.
LosePost ==
    lapses' = IF digest.pc = "mark" THEN Plus(lapses, Once(digest.took), digest.job.ids)
                                    ELSE lapses

\* A failed explorer or database call ends the iteration, its jobs are dropped.
DigestAborts ==
    /\ faults < MaxFaults
    /\ digest.pc \in {"refresh", "mark"}
    /\ digest' = IdleDigest
    /\ LosePost
    /\ faults' = faults + 1
    /\ UNCHANGED <<explorerVars, tableVars, poll, posts>>

-----------------------------------------------------------------------------
\* The process dies and is started again.
Crash ==
    /\ faults < MaxFaults
    /\ poll.pc # "idle" \/ digest.pc # "idle"
    /\ poll' = IdlePoll /\ digest' = IdleDigest
    /\ LosePost
    /\ faults' = faults + 1
    /\ UNCHANGED <<explorerVars, tableVars, posts>>

PollNext   == PollTick \/ ListPage \/ InsertEvent \/ AdvanceCursor
DigestNext == FetchBatch \/ RefreshValuation \/ BuildJobs \/ SendDelivered \/ MarkSent

Next ==
    \/ IndexTicket \/ \E t \in Tickets : QuoteTicket(t)
    \/ PollNext \/ PollAborts
    \/ DigestNext \/ SendFails \/ DigestAborts
    \/ Crash

Spec == Init /\ [][Next]_vars

\* Both tasks keep being scheduled (a tokio interval and a sleep loop).
FairSpec == Spec /\ WF_vars(PollNext) /\ WF_vars(DigestNext)

-----------------------------------------------------------------------------
(* Properties                                                              *)

JobType == [orch : Int, ai : BOOLEAN, ids : SUBSET Tickets]

\* Types of the tables, of the two iterations and of the observed posts.
TypeOK ==
    /\ indexed \in 0..NumTickets
    /\ quoted \subseteq Tickets
    /\ cursor \in 0..NumTickets
    /\ events \subseteq Tickets
    /\ valuation \in [Tickets -> Tickets \union {NoQuote}]
    /\ sent \subseteq Tickets
    /\ poll \in [pc : {"idle", "list", "insert", "advance"}, at : Nat, upto : Nat,
                 quotes : SUBSET Tickets, next : BOOLEAN]
    /\ digest \in [pc : {"idle", "refresh", "send", "mark"},
                   batch : SUBSET Tickets, todo : SUBSET Tickets,
                   quote : [Tickets -> Tickets \union {NoQuote}],
                   known : SUBSET Tickets, jobs : SUBSET JobType, job : JobType,
                   took : SUBSET Channels]
    /\ posts \in [Channels -> [Tickets -> Nat]]
    /\ lapses \in [Channels -> [Tickets -> Nat]]
    /\ faults \in 0..MaxFaults

\* No ticket is lost by a crash or an error in the middle of a page: whatever
\* the persisted cursor has passed is stored (event_poller inserts a page
\* before it saves the cursor).
NothingSkipped == 1..cursor \subseteq events

\* A channel shows a row again only if the success of an earlier message there was
\* not recorded: an attempt answered with a 5xx was shown, an answer was lost,
\* mark_sent failed, or the process died between the post and mark_sent. Once a
\* success is recorded no retry, no page listed again, no grouping of a batch and no
\* interleaving of the two tasks shows the row there again.
DuplicatesNeedLapse ==
    \A c \in Channels, t \in Tickets : posts[c][t] <= 1 + lapses[c][t]

\* A row the explorer had priced when the iteration fetched it is posted with
\* USD figures, although it was stored without them.
PostedWithKnownPrice ==
    digest.pc \in {"send", "mark"} =>
        \A t \in digest.known : digest.quote[t] # NoQuote

\* Once a row is marked sent it stays so and its figures are the ones that
\* were stored at that moment, whatever the poller lists again.
SentRowsFrozen ==
    [][\A t \in sent : t \in sent' /\ valuation'[t] = valuation[t]]_vars

\* The pipeline is an outbox: stored before shown, shown only while pending,
\* marked only after it was shown (core-beliefs.md, rule 7).
Shown == {t \in Tickets : \E c \in Channels : posts[c][t] > 0}

OB == INSTANCE Outbox WITH Items <- Tickets, known <- events, shown <- Shown,
                           done <- sent

DeliversAsOutbox == OB!Spec

\* Every complete ticket the explorer lists is eventually marked sent, once
\* the faults are over.
EventuallySent ==
    \A t \in Tickets : (t <= indexed /\ Postable(t)) ~> (t \in sent)

\* The USD figures of a stored row are its own: 0001_initial.sql calls events
\* a vendored copy of the explorer's rows.
ValuationIsOwn == \A t \in Tickets : valuation[t] \in {NoQuote, t}
=============================================================================
