---------------------------- MODULE SubscriberDms ----------------------------
(***************************************************************************)
(* The subscriptions table and the tasks that use it at the same time: the *)
(* slash commands /subscribe and /unsubscribe, and the pollers that send   *)
(* each stored event by DM to the subscribers of its orchestrator and      *)
(* track the health of every subscription's DMs (reward_poller and         *)
(* cut_change_poller, which dispatch alike, from a table each).            *)
(*                                                                         *)
(* Statements of the database are atomic; everything interleaves between   *)
(* them.  Events are numbered by block_timestamp.                          *)
(***************************************************************************)
EXTENDS Integers, FiniteSets

CONSTANTS
    Users, Orchs,
    Fickle,         \* users that change their DM settings
    Pollers,        \* the tasks that dispatch events
    Events,         \* Events[p]: the events of poller p's stream
    EventOrch,      \* EventOrch[e]: its orchestrator
    Interactions,   \* slash commands that can be in flight together
    Cap,            \* max_subscriptions_per_user
    Threshold,      \* failure_threshold
    Batch,          \* DISPATCH_BATCH
    MaxCommands,    \* bound: slash commands
    MaxToggles,     \* bound: changes of a user's DM settings
    MaxFaults       \* bound: failed calls and crashes

AllEvents == UNION {Events[p] : p \in Pollers}

ASSUME EventsAssumption ==
    /\ Events \in [Pollers -> SUBSET Nat]
    /\ EventOrch \in [AllEvents -> Orchs]
    /\ \A p, q \in Pollers : p # q => Events[p] \intersect Events[q] = {}
ASSUME LimitsAssumption ==
    /\ Cap \in Nat \ {0} /\ Threshold \in Nat \ {0} /\ Batch \in Nat \ {0}
    /\ IsFiniteSet(Interactions) /\ IsFiniteSet(Orchs)
ASSUME DmBoundsAssumption ==
    Fickle \subseteq Users /\ MaxCommands \in Nat /\ MaxToggles \in Nat /\ MaxFaults \in Nat

VARIABLES
    rows,       \* subscriptions: pairs <<user, orchestrator>>
    failures,   \* dm_failure_count of a row, 0 without a row
    blocked,    \* rows with dm_blocked = 1
    cmd,        \* cmd[i]: the slash command in flight
    stored,     \* stored[p]: events in the table of poller p
    sent,       \* sent[p]: those with sent_to_subscribers_at set
    work,       \* work[p]: the dispatch in progress
    open,       \* Discord: users that accept DMs from the bot
    dms,        \* Discord: dms[e][u], DMs about event e that reached u
    owed,       \* history: owed[e], subscribers read when e was last taken up
    lapses,     \* history: lapses[e], dispatches of e cut short
    commands, toggles, faults,
    peak        \* history: most commands of one user in flight together

tableVars == <<rows, failures, blocked>>
streamVars == <<stored, sent>>
bounds == <<commands, toggles, faults, peak>>
vars == <<rows, failures, blocked, cmd, stored, sent, work, open, dms, owed, lapses,
          commands, toggles, faults, peak>>

NoCmd == [pc |-> "none", row |-> {}]
Idle == [pc |-> "idle", batch |-> {}, event |-> {}, todo |-> {}, seen |-> {}, user |-> {}]

Init ==
    /\ rows = {} /\ failures = [u \in Users |-> [o \in Orchs |-> 0]] /\ blocked = {}
    /\ cmd = [i \in Interactions |-> NoCmd]
    /\ stored = [p \in Pollers |-> {}] /\ sent = [p \in Pollers |-> {}]
    /\ work = [p \in Pollers |-> Idle]
    /\ open = Users
    /\ dms = [e \in AllEvents |-> [u \in Users |-> 0]]
    /\ owed = [e \in AllEvents |-> Users]
    /\ lapses = [e \in AllEvents |-> 0]
    /\ commands = 0 /\ toggles = 0 /\ faults = 0 /\ peak = 0

-----------------------------------------------------------------------------
(* Slash commands.                                                         *)

RowsOf(u) == {r \in rows : r[1] = u}

\* Commands of the user that wait for the explorer.
InFlight(u) == Cardinality({i \in Interactions : \E o \in Orchs : <<u, o>> \in cmd[i].row})

\* Mutant: off by one.
BeginSubscribeOneMore(i, u, o) ==
    /\ cmd[i].pc = "none" /\ commands < MaxCommands
    /\ commands' = commands + 1
    /\ cmd' = IF Cardinality(RowsOf(u)) > Cap THEN cmd
              ELSE [cmd EXCEPT ![i] = [pc |-> "lookup", row |-> {<<u, o>>}]]
    /\ peak' = IF peak < InFlight(u)' THEN InFlight(u)' ELSE peak
    /\ UNCHANGED <<tableVars, streamVars, work, open, dms, owed, lapses, toggles, faults>>

\* /subscribe: count_for_user, refused at the cap; then the explorer is asked.
BeginSubscribe(i, u, o) ==
    /\ cmd[i].pc = "none" /\ commands < MaxCommands
    /\ commands' = commands + 1
    /\ cmd' = IF Cardinality(RowsOf(u)) >= Cap THEN cmd
              ELSE [cmd EXCEPT ![i] = [pc |-> "lookup", row |-> {<<u, o>>}]]
    /\ peak' = IF peak < InFlight(u)' THEN InFlight(u)' ELSE peak
    /\ UNCHANGED <<tableVars, streamVars, work, open, dms, owed, lapses, toggles, faults>>

\* The orchestrator was found: INSERT OR IGNORE.
Insert(i) ==
    /\ cmd[i].pc = "lookup"
    /\ rows' = rows \union cmd[i].row
    /\ cmd' = [cmd EXCEPT ![i] = NoCmd]
    /\ UNCHANGED <<failures, blocked, streamVars, work, open, dms, owed, lapses, bounds>>

\* The orchestrator was not found, or the explorer did not answer.
Refuse(i) ==
    /\ cmd[i].pc = "lookup"
    /\ cmd' = [cmd EXCEPT ![i] = NoCmd]
    /\ UNCHANGED <<tableVars, streamVars, work, open, dms, owed, lapses, bounds>>

\* /unsubscribe deletes the row with its failure count and its flag.
Unsubscribe(u, o) ==
    /\ commands < MaxCommands /\ <<u, o>> \in rows
    /\ commands' = commands + 1
    /\ rows' = rows \ {<<u, o>>}
    /\ failures' = [failures EXCEPT ![u][o] = 0]
    /\ blocked' = blocked \ {<<u, o>>}
    /\ UNCHANGED <<cmd, streamVars, work, open, dms, owed, lapses, toggles, faults, peak>>

\* A user closes or opens DMs, leaves or joins the server.
ToggleDms(u) ==
    /\ toggles < MaxToggles
    /\ toggles' = toggles + 1
    /\ open' = IF u \in open THEN open \ {u} ELSE open \union {u}
    /\ UNCHANGED <<tableVars, cmd, streamVars, work, dms, owed, lapses, commands, faults, peak>>

-----------------------------------------------------------------------------
(* A poller: ingest new events, then dispatch the oldest unsent ones.      *)

Oldest(S) == {e \in S : \A d \in S : e <= d}

\* Mutant: the newest event sent serves as a cursor.
FetchAfterLastSent(p) ==
    LET unsent == {e \in stored[p] : \A d \in sent[p] : d < e} IN
    {e \in unsent : Cardinality({d \in unsent : d < e}) < Batch}

\* fetch_unsent_*_events: the oldest Batch rows.
FetchUnsent(p) ==
    LET unsent == stored[p] \ sent[p] IN
    {e \in unsent : Cardinality({d \in unsent : d < e}) < Batch}

\* INSERT OR IGNORE of a page of events; nothing is dispatched meanwhile.
Ingest(p, S) ==
    /\ work[p].pc = "idle"
    /\ S # {} /\ S \subseteq Events[p] \ stored[p]
    /\ stored' = [stored EXCEPT ![p] = @ \union S]
    /\ UNCHANGED <<tableVars, cmd, sent, work, open, dms, owed, lapses, bounds>>

StartDispatch(p) ==
    /\ work[p].pc = "idle" /\ FetchUnsent(p) # {}
    /\ work' = [work EXCEPT ![p] = [Idle EXCEPT !.pc = "next", !.batch = FetchUnsent(p)]]
    /\ UNCHANGED <<tableVars, cmd, streamVars, open, dms, owed, lapses, bounds>>

\* find_for_orchestrator: the rows, with their flags, as of now. Without rows
\* the profile is not asked for.
TakeEvent(p) ==
    /\ work[p].pc = "next"
    /\ \E e \in Oldest(work[p].batch) :
          LET subs == {u \in Users : <<u, EventOrch[e]>> \in rows} IN
          /\ work' = [work EXCEPT
                         ![p] = [work[p] EXCEPT
                           !.pc = IF subs = {} THEN "dm" ELSE "profile",
                           !.batch = @ \ {e}, !.event = {e}, !.todo = subs,
                           !.seen = {u \in subs : <<u, EventOrch[e]>> \in blocked}]]
          /\ owed' = [owed EXCEPT ![e] = subs]
    /\ UNCHANGED <<tableVars, cmd, streamVars, open, dms, lapses, bounds>>

\* get_orchestrator
GetProfile(p) ==
    /\ work[p].pc = "profile"
    /\ work' = [work EXCEPT ![p] = [work[p] EXCEPT !.pc = "dm"]]
    /\ UNCHANGED <<tableVars, cmd, streamVars, open, dms, owed, lapses, bounds>>

Reached(p, u) == [e \in AllEvents |-> IF e \in work[p].event
                                      THEN [dms[e] EXCEPT ![u] = @ + 1] ELSE dms[e]]

\* send_dm, answered with success or with 403.
SendDm(p, u) ==
    /\ work[p].pc = "dm" /\ u \in work[p].todo
    /\ dms' = IF u \in open THEN Reached(p, u) ELSE dms
    /\ work' = [work EXCEPT ![p] = [work[p] EXCEPT
                  !.pc = IF u \in open THEN "clear" ELSE "count",
                  !.todo = @ \ {u}, !.user = {u}]]
    /\ UNCHANGED <<tableVars, cmd, streamVars, open, owed, lapses, bounds>>

\* send_dm with any other error, delivered or not: logged, not tried again.
SendDmFails(p, u) ==
    /\ faults < MaxFaults
    /\ work[p].pc = "dm" /\ u \in work[p].todo
    /\ \/ dms' = dms
       \/ u \in open /\ dms' = Reached(p, u)
    /\ work' = [work EXCEPT ![p] = [work[p] EXCEPT !.todo = @ \ {u}]]
    /\ faults' = faults + 1
    /\ UNCHANGED <<tableVars, cmd, streamVars, open, owed, lapses, commands, toggles, peak>>

\* The row of the DM just sent.
CurrentRow(p) == {<<u, EventOrch[e]>> : u \in work[p].user, e \in work[p].event}

Settled(p) == [work EXCEPT ![p] = [work[p] EXCEPT !.pc = "dm", !.user = {}]]

FailuresAfter(S, n) ==
    [u \in Users |-> [o \in Orchs |-> IF <<u, o>> \in S THEN n ELSE failures[u][o]]]

\* clear_dm_failure
ClearDmFailure(p) ==
    /\ work[p].pc = "clear"
    /\ failures' = FailuresAfter(CurrentRow(p), 0)
    /\ blocked' = blocked \ CurrentRow(p)
    /\ work' = Settled(p)
    /\ UNCHANGED <<rows, cmd, streamVars, open, dms, owed, lapses, bounds>>

\* Its error is ignored.
ClearFails(p) ==
    /\ faults < MaxFaults
    /\ work[p].pc = "clear"
    /\ work' = Settled(p)
    /\ faults' = faults + 1
    /\ UNCHANGED <<tableVars, cmd, streamVars, open, dms, owed, lapses, commands, toggles, peak>>

\* increment_dm_failure: the new count, 0 if the row is gone; the flag is raised
\* unless the row carried it when the subscribers were read.
IncrementDmFailure(p) ==
    LET row == CurrentRow(p) \intersect rows
        over == \E r \in row : failures[r[1]][r[2]] + 1 >= Threshold IN
    /\ work[p].pc = "count"
    /\ failures' = [u \in Users |-> [o \in Orchs |->
                       IF <<u, o>> \in row THEN failures[u][o] + 1 ELSE failures[u][o]]]
    /\ work' = IF over /\ work[p].user \intersect work[p].seen = {}
               THEN [work EXCEPT ![p] = [work[p] EXCEPT !.pc = "flag"]] ELSE Settled(p)
    /\ UNCHANGED <<rows, blocked, cmd, streamVars, open, dms, owed, lapses, bounds>>

\* Mutant: the flag is kept per user, not per subscription.
SetDmBlockedPerUser(p) ==
    /\ work[p].pc = "flag"
    /\ blocked' = blocked \union work[p].user
    /\ work' = Settled(p)
    /\ UNCHANGED <<rows, failures, cmd, streamVars, open, dms, owed, lapses, bounds>>

\* set_dm_blocked, a row that is gone stays gone.
SetDmBlocked(p) ==
    /\ work[p].pc = "flag"
    /\ blocked' = blocked \union (CurrentRow(p) \intersect rows)
    /\ work' = Settled(p)
    /\ UNCHANGED <<rows, failures, cmd, streamVars, open, dms, owed, lapses, bounds>>

\* Mutant: everything fetched is marked with the first event.
MarkBatchSent(p) ==
    /\ work[p].pc = "dm" /\ work[p].todo = {}
    /\ sent' = [sent EXCEPT ![p] = @ \union work[p].event \union work[p].batch]
    /\ work' = [work EXCEPT ![p] = [work[p] EXCEPT !.pc = "next", !.event = {}, !.seen = {}]]
    /\ UNCHANGED <<tableVars, cmd, stored, open, dms, owed, lapses, bounds>>

\* mark_*_event_sent once every subscriber was tried.
MarkSent(p) ==
    /\ work[p].pc = "dm" /\ work[p].todo = {}
    /\ sent' = [sent EXCEPT ![p] = @ \union work[p].event]
    /\ work' = [work EXCEPT ![p] = [work[p] EXCEPT !.pc = "next", !.event = {}, !.seen = {}]]
    /\ UNCHANGED <<tableVars, cmd, stored, open, dms, owed, lapses, bounds>>

EndDispatch(p) ==
    /\ work[p].pc = "next" /\ work[p].batch = {}
    /\ work' = [work EXCEPT ![p] = Idle]
    /\ UNCHANGED <<tableVars, cmd, streamVars, open, dms, owed, lapses, bounds>>

LapsesOf(S) == [e \in AllEvents |-> IF e \in S THEN lapses[e] + 1 ELSE lapses[e]]

\* A read or a write fails: the dispatch ends, to start over at the next tick.
CallFails(p) ==
    /\ faults < MaxFaults
    /\ work[p].pc \in {"next", "profile", "count", "flag"}
          \/ (work[p].pc = "dm" /\ work[p].todo = {})
    /\ work' = [work EXCEPT ![p] = Idle]
    /\ lapses' = LapsesOf(work[p].event)
    /\ faults' = faults + 1
    /\ UNCHANGED <<tableVars, cmd, streamVars, open, dms, owed, commands, toggles, peak>>

\* The process dies: dispatches and commands in flight are gone.
Crash ==
    /\ faults < MaxFaults
    /\ work' = [p \in Pollers |-> Idle]
    /\ cmd' = [i \in Interactions |-> NoCmd]
    /\ lapses' = LapsesOf(UNION {work[p].event : p \in Pollers})
    /\ faults' = faults + 1
    /\ UNCHANGED <<tableVars, streamVars, open, dms, owed, commands, toggles, peak>>

DispatchNext(p) ==
    \/ StartDispatch(p) \/ TakeEvent(p) \/ GetProfile(p)
    \/ \E u \in Users : SendDm(p, u)
    \/ ClearDmFailure(p) \/ IncrementDmFailure(p) \/ SetDmBlocked(p)
    \/ MarkSent(p) \/ EndDispatch(p)

CommandNext ==
    \/ \E i \in Interactions, u \in Users, o \in Orchs : BeginSubscribe(i, u, o)
    \/ \E i \in Interactions : Insert(i) \/ Refuse(i)
    \/ \E u \in Users, o \in Orchs : Unsubscribe(u, o)

Next ==
    \/ CommandNext
    \/ \E u \in Fickle : ToggleDms(u)
    \/ \E p \in Pollers : DispatchNext(p)
    \/ \E p \in Pollers : \E S \in SUBSET Events[p] : Ingest(p, S)
    \/ \E p \in Pollers, u \in Users : SendDmFails(p, u)
    \/ \E p \in Pollers : ClearFails(p) \/ CallFails(p)
    \/ Crash

Spec == Init /\ [][Next]_vars

\* Every poller task keeps being scheduled, and what it awaits gets answered.
FairSpec == Spec /\ \A p \in Pollers : WF_vars(DispatchNext(p))

-----------------------------------------------------------------------------
(* Properties                                                              *)

\* Types of the tables, the dispatches and the commands in flight.
TypeOK ==
    /\ rows \subseteq Users \X Orchs
    /\ failures \in [Users -> [Orchs -> Nat]]
    /\ blocked \subseteq Users \X Orchs
    /\ cmd \in [Interactions -> [pc : {"none", "lookup"}, row : SUBSET (Users \X Orchs)]]
    /\ stored \in [Pollers -> SUBSET AllEvents] /\ sent \in [Pollers -> SUBSET AllEvents]
    /\ work \in [Pollers ->
                   [pc : {"idle", "next", "profile", "dm", "clear", "count", "flag"},
                    batch : SUBSET AllEvents, event : SUBSET AllEvents,
                    todo : SUBSET Users, seen : SUBSET Users, user : SUBSET Users]]
    /\ open \subseteq Users
    /\ dms \in [AllEvents -> [Users -> Nat]]
    /\ owed \in [AllEvents -> SUBSET Users]
    /\ lapses \in [AllEvents -> Nat]
    /\ commands \in 0..MaxCommands /\ toggles \in 0..MaxToggles
    /\ faults \in 0..MaxFaults /\ peak \in 0..Cardinality(Interactions)

\* Nobody gets an event twice, unless a dispatch of it was cut short.
OneDmPerEvent ==
    \A e \in AllEvents, u \in Users : dms[e][u] <= 1 + lapses[e]

\* An event is marked as sent only after every subscriber read for it was tried:
\* where nobody closes DMs and nothing fails, each has got it exactly once, also
\* when subscriptions come and go during the dispatch.
SentMeansTold ==
    faults = 0 /\ toggles = 0 =>
        \A p \in Pollers : \A e \in sent[p] : \A u \in owed[e] : dms[e][u] = 1

\* The marks of events and the DMs about them agree, from both sides: what is
\* marked was sent to everybody read for it, and nothing is sent again.
MarksMatchDms == OneDmPerEvent /\ SentMeansTold

\* Subscriptions beyond the cap come from commands in flight together only: a
\* user that waits for each answer stays within it.
CapOverrunBounded ==
    \A u \in Users : RowsOf(u) # {} => Cardinality(RowsOf(u)) < Cap + peak

\* Whatever subscribers do with their DMs, an event once stored is dispatched
\* (no event leaves the table, so it is enough that nothing stays unsent).
EventuallySent ==
    \A p \in Pollers : []<>(stored[p] \subseteq sent[p])
=============================================================================
