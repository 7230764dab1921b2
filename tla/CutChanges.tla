----------------------------- MODULE CutChanges -----------------------------
(***************************************************************************)
(* Who gets to hear of a TranscoderUpdate.  Three kinds of task load an    *)
(* orchestrator's params history into cut_change_events: the seed at       *)
(* startup and the seed of every new /subscribe insert it as already sent, *)
(* the cut_change_poller as unsent unless it sees the orchestrator for the *)
(* first time; it then sends what is unsent to the subscribers.            *)
(*                                                                         *)
(* The changes of an orchestrator are numbered in the order they happen.   *)
(* How a DM is sent and counted is the subject of SubscriberDms; here a    *)
(* DM arrives.                                                             *)
(***************************************************************************)
EXTENDS Integers, FiniteSets

CONSTANTS
    Users, Orchs,
    Commands,       \* /subscribe commands, each run at most once
    HistoryLimit,   \* HISTORY_LIMIT, CUT_HISTORY_LIMIT
    FirstChanges,   \* changes of every orchestrator before the bot is deployed
    MaxChanges,     \* bound: changes of an orchestrator
    MaxLeaves,      \* bound: /unsubscribe commands
    MaxFaults       \* bound: failed calls and crashes

Changes == 1..MaxChanges
Loaders == {"boot", "poller"} \union Commands

ASSUME CutAssumption ==
    /\ HistoryLimit \in Nat \ {0} /\ MaxChanges \in Nat
    /\ FirstChanges \in 0..MaxChanges /\ MaxLeaves \in Nat /\ MaxFaults \in Nat
ASSUME LoaderAssumption == {"boot", "poller"} \intersect Commands = {}

VARIABLES
    history,   \* explorer: number of changes of each orchestrator
    rows,      \* subscriptions: pairs <<user, orchestrator>>
    stored,    \* cut_change_events: pairs <<orchestrator, change>>
    sent,      \* those with sent_to_subscribers_at set
    booted,    \* the startup seed is over, the other tasks are running
    load,      \* load[l]: what loader l is at
    dispatch,  \* the dispatch of the poller
    ran,       \* commands already given
    told,      \* Discord: DMs <<user, orchestrator, change>> that arrived
    known,     \* history: known[u][o], changes there were when u's /subscribe was done
    resent,    \* history: DMs that arrived again
    leaves, faults

vars == <<history, rows, stored, sent, booted, load, dispatch, ran, told, known, resent,
          leaves, faults>>
tableVars == <<rows, stored, sent>>
discordVars == <<told, known, resent>>

Subscribed == {r[2] : r \in rows}
Load(pc, orchs, user) ==
    [pc |-> pc, orchs |-> orchs, orch |-> {}, todo |-> {}, mark |-> TRUE, user |-> user]
NoLoad == Load("idle", {}, {})
AtStart == [l \in Loaders |-> IF l = "boot" THEN Load("orchs", {}, {}) ELSE NoLoad]
NoDispatch == [pc |-> "idle", batch |-> {}, event |-> {}]
Untracked == MaxChanges

Init ==
    /\ history = [o \in Orchs |-> FirstChanges]
    /\ rows = {} /\ stored = {} /\ sent = {}
    /\ booted = FALSE
    /\ load = AtStart
    /\ dispatch = NoDispatch
    /\ ran = {}
    /\ told = {} /\ known = [u \in Users |-> [o \in Orchs |-> Untracked]] /\ resent = {}
    /\ leaves = 0 /\ faults = 0

\* An orchestrator changes its cuts.
Change(o) ==
    /\ history[o] < MaxChanges
    /\ history' = [history EXCEPT ![o] = @ + 1]
    /\ UNCHANGED <<tableVars, booted, load, dispatch, ran, discordVars, leaves, faults>>

-----------------------------------------------------------------------------
(* Loading a history: ask the explorer, insert row by row.                 *)

\* Mutant: one row too many.
RecentFromZero(o) == {<<o, c>> : c \in {c \in 0..history[o] : c >= history[o] - HistoryLimit}}

\* transcoder_params_history: the latest HistoryLimit changes.
Recent(o) == {<<o, c>> : c \in {c \in 1..history[o] : c > history[o] - HistoryLimit}}

\* distinct_subscribed_orchestrators, at startup and at each tick.
ListOrchs(l) ==
    /\ load[l].pc = "orchs"
    /\ load' = [load EXCEPT ![l] = Load("next", Subscribed, {})]
    /\ UNCHANGED <<history, tableVars, booted, dispatch, ran, discordVars, leaves, faults>>

\* Mutant: every load counts as the first.
NextOrchAlwaysFirst(l, o) ==
    /\ load[l].pc = "next" /\ o \in load[l].orchs
    /\ load' = [load EXCEPT ![l] = [load[l] EXCEPT !.pc = "fetch", !.orchs = @ \ {o},
                                                   !.orch = {o}, !.mark = TRUE]]
    /\ UNCHANGED <<history, tableVars, booted, dispatch, ran, discordVars, leaves, faults>>

\* The next orchestrator. The poller first looks whether it has rows of it.
NextOrch(l, o) ==
    /\ load[l].pc = "next" /\ o \in load[l].orchs
    /\ load' = [load EXCEPT ![l] = [load[l] EXCEPT !.pc = "fetch", !.orchs = @ \ {o},
                    !.orch = {o}, !.mark = l # "poller" \/ {e \in stored : e[1] = o} = {}]]
    /\ UNCHANGED <<history, tableVars, booted, dispatch, ran, discordVars, leaves, faults>>

FetchHistory(l) ==
    /\ load[l].pc = "fetch"
    /\ load' = [load EXCEPT ![l] = [load[l] EXCEPT !.pc = "insert",
                                        !.todo = UNION {Recent(o) : o \in load[l].orch}]]
    /\ UNCHANGED <<history, tableVars, booted, dispatch, ran, discordVars, leaves, faults>>

\* Mutant: INSERT OR REPLACE.
InsertOrReplace(l, e) ==
    /\ load[l].pc = "insert" /\ e \in load[l].todo
    /\ load' = [load EXCEPT ![l] = [load[l] EXCEPT !.todo = @ \ {e}]]
    /\ stored' = stored \union {e}
    /\ sent' = IF load[l].mark THEN sent \union {e} ELSE sent \ {e}
    /\ UNCHANGED <<history, rows, booted, dispatch, ran, discordVars, leaves, faults>>

\* insert_cut_change_event: INSERT OR IGNORE, with or without the sent mark.
InsertEvent(l, e) ==
    /\ load[l].pc = "insert" /\ e \in load[l].todo
    /\ load' = [load EXCEPT ![l] = [load[l] EXCEPT !.todo = @ \ {e}]]
    /\ stored' = stored \union {e}
    /\ sent' = IF load[l].mark /\ e \notin stored THEN sent \union {e} ELSE sent
    /\ UNCHANGED <<history, rows, booted, dispatch, ran, discordVars, leaves, faults>>

OrchDone(l) ==
    /\ load[l].pc = "insert" /\ load[l].todo = {}
    /\ load' = [load EXCEPT ![l] = [load[l] EXCEPT !.pc = "next", !.orch = {}]]
    /\ UNCHANGED <<history, tableVars, booted, dispatch, ran, discordVars, leaves, faults>>

\* The end of a load: pollers and commands start after the startup seed, the
\* poller turns to its dispatch, a command is done.
LoadDone(l) ==
    /\ load[l].pc = "next" /\ load[l].orchs = {}
    /\ load' = [load EXCEPT ![l] = NoLoad]
    /\ booted' = (booted \/ l = "boot")
    /\ dispatch' = IF l = "poller" THEN [dispatch EXCEPT !.pc = "fetch"] ELSE dispatch
    /\ known' = [u \in Users |-> [o \in Orchs |->
                    IF u \in load[l].user /\ <<u, o>> \in rows /\ known[u][o] = Untracked
                    THEN history[o] ELSE known[u][o]]]
    /\ UNCHANGED <<history, tableVars, ran, told, resent, leaves, faults>>

\* A call fails: a seed goes on with the next orchestrator, the poller ends
\* its tick without a dispatch.
LoadFails(l) ==
    /\ faults < MaxFaults
    /\ load[l].pc \in {"orchs", "fetch", "insert"} \/ (load[l].pc = "next" /\ l = "poller")
    /\ load' = [load EXCEPT ![l] = IF l = "poller" \/ load[l].pc = "orchs"
                                   THEN Load(IF l = "boot" THEN "next" ELSE "idle", {}, {})
                                   ELSE [load[l] EXCEPT !.pc = "next", !.orch = {}, !.todo = {}]]
    /\ faults' = faults + 1
    /\ UNCHANGED <<history, tableVars, booted, dispatch, ran, discordVars, leaves>>

-----------------------------------------------------------------------------
(* Commands.                                                               *)

\* /subscribe from its insert on: a new row is followed by the seed.
Subscribe(i, u, o) ==
    /\ booted /\ i \notin ran
    /\ ran' = ran \union {i}
    /\ rows' = rows \union {<<u, o>>}
    /\ load' = IF <<u, o>> \in rows THEN load
               ELSE [load EXCEPT ![i] = Load("next", {o}, {u})]
    /\ UNCHANGED <<history, stored, sent, booted, dispatch, discordVars, leaves, faults>>

Unsubscribe(u, o) ==
    /\ booted /\ <<u, o>> \in rows /\ leaves < MaxLeaves
    /\ rows' = rows \ {<<u, o>>}
    /\ known' = [known EXCEPT ![u][o] = Untracked]
    /\ leaves' = leaves + 1
    /\ UNCHANGED <<history, stored, sent, booted, load, dispatch, ran, told, resent, faults>>

-----------------------------------------------------------------------------
(* The poller's tick: load, then dispatch.                                 *)

StartTick ==
    /\ booted /\ load["poller"].pc = "idle" /\ dispatch.pc = "idle"
    /\ load' = [load EXCEPT !["poller"] = [load["poller"] EXCEPT !.pc = "orchs"]]
    /\ UNCHANGED <<history, tableVars, booted, dispatch, ran, discordVars, leaves, faults>>

\* fetch_unsent_cut_change_events; the bound stays below DISPATCH_BATCH.
FetchUnsent ==
    /\ dispatch.pc = "fetch"
    /\ dispatch' = [pc |-> "tell", batch |-> stored \ sent, event |-> {}]
    /\ UNCHANGED <<history, tableVars, booted, load, ran, discordVars, leaves, faults>>

\* The DMs about one event to the subscribers of its orchestrator.
Tell(e) ==
    LET dms == {<<r[1], e[1], e[2]>> : r \in {r \in rows : r[2] = e[1]}} IN
    /\ dispatch.pc = "tell" /\ e \in dispatch.batch
    /\ \A d \in dispatch.batch : d[1] = e[1] => e[2] <= d[2]
    /\ told' = told \union dms
    /\ resent' = resent \union (dms \intersect told)
    /\ dispatch' = [dispatch EXCEPT !.pc = "mark", !.batch = @ \ {e}, !.event = {e}]
    /\ UNCHANGED <<history, tableVars, booted, load, ran, known, leaves, faults>>

\* mark_cut_change_event_sent
MarkSent ==
    /\ dispatch.pc = "mark"
    /\ sent' = sent \union dispatch.event
    /\ dispatch' = [dispatch EXCEPT !.pc = "tell", !.event = {}]
    /\ UNCHANGED <<history, rows, stored, booted, load, ran, discordVars, leaves, faults>>

EndDispatch ==
    /\ dispatch.pc = "tell" /\ dispatch.batch = {}
    /\ dispatch' = NoDispatch
    /\ UNCHANGED <<history, tableVars, booted, load, ran, discordVars, leaves, faults>>

DispatchFails ==
    /\ faults < MaxFaults
    /\ dispatch.pc # "idle"
    /\ dispatch' = NoDispatch
    /\ faults' = faults + 1
    /\ UNCHANGED <<history, tableVars, booted, load, ran, discordVars, leaves>>

\* The process dies and starts over with the startup seed.
Crash ==
    /\ faults < MaxFaults
    /\ booted' = FALSE
    /\ load' = AtStart
    /\ dispatch' = NoDispatch
    /\ faults' = faults + 1
    /\ UNCHANGED <<history, tableVars, ran, discordVars, leaves>>

LoadNext(l) ==
    \/ ListOrchs(l) \/ FetchHistory(l) \/ OrchDone(l) \/ LoadDone(l)
    \/ \E o \in Orchs : NextOrch(l, o)
    \/ \E o \in Orchs, c \in Changes : InsertEvent(l, <<o, c>>)

PollerNext ==
    \/ LoadNext("poller") \/ StartTick
    \/ FetchUnsent \/ MarkSent \/ EndDispatch
    \/ \E o \in Orchs, c \in Changes : Tell(<<o, c>>)

Next ==
    \/ \E o \in Orchs : Change(o)
    \/ PollerNext
    \/ \E l \in Loaders \ {"poller"} : LoadNext(l)
    \/ \E i \in Commands, u \in Users, o \in Orchs : Subscribe(i, u, o)
    \/ \E u \in Users, o \in Orchs : Unsubscribe(u, o)
    \/ \E l \in Loaders : LoadFails(l)
    \/ DispatchFails \/ Crash

Spec == Init /\ [][Next]_vars

\* The tasks keep being scheduled and their calls are answered.
FairSpec == Spec /\ WF_vars(PollerNext)
                 /\ \A l \in Loaders \ {"poller"} : WF_vars(LoadNext(l))

-----------------------------------------------------------------------------
(* Properties                                                              *)

Loads == [pc : {"idle", "orchs", "next", "fetch", "insert"}, orchs : SUBSET Orchs,
          orch : SUBSET Orchs, todo : SUBSET (Orchs \X Changes), mark : BOOLEAN,
          user : SUBSET Users]
Dispatches == [pc : {"idle", "fetch", "tell", "mark"}, batch : SUBSET (Orchs \X Changes),
               event : SUBSET (Orchs \X Changes)]

\* Types of the tables and of the tasks.
TypeOK ==
    /\ history \in [Orchs -> 0..MaxChanges]
    /\ rows \subseteq Users \X Orchs
    /\ stored \subseteq Orchs \X Changes /\ sent \subseteq stored
    /\ booted \in BOOLEAN
    /\ load \in [Loaders -> Loads] /\ dispatch \in Dispatches
    /\ told \subseteq Users \X Orchs \X Changes /\ resent \subseteq told
    /\ known \in [Users -> [Orchs -> 0..MaxChanges]]
    /\ leaves \in 0..MaxLeaves /\ faults \in 0..MaxFaults

\* A change is told again only after a fault: a seed that runs into the poller's
\* dispatch never makes a row unsent again.
ToldOnce == faults = 0 => resent = {}

\* Nobody seeds any more.
Settled == booted /\ ran = Commands /\ faults = MaxFaults /\ leaves = MaxLeaves
              /\ \A l \in Loaders \ {"poller"} : load[l].pc = "idle"

\* A change that is not in the table yet, of an orchestrator that is, reaches
\* its subscribers, once no seed runs beside the poller.
TrackedChangeTold ==
    \A u \in Users, o \in Orchs, c \in Changes :
        (/\ Settled /\ <<u, o>> \in rows /\ c <= history[o]
         /\ \E e \in stored : e[1] = o
         /\ <<o, c>> \notin stored
         /\ ~(load["poller"].orch = {o} /\ load["poller"].mark)) ~> (<<u, o, c>> \in told)

\* messages.md: a new TranscoderUpdate is sent to each user subscribed to the
\* orchestrator (whose /subscribe was done before it happened).
NewChangeTold ==
    \A u \in Users, o \in Orchs, c \in Changes :
        (known[u][o] < c /\ c <= history[o])
            ~> (<<u, o, c>> \in told \/ known[u][o] = Untracked)
=============================================================================
