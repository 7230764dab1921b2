---------------------------- MODULE SummaryPoster ----------------------------
(***************************************************************************)
(* summary_poster: on every tick it looks, cadence by cadence, at the last *)
(* closed period, waits until the explorer has had time to settle it, and  *)
(* posts its rollup once every counted ticket is priced, or past MaxDefer  *)
(* with an "incomplete" marker.  Posted periods are rows of                *)
(* summary_watermarks.  One poster runs; the explorer moves on meanwhile.  *)
(*                                                                         *)
(* The unit of time is the poll interval, counted from the day before the  *)
(* calendar's first.  A period is named by its first day (period_date) and *)
(* closes at the midnight after its last one.                              *)
(***************************************************************************)
EXTENDS Calendar, Sequences, FiniteSets, FiniteSetsExt

CONSTANTS
    Order,        \* the cadences, in the order a tick takes them
    DayLength,    \* units of time in a day
    Settle,       \* Settle[c]: settle_for
    MaxDefer,     \* readiness.max_defer
    MaxTickets,   \* bound: tickets of all periods together
    StartTime,    \* the bot is deployed
    MaxTime,      \* bound: time
    MaxFaults,    \* bound: failed calls and crashes
    NoSnapshot    \* no row in summary_snapshots

Cadences == {Order[i] : i \in DOMAIN Order}
Times == StartTime..MaxTime

ASSUME TimeAssumption ==
    /\ DayLength \in Nat \ {0} /\ MaxDefer \in Nat
    /\ StartTime \in Nat /\ MaxTime \in Nat /\ StartTime <= MaxTime
    /\ StartTime \div DayLength > 31   \* a month of the calendar is over
    /\ Settle \in [Cadences -> Nat]
ASSUME OrderAssumption == Order \in Seq(AllCadences) /\ Order # <<>>
ASSUME SummaryBoundsAssumption == MaxTickets \in Nat /\ MaxFaults \in Nat

VARIABLES
    now,        \* the clock
    rollup,     \* explorer: rollup[c][p], counted and priced tickets
    watermarks, \* rows <<c, p>> of summary_watermarks
    snapshots,  \* summary_snapshots
    due,        \* the interval fires
    work,       \* the tick in progress
    posts,      \* Discord: posts[c][p], what was shown about a period, in order
    lapses,     \* history: lapses[c][p], posts that may have been shown unrecorded
    faults,
    lagged      \* history: a tick was not over, or not begun, when the next one fired

tableVars == <<watermarks, snapshots>>
vars == <<now, rollup, watermarks, snapshots, due, work, posts, lapses, faults, lagged>>

Days == StartTime \div DayLength .. MaxTime \div DayLength

\* last_closed_period on each day of the instance, and the instant it closed.
LastClosedOn ==
    [c \in Cadences |-> [d \in Days |->
        LET last == LastClosedPeriod(c, d) IN
        [period |-> last.date, close |-> (last.to + 1) * DayLength]]]

Today == now \div DayLength
LastClosed(c) == LastClosedOn[c][Today]
Periods(c) == {LastClosedOn[c][d].period : d \in Days}
NoFigures == [count |-> 0, priced |-> 0]
\* The tick with these cadences still to look at.
Tick(pc, queue) == [pc |-> pc, queue |-> queue, period |-> 0, close |-> 0, at |-> 0,
                    figures |-> NoFigures, incomplete |-> FALSE]
Idle == Tick("idle", <<>>)

PerPeriod(S) == [c \in Cadences |-> [p \in Periods(c) |-> S]]

Init ==
    /\ now = StartTime
    /\ rollup = PerPeriod(NoFigures)
    /\ watermarks = {}
    /\ snapshots = PerPeriod(NoSnapshot)
    /\ due = TRUE
    /\ work = Idle
    /\ posts = PerPeriod(<<>>)
    /\ lapses = PerPeriod(0)
    /\ faults = 0 /\ lagged = FALSE

-----------------------------------------------------------------------------
(* The clock and the explorer's rollups.                                   *)

Advance ==
    /\ now < MaxTime
    /\ now' = now + 1
    /\ lagged' = (lagged \/ due \/ work.pc # "idle")
    /\ due' = TRUE
    /\ UNCHANGED <<rollup, tableVars, work, posts, lapses, faults>>

Counted(c) == MapThenSumSet(LAMBDA p : rollup[c][p].count, Periods(c))

\* A ticket of the last closed period enters its rollup, not priced yet.
CountTicket(c) ==
    LET p == LastClosed(c).period IN
    /\ MapThenSumSet(Counted, Cadences) < MaxTickets
    /\ rollup' = [rollup EXCEPT ![c][p].count = @ + 1]
    /\ UNCHANGED <<now, tableVars, due, work, posts, lapses, faults, lagged>>

PriceTicket(c) ==
    LET p == LastClosed(c).period IN
    /\ rollup[c][p].priced < rollup[c][p].count
    /\ rollup' = [rollup EXCEPT ![c][p].priced = @ + 1]
    /\ UNCHANGED <<now, tableVars, due, work, posts, lapses, faults, lagged>>

-----------------------------------------------------------------------------
(* A tick: maybe_post for each cadence.                                    *)

StartTick ==
    /\ work.pc = "idle" /\ due
    /\ due' = FALSE
    /\ work' = Tick("check", Order)
    /\ UNCHANGED <<now, rollup, tableVars, posts, lapses, faults, lagged>>

Cadence == Head(work.queue)

\* The tick once maybe_post has returned, with or without an error.
NextCadence ==
    IF Len(work.queue) > 1 THEN Tick("check", Tail(work.queue)) ELSE Idle

\* Mutant: the settlement floor is measured from the first day of the period.
CheckFromStart ==
    LET closed == LastClosed(Cadence) IN
    /\ work.pc = "check"
    /\ work' = IF \/ <<Cadence, closed.period>> \in watermarks
                  \/ now < closed.period * DayLength + Settle[Cadence]
               THEN NextCadence
               ELSE [work EXCEPT !.pc = "fetch", !.period = closed.period,
                                 !.close = closed.close, !.at = now]
    /\ UNCHANGED <<now, rollup, tableVars, due, posts, lapses, faults, lagged>>

\* summary_posted and the settlement floor.
Check ==
    LET closed == LastClosed(Cadence) IN
    /\ work.pc = "check"
    /\ work' = IF \/ <<Cadence, closed.period>> \in watermarks
                  \/ now < closed.close + Settle[Cadence]
               THEN NextCadence
               ELSE [work EXCEPT !.pc = "fetch", !.period = closed.period,
                                 !.close = closed.close, !.at = now]
    /\ UNCHANGED <<now, rollup, tableVars, due, posts, lapses, faults, lagged>>

\* Mutant: no deadline, an unpriced period is deferred for good.
ObserveNoDeadline ==
    LET seen == rollup[Cadence][work.period] IN
    /\ work.pc = "fetch"
    /\ IF seen.priced >= seen.count
       THEN /\ work' = [work EXCEPT !.pc = "send", !.figures = seen]
            /\ UNCHANGED snapshots
       ELSE /\ snapshots' = [snapshots EXCEPT ![Cadence][work.period] = seen]
            /\ work' = NextCadence
    /\ UNCHANGED <<now, rollup, watermarks, due, posts, lapses, faults, lagged>>

\* payout_summary and the readiness gate. Enrichment decides; the cross-check
\* and the stability of the figures are computed from snapshots and only logged.
Observe ==
    LET seen  == rollup[Cadence][work.period]
        ready == seen.priced >= seen.count
    IN
    /\ work.pc = "fetch"
    /\ snapshots' = IF ready THEN snapshots
                    ELSE [snapshots EXCEPT ![Cadence][work.period] = seen]
    /\ work' = IF ready \/ work.at >= work.close + MaxDefer
               THEN [work EXCEPT !.pc = "send", !.figures = seen, !.incomplete = ~ready]
               ELSE NextCadence
    /\ UNCHANGED <<now, rollup, watermarks, due, posts, lapses, faults, lagged>>

\* build_summary: the post about the period.
Shown ==
    [posts EXCEPT ![Cadence][work.period] =
        Append(@, [at |-> now, figures |-> work.figures, incomplete |-> work.incomplete])]

Lapsed == [lapses EXCEPT ![Cadence][work.period] = @ + 1]

Send ==
    /\ work.pc = "send"
    /\ posts' = Shown
    /\ work' = [work EXCEPT !.pc = "mark"]
    /\ UNCHANGED <<now, rollup, tableVars, due, lapses, faults, lagged>>

\* notifier.send returns an error, or an attempt of it was answered with a 5xx and
\* it posts again; the post may have been shown all the same.
SendFails ==
    /\ faults < MaxFaults
    /\ work.pc = "send"
    /\ \/ posts' = Shown /\ lapses' = Lapsed /\ work' \in {work, NextCadence}
       \/ UNCHANGED <<posts, lapses>> /\ work' = NextCadence
    /\ faults' = faults + 1
    /\ UNCHANGED <<now, rollup, tableVars, due, lagged>>

\* Mutant: the watermark names the period by its last day.
MarkLastDay ==
    /\ work.pc = "mark"
    /\ watermarks' = watermarks \union {<<Cadence, work.close \div DayLength - 1>>}
    /\ work' = NextCadence
    /\ UNCHANGED <<now, rollup, snapshots, due, posts, lapses, faults, lagged>>

\* Mutant: the watermark is left out.
MarkNothing ==
    /\ work.pc = "mark"
    /\ work' = NextCadence
    /\ UNCHANGED <<now, rollup, tableVars, due, posts, lapses, faults, lagged>>

\* mark_summary_posted
Mark ==
    /\ work.pc = "mark"
    /\ watermarks' = watermarks \union {<<Cadence, work.period>>}
    /\ work' = NextCadence
    /\ UNCHANGED <<now, rollup, snapshots, due, posts, lapses, faults, lagged>>

Unrecorded == lapses' = IF work.pc = "mark" THEN Lapsed ELSE lapses

\* Any other call of maybe_post fails: the next cadence has its turn.
CallFails ==
    /\ faults < MaxFaults
    /\ work.pc \in {"check", "fetch", "mark"}
    /\ Unrecorded
    /\ work' = NextCadence
    /\ faults' = faults + 1
    /\ UNCHANGED <<now, rollup, tableVars, due, posts, lagged>>

\* The process dies and is restarted; the first tick comes at once.
Crash ==
    /\ faults < MaxFaults
    /\ work.pc # "idle"
    /\ Unrecorded
    /\ work' = Idle
    /\ due' = TRUE
    /\ faults' = faults + 1
    /\ UNCHANGED <<now, rollup, tableVars, posts, lagged>>

PosterNext == StartTick \/ Check \/ Observe \/ Send \/ Mark

Next ==
    \/ Advance
    \/ \E c \in Cadences : CountTicket(c) \/ PriceTicket(c)
    \/ PosterNext
    \/ SendFails \/ CallFails \/ Crash

Spec == Init /\ [][Next]_vars

-----------------------------------------------------------------------------
(* Properties                                                              *)

Figures == {f \in [count : Nat, priced : Nat] : f.priced <= f.count}
Shows == [at : Times, figures : Figures, incomplete : BOOLEAN]
Ticks == [pc : {"idle", "check", "fetch", "send", "mark"}, queue : Seq(Cadences),
          period : Nat, close : Nat, at : {0} \union Times, figures : Figures,
          incomplete : BOOLEAN]

\* Types of the tables and of the tick; a period is one that can be the last closed one,
\* and no rollup prices more tickets than it counts.
TypeOK ==
    /\ now \in Times
    /\ DOMAIN rollup = Cadences /\ DOMAIN snapshots = Cadences
    /\ DOMAIN posts = Cadences /\ DOMAIN lapses = Cadences
    /\ \A c \in Cadences :
          /\ rollup[c] \in [Periods(c) -> Figures]
          /\ snapshots[c] \in [Periods(c) -> Figures \union {NoSnapshot}]
          /\ posts[c] \in [Periods(c) -> Seq(Shows)]
          /\ lapses[c] \in [Periods(c) -> Nat]
    /\ \A w \in watermarks : w[1] \in Cadences /\ w[2] \in Periods(w[1])
    /\ due \in BOOLEAN /\ lagged \in BOOLEAN /\ faults \in 0..MaxFaults
    /\ work \in Ticks
    /\ work.pc # "idle" => work.queue # <<>>
    /\ work.pc \in {"fetch", "send", "mark"} => work.period \in Periods(Cadence)

\* The instant the period closes, by what a period of its cadence is.
Closings ==
    [c \in Cadences |-> [p \in Periods(c) |->
        DayLength * (1 + CHOOSE b \in p .. p + 30 : IsPeriod(c, p, b))]]

\* A period is posted once, except after posts whose success was not recorded: the
\* attempts shown under a 5xx inside one send count among them.
PostedOncePerPeriod ==
    \A c \in Cadences : \A p \in Periods(c) : Len(posts[c][p]) <= 1 + lapses[c][p]

\* A watermark stands for a post somebody could read: no period is written off
\* by a failed call or a crash.
WatermarkMeansPosted ==
    \A w \in watermarks : posts[w[1]][w[2]] # <<>>

\* The watermarks and the posts agree: what is marked was posted, and what is posted
\* is not posted again.
WatermarksMatchPosts == PostedOncePerPeriod /\ WatermarkMeansPosted

\* What readers see is honest: a post comes after the settlement floor, shows
\* unpriced tickets only under the marker, and the marker only past max_defer.
PostsHonest ==
    \A c \in Cadences : \A p \in Periods(c) : \A i \in DOMAIN posts[c][p] :
        LET post == posts[c][p][i] IN
        /\ post.at >= Closings[c][p] + Settle[c]
        /\ post.incomplete <=> post.figures.priced < post.figures.count
        /\ post.incomplete => post.at >= Closings[c][p] + MaxDefer

\* architecture.md: past max_defer the rollup posts anyway. No period that was the last
\* closed one since the bot runs is replaced by the next without a post, as long as a
\* tick is over before the next one fires.
NoPeriodSkipped ==
    \A c \in Cadences : \A p \in Periods(c) :
        (/\ ~lagged
         /\ LastClosedOn[c][StartTime \div DayLength].period <= p
         /\ p < LastClosed(c).period) => posts[c][p] # <<>>

\* The first instant at which a tick posts the period that was closed last on day d,
\* whatever its figures: settled, past the deadline, and with the bot running.
Deadline(c, d) ==
    LET closed == LastClosedOn[c][d].close
        wait   == IF Settle[c] >= MaxDefer THEN Settle[c] ELSE MaxDefer
    IN IF closed + wait >= StartTime THEN closed + wait ELSE StartTime

\* The settings leave every period that can be replaced one tick more past its deadline
\* than there are faults.
RoomForRetries ==
    \A c \in Cadences : \A d, e \in Days :
        LastClosedOn[c][d].period < LastClosedOn[c][e].period =>
            Deadline(c, d) + MaxFaults < LastClosedOn[c][e].close
=============================================================================
