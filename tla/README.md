# livepeer-network-bot: models, checks and proofs

The bot follows a Livepeer explorer (an HTTP API over indexed protocol events), keeps what it
has seen in one SQLite database and tells people about it on Discord: payouts, summaries and
reward alerts in public channels through webhooks, events of an orchestrator by DM to the users
that subscribed to it. It is one Rust process of about ten tokio tasks. There is no lock and no
channel between the tasks: they interact through the tables, and through the mutex of a webhook.

This directory holds TLA+ modules of these tasks, the TLC configurations that check them, and
proofs that TLAPS checks. `PROJECT.json` lists runs, mutants, findings, hazards and theorems, and
maps each definition to the lines of source it stands for.

    tlc -config TicketPipeline.cfg MCTicketPipeline.tla     # a run
    tlapm TicketPipelineProofs.tla                          # the proofs of a module

## 1. Inventory

| Component (under `src/src/`) | State | Operations | Talks to |
|---|---|---|---|
| `scheduler/event_poller` | `events`, `cursors` | page through WinningTicketRedeemed, insert, repair valuations, save the cursor | explorer, `state/repo` |
| `scheduler/digest_poster` | `events.sent_to_discord` | fetch unsent, refresh valuations, look up gateways and orchestrators, group into jobs, post, mark | explorer, notifier, `state/repo` |
| `scheduler/summary_poster` | `summary_watermarks`, `summary_snapshots` | per cadence: settle, fetch rollup, gate, post, watermark | explorer, notifier, `events` |
| `scheduler/reward_watch_poller` | `reward_watch_state`, two rows of `cursors` | per tick: missed-reward pass for the last round, ladder of alerts, public digest, prune | explorer, notifier, DMs, `subscriptions` |
| `scheduler/reward_poller` | `reward_events`, `subscriptions` (health) | ingest, dispatch DMs, mark | explorer, DMs |
| `scheduler/cut_change_poller` | `cut_change_events`, `subscriptions` (health) | load params history, dispatch DMs, mark | explorer, DMs |
| `scheduler/delegator_poller` | `delegator_events`, `delegator_history`, `cursors` | three streams one after the other | explorer |
| `scheduler/subscriber_digest_poster` | `delegator_events.sent_to_subscribers`, `subscriptions` (health) | group by orchestrator, label bonds, DM, mark all | explorer, DMs |
| `seed` | `delegator_history`, `cut_change_events` | at startup and in `/subscribe` | explorer |
| `commands/subscribe`, `unsubscribe` | `subscriptions` | count, look up, insert, seed; delete | explorer |
| `providers/discord` | gate and (never read) remaining count of each webhook | post with retry; fan out | Discord |
| `providers/discord_bot` | none | send a DM: delivered, closed, or another error | Discord |
| `commands/subscriptions`, `orchestrator` | none | ask the explorer, page, sort, reply; reply once more when that fails | explorer, `subscriptions`, Discord |
| `explorer/client` | none | GET with up to three attempts | explorer |
| `config` | none | read and validate the environment | |
| `runtime`, `providers/discord_gateway`, `providers/metrics` | which tasks are alive | wire, seed, spawn; a signal or a dead core task ends the process; connect the gateway again | all |
| `notify`; `providers/http`, `database`, `clock`; `build.rs`; tests | none that steers behaviour | format, construct, generate | |

What is hard in this program:

* **Post first, record after.** Every message leaves before the row, watermark, rung or mark that
  says so is written, and the two are separate awaits. A crash or a failing statement in between
  repeats the message; the other order would lose it. So does a retry inside one send, after a 5xx whose
  message was shown all the same. What can be promised is, per channel, "once, plus as often as a message
  was shown whose success was not recorded", and that nothing is lost.
* **Interleaving at every await.** Copies of rows are posted while another task changes them,
  subscribers read earlier are served while they leave and return, two pollers count DM failures of
  the same subscription, a seed and a poller insert the same history with different marks.
* **One failure ends an iteration (`?`).** What was done before it stays, what was to come is
  taken up again by the next tick, or never.
* **Time.** A tick looks at the last closed period or round only; what it does not finish before
  the next one closes is not looked at again. The explorer indexes and prices late.
* **Partial delivery.** A fan-out is Ok when one webhook took the message.
* **Supervision.** Tasks of the JoinSet end the process when they die; detached ones (the pollers of
  the slash commands, the gateway's loop, metrics) are awaited by nobody.

What makes each component correct: a stored event is never skipped by the cursor; rows are posted,
and not more often than the lapses account for; a marked event was attempted for everybody it
concerned; an alert's rung is sent once per round; a period's rollup is posted once and tells
whether all its tickets are priced, and is about a complete day, week or month; no webhook is posted to
before a wait that binds it is over; a command ends with a complete reply or with an error that lasted; the process
outlives the commands' failures and not its core tasks'; everything stored is handled in the end.
The list of hazards in `PROJECT.json` names the line where each of these can go wrong.

## 2. Modules

| Module | Models | EXTENDS / INSTANCE |
|---|---|---|
| `Outbox` | abstract: items appear, are delivered, are recorded; an unrecorded delivery may repeat | |
| `TicketPipeline` | `event_poller`, `digest_poster`, their repository, the notifier's Ok | INSTANCE `Outbox` |
| `TicketPipelineProofs` | proofs about it | `TicketPipeline`, TLAPS |
| `RewardWatch` | `reward_watch_poller` with its table | |
| `RewardWatchProofs` | proofs about it | `RewardWatch`, TLAPS |
| `Calendar` | dates; `last_closed_period`, `period_window`, `next_boundary` | |
| `SummaryPoster` | `summary_poster` | `Calendar` |
| `SummaryPosterProofs` | proofs about it and about `Calendar` | `SummaryPoster`, TLAPS |
| `SubscriberDms` | `subscriptions`, its commands, the DM dispatch of reward and cut-change poller | |
| `SubscriberDmsProofs` | proofs about it | `SubscriberDms`, TLAPS |
| `CutChanges` | loading of params history by seeds and poller, and who is told | |
| `CutChangesProofs` | proofs about it | `CutChanges`, TLAPS |
| `DelegatorDigest` | `delegator_poller`, `subscriber_digest_poster`, delegator seeds | |
| `DelegatorDigestProofs` | proofs about it | `DelegatorDigest`, TLAPS |
| `DiscordWebhook` | `DiscordWebhook`, `FanOutNotifier` and the tasks that share them | |
| `DiscordWebhookProofs` | proofs about it | `DiscordWebhook`, TLAPS |
| `Runtime` | `config`, `runtime`, the gateway's loop: which tasks live | |
| `ReadCommands` | `/orchestrator ...`, `/subscriptions`, the client's retries | `Calendar` |
| `BotProcess` | the two composed: commands come through the gateway and die with the process | `Runtime`, `ReadCommands` |
| `BotProofs` | proofs about it | `BotProcess`, TLAPS |
| `MC...` | model values and small instances of the module in their name | the module, TLC |

Conventions. A database statement, or a transaction, is one action; so is what a task does from
one await to the next. A task's local variables are a record (`poll`, `digest`, `tick`, `work`,
`load`, `call`) whose `pc` is the await it is at. A failed call is an action that leaves the task
where the `?`, `let _ =` or error arm leaves it. A crash resets these records and keeps the
tables. Variables under "history" or "Discord" in a declaration are what an observer sees; no
guard of the program reads them. Definitions commented "Mutant" are plausible bugs: they are used
by no specification and serve to show that each property can be violated.

### TicketPipeline
`PollTick`, `ListPage`, `InsertEvent`, `AdvanceCursor` are `event_poller::run_once`; an insert of a
row already stored repairs a missing valuation (`Repair`). `FetchBatch`, `RefreshValuation`,
`BuildJobs`, `SendDelivered`/`SendFails`, `MarkSent` are `digest_poster`: rows without addresses
are fetched but never posted, jobs group one orchestrator's rows by AI or transcoding gateway and
go out by their latest timestamp. `PollAborts` and `DigestAborts` stand for the `?`s, `Crash` for the end of the
process. A send makes up to `MaxAttempts` posts to each channel, and any attempt answered with a 5xx, or not at
all, may have been shown: these are `Strays`, which both `SendDelivered` and `SendFails` add to `posts`. `lapses` counts, per
channel and row, the messages shown whose success was not recorded: the strays, and what a channel took when `mark_sent`
fails or the process ends before it (`LosePost`).
`DeliversAsOutbox` is the refinement: `Outbox` with the rows of complete tickets as items.

### RewardWatch
`tick` goes through round, missed pass (profile, DMs per subscriber, `mark_missed_notified`,
cursor, prune), ladder (profile, DMs, `set_alerts_sent` or `set_resolved`), digest (post, cursor).
The elapsed share of a round is counted in units; `FirstPct`, `StepPct`, `DigestPct` are in the same units.
Which subscribers the tick reads may be any subset of `SubsOf`: users come and go. `FirstCursor` is
the row `reward_watch_missed_done` at deployment. On a database made by the migrations there is none
and the missed-reward pass never runs (`reward_never_told`), so `reward_watch` starts with that row
present, as if an operator had inserted it. `skipped` holds the orchestrators whose profile fetch failed
in the missed pass. `RepostDigest` is the retry inside the send of the digest, after a 5xx whose message was shown.

### SummaryPoster
The unit of time is the poll interval; a day has `DayLength` of them, and `last_closed_period` is
`Calendar`'s, on real dates. A ticket may enter the rollup of the period closed last, late or not. One tick
takes the cadences in order: watermark check, settle check, rollup, gate on pricing or on the deadline
(a snapshot is written when the gate stays shut; it is read for a log line only), post, watermark. `SendFails` is a send
that ends with an error or, after a 5xx, posts again within the send; the post may have been shown either way.
`lagged` records that a tick was still going on, or waiting, when the next one fired.

### Calendar
A date is chrono's day number. `LastClosedPeriod` and `PeriodWindow` translate the two functions that
the code has for the same thing, arithmetic on Mondays and firsts of months included. `IsLastClosed` is
the reference: a period of the cadence, over before today, with none after it that is. `WindowRight` says
that a search through all windows of the cadence finds that one and no other, by both functions.

### SubscriberDms
`BeginSubscribe`, `Insert`, `Refuse` are the three stages of `/subscribe` (count, lookup, insert),
`Unsubscribe` deletes. A poller's dispatch fetches the oldest `Batch` events, reads the subscribers
of one event, sends DM after DM, clears or counts or flags, and marks the event. `ToggleDms` is a user in
`Fickle` closing or opening DMs. The streams of two pollers share no event (they are two tables). `peak` is the most
commands one user has had in flight together, `owed[e]` the subscribers read for `e`, `lapses[e]` its dispatches cut short.

### CutChanges
Loaders are the startup seed, one seed per `/subscribe` and the poller; all list orchestrators,
fetch a history and insert row by row. They differ in the mark they insert with: a seed's rows are
sent, the poller's are unsent unless it saw no row of that orchestrator before (`NextOrch`).

### DelegatorDigest
`List`, `InsertRow`, `EndPage` run for each stream; `EndPage` moves the cursor or, without a
`next_cursor`, leaves it. `FetchUnsent`, `FindSubs`, `Label`, `GetProfile`, `SendDm`, `OrchDone`,
`MarkSent` are one iteration of the poster. `due[e]` holds the users subscribed since `e` was stored
that no attempt has been made for.

### DiscordWebhook
`queue[w]` is tokio's fair mutex, its head holds it. `WaitForGate` takes the gate and sleeps, `Post` and
`Answer` are one attempt; `GateAfter` is the order in which headers and status set the gate. Times are
what is left of a wait, so no clock needs a bound. `Leave` releases the mutex and goes on to the next webhook. The count of
remaining posts is left out: the code writes it and never reads it. What Discord asked for is history, kept apart from the
gate: `refill[w]` is what is left of the reset-after of an empty bucket, `pause[w]` what is left of the wait after a 429 or of the
backoff after a 5xx, and `dropped[w]` says that the refill time came with such an answer, whose pause replaces it in the gate.

### Runtime, ReadCommands, BotProcess
An environment is a function from the variables that are set to a kind of value: on, off, zero, ok, bad.
`FromEnv` says which of them the bot starts with. `core` are the tasks of the JoinSet that live, `detached` the
others; `Seeded` spawns the latter after the startup seed, `JoinNext` ends the process. A task ends by a panic, of its own or
(`IntervalPanics`) of `tokio::time::interval` on a period of zero. `gateway` is what the loop around `discord_gateway::run` is at; a `mute` one
runs without commands, registration having failed.
`job` is the command in progress, `get` its request: the attempt, and how many attempts failed for a transient and
for a permanent cause, counted from the answers and not from the decision to try again. `PageFound` is one turn of `fetch_all_delegators`, with
the set of cursors seen; `LookUp` one row of `/subscriptions`, whose failed lookup falls back to the address.
Commands share no state, so one at a time stands for all. `BotProcess` lets a command in while the
gateway serves, sends its reply or, when that fails, an error reply once, and drops it with the process.

## 3. Runs

Every module of the system has one passing run (`BotProcess` checks `Runtime` and `ReadCommands`, the
latter and `SummaryPoster` check `Calendar`, `TicketPipeline` checks `Outbox`); a run checks safety and, under
`FairSpec`, liveness at once. `CHECK_DEADLOCK FALSE` stands in every configuration but `Webhook.cfg`: the
environment of the models is bounded (events, rounds, time, commands, faults), and when it has used its
bounds and the tasks have nothing to do the model stops, as the bot then idles.

| Run | Bounds, and why they are enough | Shows |
|---|---|---|
| `ticket_pipeline` | 3 tickets, pages and batches of 2, 1 channel, 3 attempts, 1 fault: neither a page nor a batch holds everything, two tickets share a block, one is never postable | nothing skipped, duplicates accounted for, known prices shown, sent rows frozen, `Outbox` implemented, every complete ticket posted |
| `reward_watch` | 1 watched orchestrator, 2 rounds, 2 rungs, digest at the second, rows kept for one round, 1 fault | one alert per rung, one digest and one missed-reward DM per round but for lapses; rungs do not fall, resolved rows stay quiet; the ladder catches up; a missed round is told |
| `summary` | 29 February 2024 and the day after, three ticks a day, the daily and the monthly cadence closing at the same midnight, max_defer of one tick, settle of none for the day and one for the month, 2 late tickets, 1 fault | one post per period but for lapses, a watermark exactly with a post, an honest marker on a complete period, no period skipped |
| `dms` | 2 users, one of them fickle, 2 orchestrators, cap 1, 2 commands in flight together or not, a poller with a batch of 2 events and one with an event of the same orchestrator, 1 DM toggle, 1 fault | marks and DMs agree; the cap is overrun by at most the commands in flight together less one; stored events are dispatched |
| `cut_changes` | 2 users, 2 `/subscribe`, startup seed, poller, 1 old and 1 new change, 1 leave, 1 fault | no row sent twice; a change new to the table is told |
| `digest` | 2 users, 2 orchestrators, 1 delegator, 2 events in 2 streams, 1 command, 1 fault of any kind | nothing marked before everybody was attempted; repeats only after a fault; one Bond per pair is new |
| `bot` | 6 environments (flags, a missing token, zero for an interval and for a threshold), 2 starts, 1 panic, gateway exit or lost reply; 3 pages with every cursor structure and four spreads of 3 rows, 2 subscriptions, 3 attempts; 39 dates around the ends of months, weeks and years, leap years among them | replies are complete, reported errors were transient through all attempts or permanent and not tried again, periods are the last complete ones, every command ends; commands spare the core, a dead core task ends the process, the gateway is connected again |
| `webhook` | 2 callers, 2 webhooks, 2 attempts, waits of 1 and 2 s (a refill may outlast a backoff or a 429's wait), 1 lost post | the one answer is true of the caller's own payload, waits told to one caller bind the other (but for a refill time that the code drops), a final answer stays final, every send is answered |

One fault is enough in the sense that each safety property is about what one interrupted iteration
leaves behind for the next. What is small in the runs is unbounded in the
proofs of section 4: tickets, channels, users, orchestrators, callers, webhooks, events, rounds, dates, listings,
environments, limits, attempts, commands and faults.
In `bot`, of two rows with equal stakes one is pending and the other bonded, and the cursors of a listing lead to
any page, to themselves and in circles. `digest` begins before anybody has a stake, which makes the
orchestrators interchangeable (`SYMMETRY`, used in this run only, which has no liveness property).

**Fairness**, and why the code gives it. Weak fairness of a task: tokio runs ready tasks, `interval`
keeps firing, the HTTP client has a timeout on every request (`providers/http.rs`), and failures stop
after `MaxFaults`. In `bot` it is fairness of the startup seed, of `select!`,
of the gateway's loop and of the command in progress. Beyond the tasks, `reward_watch` assumes that time
passes and that the boundary of a closed round gets indexed, `webhook` that time passes and that posts are answered or time out (the
tokio mutex is fair). Nothing else of the environment is assumed to act, and no run relies on strong
fairness. Two properties except what the code gives up: `MissedRewardTold` an orchestrator whose
profile fetch failed in the missed-reward pass (`skipped`), and `NoPeriodSkipped`, which is a safety
property, a poster that was not done with a tick when the next one fired (`lagged`; a tick takes
seconds, the interval is minutes). `MCSummaryPoster` assumes, and TLC evaluates, that the settings of `summary` satisfy
`RoomForRetries` and those of `summary_skipped` do not: what separates the two is the hypothesis of `NoneSkipped`.

**Violations.** Each run below finds the code doing something other than a document or a schema says.

| Run | What happens |
|---|---|
| `ticket_valuation` | two tickets of one transaction: one gets the USD figures of the other |
| `reward_never_told` | without the row `reward_watch_missed_done` the missed pass returns before the only place that writes it |
| `summary_skipped` | with default settings (`max_defer` of two days) an unpriced day is replaced by the next before its deadline |
| `cut_swallowed` | a new change is stored as sent by a stale `first_seen`, or by a seed |

**Observations.** Other places where code and documents differ. The properties above are stated so
that they hold with them, by counting lapses or excepting the case; no run shows these on their own.

* A crash or lost answer between a post and its record repeats the post (`digest_poster.rs:161`;
  `core-beliefs.md:42` rules duplicates out), and so does the retry inside one send after a 5xx whose message was
  shown (`discord.rs:149-167`): `DuplicatesNeedLapse` counts both. Likewise for a rung before `set_alerts_sent`
  (`reward_watch_poller.rs:204`; `0007_reward_watch.sql:6`).
* One failed profile fetch in the missed pass, and that orchestrator's subscribers are never told
  (`reward_watch_poller.rs:272`; `messages.md:302`).
* The cross-check and the stability of the figures no longer gate a summary (`summary_poster.rs:119`,
  with a comment that says why; `architecture.md:286` still asks for them).
* Rows without a recipient are fetched by every digest iteration and stay unsent: with as many of them as the fetch limit,
  no row is posted any more (`digest_poster.rs:51`). In `ticket_pipeline` there is one, for a limit of two.
* Two `/subscribe` in flight exceed the cap (`commands/subscribe.rs:27`; `004-subscriptions.md`).
* A subscription can be flagged right after a DM got through, when the other poller's clear falls between
  the count and the flag, or on a row deleted and subscribed again meanwhile (`reward_poller.rs:130`;
  `0005_subscription_dm_blocked.sql`).
* A poller tick in the middle of a `/subscribe` seed, or after a tick that died in a first load, sends
  old changes (`cut_change_poller.rs:56`; `architecture.md:424-427`).
* One failing `increment_dm_failure` and subscribers already served get the digest again
  (`subscriber_digest_poster.rs:148`; its comment at line 14).
* Nothing reads `delegator_history`: delegators that the startup seed recorded are labelled new at the
  first Bond the bot stores (`runtime.rs:97-101`, `subscriber_digest_poster.rs:91`). So are those whose earlier events are in
  another stream that has not been read yet (`event_streams.rs:298`).
* `secs_var` accepts zero, for which `tokio::time::interval` panics (`config.rs:294`): a core task's interval
  ends the process after every start, with exit code 0 (`runtime.rs:256`); a detached poller just never runs.
  `DIGEST_WINDOW_SECS=0` makes the digest poster loop without a pause.
* "logged and restarted in-process" (`architecture.md:611`) holds for the gateway's loop. A detached poller
  that panics is gone until the next start (`runtime.rs:118`).
* When registering the commands fails, the gateway runs on without any (`discord_gateway.rs:49`).
* Signals and dead core tasks are looked at only after the startup seed (`runtime.rs:102`), and of the signals
  only SIGINT (`runtime.rs:247`; `README.md:220` names SIGTERM too).
* `/orchestrator rewards` and `tickets` look for an orchestrator among 200 rows and report none beyond
  (`orchestrator.rs:179`). No command defers its reply past Discord's three seconds (`subscribe.rs:77`).
* A failed read of a watermark is served as 0 by metrics (`metrics.rs:109`). The thumbnail of a DM is not checked
  to be http(s) (`notify/dm.rs:50`), which the comment at `client.rs:31` takes for granted.
* The backoff of a 5xx, or the wait of a 429, overwrites the longer reset-after of the empty bucket it reports (`discord.rs:151`, `:130`;
  the module comment at line 4 has it honoured on every send). `WaitsHonoured` excepts this case by name: after such an
  answer the next post may come before the bucket is full again, and in `webhook` it does.

## 4. Proofs

`TicketPipelineProofs` proves, for any number of tickets and channels, any page and fetch limit and
any number of faults:

* `TypeCorrect` (`TypeOK`), `CursorSafe` (`NothingSkipped`), `DuplicatesBounded` (`DuplicatesNeedLapse`);
* `SentRowsStay`: the action property `SentRowsFrozen`;
* `ImplementsOutbox`: `Spec` implements `Outbox` under the refinement mapping;
* `KnownPricesPosted` (`PostedWithKnownPrice`), assuming `OneTicketPerTx`: without it the property
  fails: the lookup by transaction hash returns another ticket, as `ticket_valuation` shows.

The inductive invariant is `IInv == TypeOK /\ PageInv /\ NothingSkipped /\ BatchInv /\ PostsInv`.
`NothingSkipped` alone is not inductive: that all tickets up to the cursor are stored when
`AdvanceCursor` moves it needs `PageInv`, which says that the tickets between the cursor and the
page's end are stored or still to be inserted. `DuplicatesNeedLapse` needs `PostsInv`: a row has been shown in a channel
at most as often as it lapsed there, plus one if it is recorded or its post waits for `mark_sent`; how many attempts of a send are shown
does not matter, as each of them but the recorded one is a lapse. That holds across a post because of `BatchInv`: the
rows of the jobs still to be sent are unsent, and two jobs share no row (`JobsPartition`), so that
marking one job's rows accounts for one post each. `PriceInv` adds that copies of rows the explorer had
priced at fetch time carry a price once refreshed. There is one lemma per action, and one step per
conjunct it can disturb. The assumptions are the `ASSUME`s of `TicketPipeline`: positive limits, types
of the per-ticket constants, tickets numbered in the order of the listing.

`SubscriberDmsProofs` proves, for any users, orchestrators, pollers, events, cap, threshold, batch size and
any number of commands in flight and faults:

* `Types` (`TypeOK`).
* `CapHolds` (`CapOverrunBounded`). A bound on the rows alone is not inductive: an insert does not look at the
  count. `CapInv` bounds, for each user, the rows plus the commands in flight by `Cap - 1 + peak`: a command is let in below
  the cap, and one that inserts was counted before. It needs `CmdInv`, that a command is about one row, and
  the cardinality facts of the library.
* `MarksHold` (`MarksMatchDms`). The invariant `MarkInv` has three parts. `DispatchInv`: what a dispatch works on is stored and
  unsent. `TurnInv`: a user whose turn in the fan-out is still to come has got the event at most as often as its dispatches
  were cut short. `ToldInv`: without faults, whose turn is over has got it. The property says nothing of events in
  progress, which these two carry from the fetch to the mark. That a step of one poller disturbs no other needs the assumption that
  streams share no event.

`RewardWatchProofs` proves, for any orchestrators and subscribers, ladder, length of rounds, pruning window and faults:

* `Types`, `NeverToldTwice` (`NothingToldTwice`). The invariant counts what was sent against what stands for it: the
  recorded rung (`LadderInv`), the notified row or a cursor past the round (`MissedInv`), the digest's cursor (`DigestInv`), plus
  lapses, plus one for a user whose turn in the fan-out in progress is over (`Reached`). The cursor has to be
  part of it because `prune_before` deletes the rows that say who was notified.
* `RungsStay` (`RungsNeverRegress`) and `RewardedStaysQuiet` (`ResolvedStaysQuiet`), action properties. They need `TickInv`,
  that a tick is about the round it read and never ahead of the protocol, and `ResolvedInv`: a reward call that is
  recorded was seen by the tick that alerts, too.

`SummaryPosterProofs` proves, for any cadences, settlement times, deadline, poll interval, start and faults:

* `Types`, `MarksMatchPosts` (`WatermarksMatchPosts`), `SummariesHonest` (`PostsHonest`). `OnceInv` counts a post as
  recorded from the moment it is shown until the watermark is written, which the property forgets; `WorkInv` and
  `PayloadInv` carry the date and the figures that the tick read before its awaits to the post it makes from them.
* `NoneSkipped` (`NoPeriodSkipped`), under `RoomForRetries`: a period's deadline (settled, past `max_defer`, and the
  bot running) and one tick per fault come before the next period closes. Without room the property fails, as
  `summary_skipped` shows with the default settings. The invariant, `PatienceInv`, bounds how far the clock is past the deadline
  of a period without a post by the number of faults; `InstantInv` says that a tick not lagging works on what is still the last
  closed period; that a period is replaced at the very midnight after its successor's last day is a fact about dates
  (`ReplacedAtItsEnd`, `PeriodsInOrder`).

The same module proves, about `Calendar`: the daily, weekly and monthly window is the last complete day, week and month, on every
date (`DailyIsLastClosed`, `WeeklyIsLastClosed`, `MonthlyIsLastClosed`, together `LastClosedIsLast`), there is no other (`OnlyOneIsLast`),
`period_window` and `last_closed_period` agree (`WindowsAgree`), all of which `WindowsRight` says at once, and the next boundary of the
digest lies ahead by at most one window (`BoundaryAhead`). A year is `CHOOSE`n in the model, as chrono finds it, and is shown to exist by the
closed form of the cycles of 400, 100, 4 and 1 years (`YearExists`); the months follow by the twelve cases of `MonthStarts`.

`CutChangesProofs` proves, for any users, orchestrators, `/subscribe` commands, history limit and faults, `Types`, `ToldAgainOnlyAfterFault`
(`ToldOnce`) and `MarksStay`: whatever seeds and poller insert over each other, no row is lost and none becomes unsent
again. `DispatchInv` says that what is being told is stored and unsent, `ToldInv` that without a fault what was told is marked or about to be.

`DelegatorDigestProofs` proves, for any users, orchestrators, delegators, streams and batch size:

* `Types` and `MarksTellTheTruth` (`MarksMatchDms`). `DueInv` says who can still be due: subscribers, and of an event in
  the digest only those whose turn is to come. `BatchInv` keeps the orchestrators of the batch apart.
* `NewOnce` (`OneNewPerPair`). It rests on the order of the streams: `PollInv` says that each is stored in its order, cursor and half-read page
  included, so that a Bond labelled new has no older one that is stored later (`FreshInv`).

`DiscordWebhookProofs` proves, for any callers, number of webhooks and of attempts, backoff cap and waits:

* `Types` and `AnswersTrue` (`AnswerIsTrue`), from `SendInv`, which says how far a send has come: every webhook before the
  current one was tried, none after it.
* `FinalAnswersFinal` (`NoPostAfterFinalAnswer`) and `NoEarlyPost` (`WaitsHonoured`), action properties. `MutexInv` is mutual exclusion of the
  attempts at one webhook. `WaitInv` says that pause and refill are covered by the sleep of the holder, or by the gate when nobody
  sleeps, and are over once somebody has posted, except for a refill that was `dropped`. They are defined from the answers, so that
  the theorem is about what becomes of them in a gate that is taken, slept on and set by different callers.

`BotProofs` proves for any listings, dates, attempts and environments:

* `Types`, `SparesCore` (`CommandsSpareCore`).
* `FailuresLasted` (`ErrorsHaveCause`). `CauseInv` says of the request in progress (`GetInv`) that every attempt behind it failed for a
  transient cause and none for a permanent one, and of the lines of a list in progress (`LinesInv`) what the property says of the
  reply: a transient error was met in all `MaxAttempts`, a permanent one in the last attempt only.
* `CompleteReplies` (`RepliesComplete`). `PageInv` says what a listing half read is: the rows in hand are those of the pages behind, each
  page behind leads to one behind or to the next, and no row is there twice. At its end the pages behind are all that can be reached
  (`ReachableStep`). That the rows shown are the largest, largest first, is `TopIsTop`: sorting is ranking by the number
  of rows that come before, ranks are distinct, and by counting (`FS_Injection`) every place is taken.
* `WindowsInReplies` (`WindowIsLastClosed`), under the hypothesis that `WindowRight` holds on the dates of the instance. `WindowsRight`
  proves that of every date; the two modules have variables of the same names and cannot be put together in one.

Assumptions. They are in each case the `ASSUME`s of the module, which TLC evaluates on every run, and the hypothesis in the
theorem's own statement. Most are types and positive limits. These say more:

* `TicketPipeline`: tickets are numbered in the order of the listing. `SubscriberDms`: the events of two pollers are distinct (two tables).
* `SummaryPoster`, `ReadCommands`: today is after the first month of the calendar, so that there is a month before. `Order`
  is not empty: the poster has its three cadences.
* `ReadCommands` (`ListingAssumption`): the explorer has one row per delegator, and no cursor stands for the first page. Cursors may form circles.
* `DiscordWebhook`: the cap of the countdown is above the waits it counts (`CapAboveBackoffs`); powers of two are
  positive numbers (`ShiftAssumption`), which is arithmetic that the provers do not know.

Only model-checked: the liveness properties (`EventuallySent` of both modules, `LadderCatchesUp`, `MissedRewardTold`, `TrackedChangeTold`,
`SendsAnswered`, `EveryCommandEnds`, `Supervised`), since fairness and ENABLED are out of the prover's reach. `NoPeriodSkipped` without
`RoomForRetries`, and `PostedWithKnownPrice` without `OneTicketPerTx`, are false. Every other property of a passing run is a theorem.
No module declares a RECURSIVE operator.

## 5. Not modelled

Wording and layout of embeds, DMs and replies, metrics counters and their text, connection
set-up, code generation: no state of theirs steers anything (`PROJECT.json`, components). Of the
modelled parts these are left out: the page loop of `reward_poller` (one `Ingest` action;
`TicketPipeline` has that loop in full), listings longer than one
page in `DelegatorDigest` and `CutChanges`, the log-only reads of the summary gate, the text of configuration
values (kinds stand for it), backoff delays of the explorer client, Discord's deadline for a reply, non-numeric user ids,
database corruption, and a profile that stays unavailable for good in the DM tasks. In `DelegatorDigest` the
explorer's stream starts when the bot is deployed, as `005-cold-start-seeding.md` describes a fresh database.
The rows a `/subscriptions` lists are any rows: that the table is `SubscriberDms`' changes nothing for a command that reads it once.

## 6. Plan

Done, in this order: ticket pipeline with its abstract specification and proofs; reward watch; summaries;
subscriptions and DMs; cut changes; delegator digest; webhooks; calendar; process, configuration and read
commands; proofs about the calendar, the process and the DMs; proofs about webhooks, cut changes, reward watch, delegator digest,
summaries, months and replies, so that every safety and action property of a passing run is a theorem.

Next refinements:

1. `SubscriberDms` (its `MarksMatchDms` is one already, stated with counters), `DelegatorDigest` and `CutChanges` shown
   to implement `Outbox` per subscriber, with the reward poller's page loop in full.
2. A composition of `DiscordWebhook` with the posters, replacing the assumption about a send by its module.

Next theorems:

1. The step-by-step simulation of `Outbox` by the modules of the first refinement.
2. The action properties behind the liveness properties: what a tick that no fault interrupts achieves, for any bounds.
