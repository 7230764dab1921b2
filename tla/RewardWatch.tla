----------------------------- MODULE RewardWatch -----------------------------
(***************************************************************************)
(* reward_watch_poller: each tick reads the latest protocol round, runs    *)
(* the missed-reward pass for the round before it, then the alert ladder   *)
(* for the subscribed orchestrators that have not called reward, and past  *)
(* DigestPct posts one public digest.  Progress is kept in the table       *)
(* reward_watch_state and in two rows of cursors.  One instance runs; the  *)
(* explorer and the protocol move on between any two of its steps.         *)
(*                                                                         *)
(* Time is the elapsed share of the round, in units of which a round has   *)
(* MaxElapsed (progress saturates there while a round runs long).          *)
(***************************************************************************)
EXTENDS Integers, FiniteSets

CONSTANTS
    Orchs,        \* the orchestrators the explorer knows
    Users,        \* Discord users
    SubsOf,       \* SubsOf[o]: users subscribed to o while the watch runs
    FirstPct,     \* first_alert_pct, in units of elapsed
    StepPct,      \* realert_step_pct
    DigestPct,    \* digest_pct
    MaxElapsed,   \* 100 per cent
    KeepRounds,   \* PRUNE_KEEP_ROUNDS
    FirstCursor,  \* row reward_watch_missed_done at deployment, or NoCursor
    NoCursor,     \* the row does not exist
    MaxRounds,    \* bound: protocol rounds
    MaxFaults     \* bound: failed calls and crashes

Rounds == 0..MaxRounds

ASSUME PctAssumption ==
    /\ FirstPct \in Nat /\ StepPct \in Nat \ {0} /\ DigestPct \in Nat
    /\ MaxElapsed \in Nat
ASSUME BoundsAssumption == MaxRounds \in Nat \ {0} /\ MaxFaults \in Nat /\ KeepRounds \in Nat \ {0}
ASSUME SubsAssumption == SubsOf \in [Orchs -> SUBSET Users]
ASSUME CursorAssumption == NoCursor \notin Rounds /\ FirstCursor \in Rounds \union {NoCursor}

Subscribed == {o \in Orchs : SubsOf[o] # {}}

VARIABLES
    round,        \* explorer: the latest round
    elapsed,      \* elapsed share of it by the bot's clock
    active,       \* explorer: orchestrators in the active set
    rewarded,     \* explorer: rewarded[r], orchestrators with a Reward event in r
    boundary,     \* explorer: rounds up to this one have meta.to_block set
    alerts,       \* reward_watch_state.alerts_sent, 0 without a row
    resolved,     \* rows <<r, o>> with resolved_at set
    notified,     \* rows <<r, o>> with missed_notified_at set
    missedCursor, \* cursors row reward_watch_missed_done
    digestCursor, \* cursors row reward_watch_digest, 0 without a row
    tick,         \* the tick in progress
    ladderDms,    \* Discord: ladderDms[r][o][u] alerts user u got about o in r
    missedDms,    \* Discord: the same for missed-reward DMs
    digests,      \* Discord: digests[r] public digests about round r
    skipped,      \* history: pairs <<r, o>> whose profile failed in the missed pass
    lapses,       \* history: lapses[r] fan-outs and digests of r not recorded
    faults

protocolVars == <<round, elapsed, active, rewarded, boundary>>
tableVars    == <<alerts, resolved, notified, missedCursor, digestCursor>>
discordVars  == <<ladderDms, missedDms, digests>>
vars == <<round, elapsed, active, rewarded, boundary, alerts, resolved, notified,
          missedCursor, digestCursor, tick, ladderDms, missedDms, digests, lapses,
          skipped, faults>>

\* due_alerts: one rung at FirstPct, another every StepPct.
DueAlerts(pct) == IF pct < FirstPct THEN 0 ELSE 1 + (pct - FirstPct) \div StepPct

NewTick(pc, r, due, lock) ==
    [pc |-> pc, pass |-> "none", round |-> r, due |-> due, lock |-> lock,
     rewarded |-> {}, profiles |-> {}, todo |-> {}, orch |-> {}, subs |-> {}]
IdleTick == NewTick("idle", 0, 0, FALSE)

NoDms == [r \in Rounds |-> [o \in Orchs |-> [u \in Users |-> 0]]]

Init ==
    /\ round = 1 /\ elapsed = 0 /\ boundary = 0
    /\ active \in SUBSET Orchs
    /\ rewarded = [r \in Rounds |-> {}]
    /\ alerts = [r \in Rounds |-> [o \in Orchs |-> 0]]
    /\ resolved = {} /\ notified = {}
    /\ missedCursor = FirstCursor /\ digestCursor = 0
    /\ tick = IdleTick
    /\ ladderDms = NoDms /\ missedDms = NoDms
    /\ digests = [r \in Rounds |-> 0]
    /\ lapses = [r \in Rounds |-> 0] /\ skipped = {}
    /\ faults = 0

-----------------------------------------------------------------------------
(* The protocol and the explorer.                                          *)

Elapse ==
    /\ elapsed < MaxElapsed
    /\ elapsed' = elapsed + 1
    /\ UNCHANGED <<round, active, rewarded, boundary, tableVars, tick, discordVars,
                   lapses, skipped, faults>>

\* initializeRound, once the round ran its length. The active set may change.
NewRound ==
    /\ elapsed = MaxElapsed /\ round < MaxRounds
    /\ round' = round + 1 /\ elapsed' = 0
    /\ active' \in SUBSET Orchs
    /\ UNCHANGED <<rewarded, boundary, tableVars, tick, discordVars, lapses, skipped, faults>>

\* A Reward event of the current round, or a late one of the round before it
\* whose boundary is not indexed yet.
IndexReward(r, o) ==
    /\ r \in {round, round - 1} /\ boundary < r
    /\ o \notin rewarded[r]
    /\ rewarded' = [rewarded EXCEPT ![r] = @ \union {o}]
    /\ UNCHANGED <<round, elapsed, active, boundary, tableVars, tick, discordVars,
                   lapses, skipped, faults>>

IndexBoundary ==
    /\ boundary < round - 1
    /\ boundary' = boundary + 1
    /\ UNCHANGED <<round, elapsed, active, rewarded, tableVars, tick, discordVars,
                   lapses, skipped, faults>>

-----------------------------------------------------------------------------
(* A tick: latest_round, missed pass, reward list, ladder, digest.         *)

StartTick ==
    /\ tick.pc = "idle"
    /\ tick' = NewTick("closed", round, DueAlerts(elapsed), elapsed >= DigestPct)
    /\ UNCHANGED <<protocolVars, tableVars, discordVars, lapses, skipped, faults>>

\* The round a pass of the tick is about.
About(t) == IF t.pass = "missed" THEN t.round - 1 ELSE t.round

\* Mutant: the round before the closed one is taken for it.
ClosedRoundTooOld ==
    LET prev == tick.round - 2
        done == IF missedCursor = NoCursor THEN prev ELSE missedCursor IN
    /\ tick.pc = "closed"
    /\ tick' = IF done >= prev \/ boundary < prev
               THEN [tick EXCEPT !.pc = "list"]
               ELSE [tick EXCEPT !.pc = "loop", !.pass = "missed",
                                 !.rewarded = rewarded[prev], !.todo = Subscribed]
    /\ UNCHANGED <<protocolVars, tableVars, discordVars, lapses, skipped, faults>>

\* process_closed_round up to its loop. A missing cursor row counts as "the
\* previous round is done"; an unindexed boundary defers the pass.
ClosedRound ==
    LET prev == tick.round - 1
        done == IF missedCursor = NoCursor THEN prev ELSE missedCursor IN
    /\ tick.pc = "closed"
    /\ tick' = IF done >= prev \/ boundary < prev
               THEN [tick EXCEPT !.pc = "list"]
               ELSE [tick EXCEPT !.pc = "loop", !.pass = "missed",
                                 !.rewarded = rewarded[prev], !.todo = Subscribed]
    /\ UNCHANGED <<protocolVars, tableVars, discordVars, lapses, skipped, faults>>

\* The ladder and the digest still to come once the loop of a pass is over.
AfterLadder(t) == IF t.lock THEN [t EXCEPT !.pc = "digest"] ELSE IdleTick

\* rewarded_orchs of the current round; mark_resolved for the subscribed ones.
ListRewarded ==
    LET seen == rewarded[tick.round]
        t == [tick EXCEPT !.pass = "ladder", !.rewarded = seen, !.todo = Subscribed] IN
    /\ tick.pc = "list"
    /\ resolved' = resolved \union {<<tick.round, o>> : o \in seen \intersect Subscribed}
    /\ tick' = IF tick.due > 0 THEN [t EXCEPT !.pc = "loop"] ELSE AfterLadder(t)
    /\ UNCHANGED <<protocolVars, alerts, notified, missedCursor, digestCursor,
                   discordVars, lapses, skipped, faults>>

\* Mutant: the ladder looks at its own rungs only.
NeedsNoticeRewardedOrNot(o) ==
    IF tick.pass = "missed" THEN <<About(tick), o>> \notin notified
    ELSE alerts[tick.round][o] < tick.due

\* Mutant: one alert per round, the later rungs are forgotten.
NeedsNoticeOnce(o) ==
    /\ o \notin tick.rewarded
    /\ IF tick.pass = "missed" THEN <<About(tick), o>> \notin notified
       ELSE alerts[tick.round][o] = 0 /\ tick.due > 0

\* No reward seen, and not told yet: not marked in the missed pass, rungs of
\* the ladder still due.
NeedsNotice(o) ==
    /\ o \notin tick.rewarded
    /\ IF tick.pass = "missed" THEN <<About(tick), o>> \notin notified
       ELSE alerts[tick.round][o] < tick.due

\* cached_profile: the is_active fetched earlier in this tick, or a fresh one.
Profiles(o) == IF \E p \in tick.profiles : p[1] = o THEN tick.profiles
               ELSE tick.profiles \union {<<o, o \in active>>}

\* One orchestrator of the loop: skipped, or its subscribers are notified.
VisitOrch(o) ==
    LET next == [tick EXCEPT !.todo = @ \ {o},
                             !.profiles = IF NeedsNotice(o) THEN Profiles(o) ELSE @] IN
    /\ tick.pc = "loop" /\ o \in tick.todo
    /\ IF NeedsNotice(o) /\ <<o, TRUE>> \in Profiles(o)
       THEN \E S \in SUBSET SubsOf[o] :
               tick' = [next EXCEPT !.pc = "dm", !.orch = {o}, !.subs = S]
       ELSE tick' = next
    /\ UNCHANGED <<protocolVars, tableVars, discordVars, lapses, skipped, faults>>

\* get_orchestrator failed: the orchestrator is skipped in this tick, which is for
\* good in the missed-reward pass.
ProfileFails(o) ==
    /\ faults < MaxFaults
    /\ tick.pc = "loop" /\ o \in tick.todo /\ NeedsNotice(o)
    /\ \A p \in tick.profiles : p[1] # o
    /\ tick' = [tick EXCEPT !.todo = @ \ {o}]
    /\ skipped' = IF tick.pass = "missed" THEN skipped \union {<<About(tick), o>>} ELSE skipped
    /\ faults' = faults + 1
    /\ UNCHANGED <<protocolVars, tableVars, discordVars, lapses>>

\* User u got a DM of round r about the orchestrators in O.
Counted(dms, r, O, u) ==
    [dms EXCEPT ![r] = [o \in Orchs |-> IF o \in O THEN [dms[r][o] EXCEPT ![u] = dms[r][o][u] + 1]
                                        ELSE dms[r][o]]]

\* dm_fan_out, one subscriber: delivered, or refused and not tried again.
SendDm(u, delivered) ==
    LET count(dms) == Counted(dms, About(tick), tick.orch, u) IN
    /\ tick.pc = "dm" /\ u \in tick.subs
    /\ tick' = [tick EXCEPT !.subs = @ \ {u}]
    /\ IF ~delivered THEN UNCHANGED <<ladderDms, missedDms>>
       ELSE IF tick.pass = "missed"
            THEN missedDms' = count(missedDms) /\ UNCHANGED ladderDms
            ELSE ladderDms' = count(ladderDms) /\ UNCHANGED missedDms
    /\ UNCHANGED <<protocolVars, tableVars, digests, lapses, skipped, faults>>

\* Mutant: nothing is recorded.
RecordNothing ==
    /\ tick.pc = "dm" /\ tick.subs = {}
    /\ tick' = [tick EXCEPT !.pc = "loop", !.orch = {}]
    /\ UNCHANGED <<protocolVars, tableVars, discordVars, lapses, skipped, faults>>

\* mark_missed_notified or set_alerts_sent(due) after the fan-out.
RecordNotice ==
    /\ tick.pc = "dm" /\ tick.subs = {}
    /\ \E o \in tick.orch :
          IF tick.pass = "missed"
          THEN notified' = notified \union {<<About(tick), o>>} /\ UNCHANGED alerts
          ELSE alerts' = [alerts EXCEPT ![tick.round][o] = tick.due] /\ UNCHANGED notified
    /\ tick' = [tick EXCEPT !.pc = "loop", !.orch = {}]
    /\ UNCHANGED <<protocolVars, resolved, missedCursor, digestCursor, discordVars,
                   lapses, skipped, faults>>

\* Mutant: a prune that also takes the round being watched.
EndMissedPassPruneAll ==
    /\ tick.pc = "loop" /\ tick.pass = "missed" /\ tick.todo = {}
    /\ missedCursor' = About(tick)
    /\ alerts' = [r \in Rounds |-> IF r <= tick.round
                                   THEN [o \in Orchs |-> 0] ELSE alerts[r]]
    /\ resolved' = {p \in resolved : p[1] > tick.round}
    /\ notified' = {p \in notified : p[1] > tick.round}
    /\ tick' = [tick EXCEPT !.pc = "list"]
    /\ UNCHANGED <<protocolVars, digestCursor, discordVars, lapses, skipped, faults>>

\* The cursor is saved, rows of old rounds are dropped (prune_before).
EndMissedPass ==
    LET oldest == tick.round - KeepRounds IN
    /\ tick.pc = "loop" /\ tick.pass = "missed" /\ tick.todo = {}
    /\ missedCursor' = About(tick)
    /\ alerts' = [r \in Rounds |-> IF r < oldest THEN [o \in Orchs |-> 0] ELSE alerts[r]]
    /\ resolved' = {p \in resolved : p[1] >= oldest}
    /\ notified' = {p \in notified : p[1] >= oldest}
    /\ tick' = [tick EXCEPT !.pc = "list"]
    /\ UNCHANGED <<protocolVars, digestCursor, discordVars, lapses, skipped, faults>>

EndLadder ==
    /\ tick.pc = "loop" /\ tick.pass = "ladder" /\ tick.todo = {}
    /\ tick' = AfterLadder(tick)
    /\ UNCHANGED <<protocolVars, tableVars, discordVars, lapses, skipped, faults>>

\* post_digest_once up to the post: nothing to do when the cursor has the
\* round; the cursor alone moves when every active orchestrator was rewarded.
PostDigest ==
    /\ tick.pc = "digest"
    /\ IF digestCursor >= tick.round
       THEN tick' = IdleTick /\ UNCHANGED <<digestCursor, digests>>
       ELSE IF active \subseteq tick.rewarded
            THEN tick' = IdleTick /\ digestCursor' = tick.round /\ UNCHANGED digests
            ELSE /\ digests' = [digests EXCEPT ![tick.round] = @ + 1]
                 /\ tick' = [tick EXCEPT !.pc = "posted"]
                 /\ UNCHANGED digestCursor
    /\ UNCHANGED <<protocolVars, alerts, resolved, notified, missedCursor, ladderDms,
                   missedDms, lapses, skipped, faults>>

\* The attempt that was shown is answered with a 5xx: DiscordWebhook::send posts again.
RepostDigest ==
    /\ faults < MaxFaults
    /\ tick.pc = "posted"
    /\ digests' = [digests EXCEPT ![tick.round] = @ + 1]
    /\ lapses' = [lapses EXCEPT ![tick.round] = @ + 1]
    /\ faults' = faults + 1
    /\ UNCHANGED <<protocolVars, tableVars, tick, ladderDms, missedDms, skipped>>

\* Mutant: the round after the digest is saved, as if it were done too.
RecordDigestNextRound ==
    /\ tick.pc = "posted"
    /\ digestCursor' = tick.round + 1
    /\ tick' = IdleTick
    /\ UNCHANGED <<protocolVars, alerts, resolved, notified, missedCursor, discordVars,
                   lapses, skipped, faults>>

RecordDigest ==
    /\ tick.pc = "posted"
    /\ digestCursor' = tick.round
    /\ tick' = IdleTick
    /\ UNCHANGED <<protocolVars, alerts, resolved, notified, missedCursor, discordVars,
                   lapses, skipped, faults>>

\* What is shown but not recorded when the tick is cut short now.
CountLapse ==
    lapses' = IF tick.pc \in {"dm", "posted"}
              THEN [lapses EXCEPT ![About(tick)] = @ + 1] ELSE lapses

\* The writes a step may have made before it was cut short: mark_resolved of
\* some orchestrators, or the cursor of the missed pass without the pruning.
PartialWrites ==
    /\ IF tick.pc = "list"
       THEN \E S \in SUBSET (rewarded[tick.round] \intersect Subscribed) :
               resolved' = resolved \union ({tick.round} \X S)
       ELSE UNCHANGED resolved
    /\ \/ UNCHANGED missedCursor
       \/ /\ tick.pc = "loop" /\ tick.pass = "missed" /\ tick.todo = {}
          /\ missedCursor' = About(tick)
    /\ UNCHANGED <<alerts, notified, digestCursor>>

\* A failed call: the missed pass gives way to the rest of the tick, anything
\* else ends the tick.
CallFails ==
    /\ faults < MaxFaults
    /\ tick.pc # "idle"
    /\ tick' = IF tick.pc = "closed" \/ (tick.pass = "missed" /\ tick.pc \in {"loop", "dm"})
               THEN [tick EXCEPT !.pc = "list", !.orch = {}, !.subs = {}]
               ELSE IdleTick
    /\ PartialWrites
    /\ CountLapse
    /\ faults' = faults + 1
    /\ UNCHANGED <<protocolVars, discordVars, skipped>>

Crash ==
    /\ faults < MaxFaults
    /\ tick.pc # "idle"
    /\ tick' = IdleTick
    /\ PartialWrites
    /\ CountLapse
    /\ faults' = faults + 1
    /\ UNCHANGED <<protocolVars, discordVars, skipped>>

TickNext ==
    \/ StartTick \/ ClosedRound \/ ListRewarded
    \/ \E o \in Orchs : VisitOrch(o)
    \/ \E u \in Users : \E delivered \in BOOLEAN : SendDm(u, delivered)
    \/ RecordNotice \/ EndMissedPass \/ EndLadder \/ PostDigest \/ RecordDigest

Next ==
    \/ Elapse \/ NewRound \/ IndexBoundary
    \/ \E r \in Rounds, o \in Orchs : IndexReward(r, o)
    \/ TickNext
    \/ \E o \in Orchs : ProfileFails(o)
    \/ RepostDigest \/ CallFails \/ Crash

Spec == Init /\ [][Next]_vars

\* The interval keeps ticking and rounds keep running and being indexed.
FairSpec == Spec /\ WF_vars(TickNext) /\ WF_vars(Elapse) /\ WF_vars(IndexBoundary)

-----------------------------------------------------------------------------
(* Properties                                                              *)

Ticks == [pc : {"idle", "closed", "list", "loop", "dm", "digest", "posted"},
          pass : {"none", "missed", "ladder"}, round : Rounds, due : Nat, lock : BOOLEAN,
          rewarded : SUBSET Orchs, profiles : SUBSET (Orchs \X BOOLEAN), todo : SUBSET Orchs,
          orch : SUBSET Orchs, subs : SUBSET Users]

\* Types of the tables, of the tick and of what subscribers got.
TypeOK ==
    /\ round \in Rounds /\ elapsed \in 0..MaxElapsed /\ boundary \in Rounds
    /\ active \subseteq Orchs
    /\ rewarded \in [Rounds -> SUBSET Orchs]
    /\ alerts \in [Rounds -> [Orchs -> Nat]]
    /\ resolved \subseteq Rounds \X Orchs /\ notified \subseteq Rounds \X Orchs
    /\ missedCursor \in Rounds \union {NoCursor} /\ digestCursor \in Rounds
    /\ tick \in Ticks
    /\ ladderDms \in [Rounds -> [Orchs -> [Users -> Nat]]]
    /\ missedDms \in [Rounds -> [Orchs -> [Users -> Nat]]]
    /\ digests \in [Rounds -> Nat] /\ lapses \in [Rounds -> Nat]
    /\ skipped \subseteq Rounds \X Orchs
    /\ faults \in 0..MaxFaults

\* The rungs recorded for the rounds still watched never go down, whatever
\* mark_resolved, catch-up after missed ticks and pruning do to their rows.
RungsNeverRegress ==
    [][\A r \in Rounds, o \in Orchs :
          r + 1 >= round => alerts'[r][o] >= alerts[r][o]]_vars

\* A subscriber gets at most one alert per rung, except for fan-outs that were
\* cut short before their rung was recorded.
Sending(r, o, pass) ==
    IF tick.pc = "dm" /\ tick.pass = pass /\ o \in tick.orch /\ About(tick) = r
    THEN 1 ELSE 0

OneAlertPerRung ==
    \A r \in Rounds, o \in Orchs, u \in Users :
        r + 1 >= round =>
            ladderDms[r][o][u] <= alerts[r][o] + lapses[r] + Sending(r, o, "ladder")

\* Once the poller has recorded that an orchestrator called reward in a round,
\* no further ladder alert of that round goes out about it.
ResolvedStaysQuiet ==
    [][\A p \in resolved : ladderDms'[p[1]][p[2]] = ladderDms[p[1]][p[2]]]_vars

\* The public digest of a round is posted once, except after a post that was
\* not recorded, or one shown under a 5xx and posted again by the same send.
OneDigestPerRound ==
    \A r \in Rounds : digests[r] <= 1 + lapses[r]

\* A missed-reward DM goes out once per round and orchestrator, except after a
\* fan-out that was not recorded.
OneMissedDm ==
    \A r \in Rounds, o \in Orchs, u \in Users : missedDms[r][o][u] <= 1 + lapses[r]

\* No alert, digest or missed-reward DM is repeated by a later tick, whatever became
\* of the tick that sent it.
NothingToldTwice == OneAlertPerRung /\ OneDigestPerRound /\ OneMissedDm

\* In the last round of the bound, which runs as long as it takes: once it is
\* fully elapsed, every watched orchestrator either calls reward or has its
\* ladder brought as far as the elapsed share demands.
LadderCatchesUp ==
    \A o \in Subscribed :
        (round = MaxRounds /\ elapsed = MaxElapsed /\ o \in active)
        ~> (o \in rewarded[MaxRounds] \/ alerts[MaxRounds][o] >= DueAlerts(MaxElapsed))

\* messages.md, section 9: when a round has closed without a reward call of an active
\* orchestrator, its subscribers are told, by whichever tick gets through the pass. One
\* thing loses the DM: a failed profile fetch in the pass, which goes on without it.
MissedRewardTold ==
    \A o \in Subscribed :
        (/\ round = MaxRounds /\ boundary = round - 1
         /\ o \in active /\ o \notin rewarded[round - 1])
        ~> (<<MaxRounds - 1, o>> \in notified \union skipped)
=============================================================================
