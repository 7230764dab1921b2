------------------------------- MODULE Runtime -------------------------------
(***************************************************************************)
(* The process: what the environment variables ask for, the tasks that     *)
(* runtime::run spawns, and the gateway to Discord that the slash commands *)
(* come through.                                                           *)
(*                                                                         *)
(* Core tasks are in a JoinSet: the end of one ends the process.  With the *)
(* slash commands the startup seed runs first, and then the pollers and    *)
(* the loop around the gateway are spawned detached: nobody waits for them.*)
(* A task's loop has no exit, so a task ends by a panic, and so does the   *)
(* one whose interval is zero, before its first tick.                      *)
(***************************************************************************)
EXTENDS Integers, FiniteSets

CONSTANTS
    Environments,  \* what the operator may set: functions from variables to values
    MaxStarts,     \* bound: starts of the process
    MaxFaults      \* bound: panics, gateway failures, replies that do not get through

ASSUME RuntimeAssumption == MaxStarts \in Nat /\ MaxFaults \in Nat

VARIABLES
    proc,      \* "down"; "seeding": seed_all_subscribed; "up": waiting in select!
    env,       \* the environment of the process, of the last one when down
    core,      \* tasks of the JoinSet that are alive
    detached,  \* detached tasks that are alive
    gateway,   \* what the gateway task is at
    ended,     \* history: what ended the last process
    starts, faults

procVars == <<proc, env, core, detached, gateway, ended, starts, faults>>

-----------------------------------------------------------------------------
(* Config::from_env.  A variable that is set has a value of a kind:        *)
(* "on" or "off" for a flag, "zero" for a number, "ok", or "bad" when it   *)
(* does not parse or is out of its bounds.                                 *)

FlagVars == {"WEBHOOK_POST_ENABLED", "COMMANDS_ENABLED", "REWARD_WATCH_ENABLED"}
RequiredVars == {"EXPLORER_BASE_URL", "DISCORD_WEBHOOK_URL", "DATABASE_URL"}
CommandVars == {"DISCORD_BOT_TOKEN", "DISCORD_APPLICATION_ID"}
ThresholdVars == {"REWARD_WATCH_FIRST_ALERT_PCT", "REWARD_WATCH_REALERT_STEP_PCT",
                  "REWARD_WATCH_DIGEST_PCT", "ROUND_LENGTH_BLOCKS"}
IntervalVar ==
    [event_poller |-> "EVENT_POLL_INTERVAL_SECS",
     summary_poster |-> "SUMMARY_POLL_INTERVAL_SECS",
     reward_poller |-> "REWARD_POLL_INTERVAL_SECS",
     delegator_poller |-> "DELEGATOR_POLL_INTERVAL_SECS",
     cut_change_poller |-> "CUT_CHANGE_POLL_INTERVAL_SECS",
     subscriber_digest_poster |-> "SUBSCRIBER_DIGEST_INTERVAL_SECS",
     reward_watch_poller |-> "REWARD_WATCH_POLL_INTERVAL_SECS"]
IntervalVars == {IntervalVar[t] : t \in DOMAIN IntervalVar}
OtherVars == {"DIGEST_WINDOW_SECS", "DIGEST_FETCH_LIMIT", "HTTP_TIMEOUT_SECS",
              "SUMMARY_SETTLE_DAILY_SECS", "SUMMARY_SETTLE_WEEKLY_SECS",
              "SUMMARY_SETTLE_MONTHLY_SECS", "SUMMARY_MAX_DEFER_SECS"}
CommandOptions == {"DISCORD_GUILD_ID", "MAX_SUBSCRIPTIONS_PER_USER", "DM_FAILURE_AUTO_UNSUB"}

\* bool_var
Flag(e, v, default) == IF v \in DOMAIN e THEN e[v] = "on" ELSE default

WebhookPostEnabled(e) == Flag(e, "WEBHOOK_POST_ENABLED", TRUE)
CommandsEnabled(e) == Flag(e, "COMMANDS_ENABLED", FALSE)
RewardWatchEnabled(e) == Flag(e, "REWARD_WATCH_ENABLED", TRUE)
MetricsBound(e) == Flag(e, "METRICS_BIND", FALSE)

\* The variables of the commands are looked at only when they are enabled; zero
\* is refused for the thresholds of the reward watch, and for nothing else.
FromEnv(e) ==
    LET demanded == RequiredVars \union (IF CommandsEnabled(e) THEN CommandVars ELSE {})
        read == UNION {demanded, FlagVars, ThresholdVars, IntervalVars, OtherVars,
                       IF CommandsEnabled(e) THEN CommandOptions ELSE {}} IN
    /\ demanded \subseteq DOMAIN e
    /\ \A v \in read \intersect DOMAIN e : e[v] # "bad"
    /\ \A v \in ThresholdVars \intersect DOMAIN e : e[v] # "zero"

-----------------------------------------------------------------------------
(* runtime::run                                                            *)

CoreTasks(e) ==
    {"event_poller"} \union
        (IF WebhookPostEnabled(e) THEN {"digest_poster", "summary_poster"} ELSE {})

MetricsTask(e) == IF MetricsBound(e) THEN {"metrics"} ELSE {}

CommandTasks(e) ==
    IF CommandsEnabled(e)
    THEN {"gateway", "reward_poller", "delegator_poller", "cut_change_poller",
          "subscriber_digest_poster"} \union
         (IF RewardWatchEnabled(e) THEN {"reward_watch_poller"} ELSE {})
    ELSE {}

DetachedTasks(e) == MetricsTask(e) \union CommandTasks(e)

ZeroInterval(t) ==
    t \in DOMAIN IntervalVar /\ IntervalVar[t] \in DOMAIN env /\ env[IntervalVar[t]] = "zero"

RuntimeInit ==
    /\ proc = "down" /\ env \in Environments
    /\ core = {} /\ detached = {} /\ gateway = "none"
    /\ ended = "none" /\ starts = 0 /\ faults = 0

\* main up to the spawning of the core tasks; a bad environment, or a database or an
\* HTTP client that cannot be set up, ends the process at once.
Start(e) ==
    /\ proc = "down" /\ starts < MaxStarts
    /\ env' = e
    /\ starts' = starts + 1
    /\ \/ /\ FromEnv(e)
          /\ proc' = IF CommandsEnabled(e) THEN "seeding" ELSE "up"
          /\ core' = CoreTasks(e) /\ detached' = MetricsTask(e)
          /\ ended' = "none"
       \/ UNCHANGED <<proc, core, detached>> /\ ended' = "boot"
    /\ UNCHANGED <<gateway, faults>>

\* The startup seed is over, with or without an error: the other tasks are spawned.
Seeded ==
    /\ proc = "seeding"
    /\ proc' = "up"
    /\ detached' = detached \union CommandTasks(env)
    /\ gateway' = "connecting"
    /\ UNCHANGED <<env, core, ended, starts, faults>>

\* A task ends: tokio's interval panics on a period of zero, whatever else panics.
TaskEnds(t) ==
    /\ core' = core \ {t} /\ detached' = detached \ {t}
    /\ gateway' = IF t = "gateway" THEN "none" ELSE gateway
    /\ UNCHANGED <<proc, env, ended, starts>>

IntervalPanics(t) ==
    /\ t \in core \union detached /\ ZeroInterval(t)
    /\ TaskEnds(t)
    /\ UNCHANGED faults

\* Any other panic; also, metrics returns when its address cannot be bound.
Panics(t) ==
    /\ faults < MaxFaults
    /\ t \in core \union detached
    /\ TaskEnds(t)
    /\ faults' = faults + 1

ProcessEnds(why) ==
    /\ proc' = "down" /\ ended' = why
    /\ core' = {} /\ detached' = {} /\ gateway' = "none"
    /\ UNCHANGED <<env, starts, faults>>

\* SIGINT: taken by select!, or by default disposition during the seed.
Interrupt ==
    /\ proc # "down"
    /\ ProcessEnds("signal")

\* Mutant: the process waits for the last core task to end.
JoinNextAll ==
    /\ proc = "up" /\ core = {}
    /\ ProcessEnds("task")

\* Mutant: the tasks of the commands are in the JoinSet too.
JoinNextAny ==
    /\ proc = "up"
    /\ core # CoreTasks(env) \/ detached # DetachedTasks(env)
    /\ ProcessEnds("task")

\* tasks.join_next() has a result: the other tasks are shut down, main returns.
JoinNext ==
    /\ proc = "up"
    /\ core # CoreTasks(env)
    /\ ProcessEnds("task")

-----------------------------------------------------------------------------
(* discord_gateway::run in its loop.                                       *)

\* The client is built and started, the commands are registered; or registering them
\* fails, which is logged while the client runs on with no command to answer.
GatewayReady ==
    /\ gateway = "connecting"
    /\ \/ gateway' = "serving" /\ UNCHANGED faults
       \/ gateway' = "mute" /\ faults < MaxFaults /\ faults' = faults + 1
    /\ UNCHANGED <<proc, env, core, detached, ended, starts>>

\* discord_gateway::run returns, with an error or without: five seconds' sleep.
GatewayExits ==
    /\ faults < MaxFaults
    /\ gateway \in {"connecting", "serving", "mute"}
    /\ gateway' = "waiting"
    /\ faults' = faults + 1
    /\ UNCHANGED <<proc, env, core, detached, ended, starts>>

GatewayRetries ==
    /\ gateway = "waiting"
    /\ gateway' = "connecting"
    /\ UNCHANGED <<proc, env, core, detached, ended, starts, faults>>

GatewayNext == GatewayReady \/ GatewayRetries

RuntimeNext ==
    \/ \E e \in Environments : Start(e)
    \/ Seeded \/ Interrupt \/ JoinNext
    \/ \E t \in core \union detached : IntervalPanics(t) \/ Panics(t)
    \/ GatewayNext \/ GatewayExits

\* Tasks are scheduled; the seed's requests are answered or time out.
RuntimeFairness == WF_procVars(Seeded) /\ WF_procVars(JoinNext) /\ WF_procVars(GatewayNext)

-----------------------------------------------------------------------------
(* Properties                                                              *)

RuntimeTypeOK ==
    /\ proc \in {"down", "seeding", "up"}
    /\ env \in Environments
    /\ core \subseteq CoreTasks(env)
    /\ detached \subseteq DetachedTasks(env)
    /\ gateway \in {"none", "connecting", "serving", "mute", "waiting"}
    /\ gateway # "none" <=> "gateway" \in detached
    /\ ended \in {"none", "boot", "signal", "task"}
    /\ starts \in 0..MaxStarts /\ faults \in 0..MaxFaults

\* architecture.md, "Failure handling and restart posture". However pollers and the
\* gateway fail, the process goes on while its core tasks live, unless a signal ends it.
CommandsSpareCore ==
    [][(proc # "down" /\ core = CoreTasks(env) /\ proc' = "down") => ended' = "signal"]_procVars

\* Once a core task is dead, were it during the seed, the process ends rather than
\* limping on.
CoreEndsProcess == (proc # "down" /\ core # CoreTasks(env)) ~> (proc = "down")

\* A gateway whose client has returned is connected again, unless its task or the
\* process ends.
GatewayReturns == (gateway = "waiting") ~> (gateway \in {"serving", "mute", "none"})

\* The two together: the failures that end the process, and the one made good in it.
Supervised == CoreEndsProcess /\ GatewayReturns
=============================================================================
