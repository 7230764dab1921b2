---------------------------- MODULE MCBotProcess ----------------------------
(***************************************************************************)
(* A small instance of BotProcess for TLC.                                 *)
(***************************************************************************)
EXTENDS BotProcess, TLC

CONSTANTS d1, d2, d3, o1, o2, c1, c2

\* Webhooks only; with commands; with a pollers' interval of zero; with a core task's.
Required == [v \in RequiredVars |-> "ok"]
Commands == Required @@ [v \in CommandVars |-> "ok"] @@ ("COMMANDS_ENABLED" :> "on")
SomeEnvironments ==
    {Required @@ ("WEBHOOK_POST_ENABLED" :> "off") @@ ("METRICS_BIND" :> "on"),
     Commands,
     Commands @@ ("REWARD_POLL_INTERVAL_SECS" :> "zero") @@ ("WEBHOOK_POST_ENABLED" :> "off"),
     Commands @@ ("EVENT_POLL_INTERVAL_SECS" :> "zero") @@ ("REWARD_WATCH_ENABLED" :> "off")
        @@ ("METRICS_BIND" :> "on"),
     Required @@ ("COMMANDS_ENABLED" :> "on"),
     Commands @@ ("REWARD_WATCH_DIGEST_PCT" :> "zero")}

\* Of equal stakes one is pending and one is bonded.
Stakes == (d1 :> [pending |-> 0, bonded |-> 2] @@ d2 :> [pending |-> 2, bonded |-> 9]
           @@ d3 :> [pending |-> 3, bonded |-> 0])

\* Three pages with any cursors on them, and the rows spread in four ways.
Spreads == {<< <<d1>>, <<d2>>, <<d3>> >>, << <<d1, d2>>, <<>>, <<d3>> >>,
            << <<d2>>, <<d1, d3>>, <<>> >>, << <<>>, <<d1, d2, d3>>, <<>> >>}
SomeListings ==
    {(First :> [rows |-> s[1], next |-> n[1]] @@ c1 :> [rows |-> s[2], next |-> n[2]]
      @@ c2 :> [rows |-> s[3], next |-> n[3]]) :
        s \in Spreads, n \in [1..3 -> {NoCursor, c1, c2}]}

\* First and last days of months, years and weeks, in leap years and others.
MonthEnds == {FromYmd(y, m, 1) : y \in {2024, 2025, 2026}, m \in {1, 2, 3, 4}}
Dates == MonthEnds \union {d - 1 : d \in MonthEnds} \union {d + 1 : d \in MonthEnds}
         \union {FromYmd(y, 3, 1) : y \in {1900, 2000, 2100}}
=============================================================================
