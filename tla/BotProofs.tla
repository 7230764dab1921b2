------------------------------ MODULE BotProofs ------------------------------
(***************************************************************************)
(* What holds of the process and its commands for every environment,       *)
(* listing, date, number of attempts and bound.                            *)
(***************************************************************************)
EXTENDS BotProcess, FiniteSetTheorems, TLAPS

-----------------------------------------------------------------------------
(* The process.                                                            *)

\* However pollers and the gateway fail, only a signal ends a process whose core tasks
\* all live.
THEOREM SparesCore == Spec => CommandsSpareCore
<1> DEFINE Spared ==
        (proc # "down" /\ core = CoreTasks(env) /\ proc' = "down") => ended' = "signal"
<1>1. ASSUME RuntimeNext PROVE Spared
  <2>1. ASSUME NEW e \in Environments, Start(e) PROVE Spared
    BY <2>1 DEF Start
  <2>2. CASE Seeded
    BY <2>2 DEF Seeded
  <2>3. CASE Interrupt
    BY <2>3 DEF Interrupt, ProcessEnds
  <2>4. CASE JoinNext
    BY <2>4 DEF JoinNext
  <2>5. ASSUME NEW t \in core \union detached, IntervalPanics(t) \/ Panics(t) PROVE Spared
    BY <2>5 DEF IntervalPanics, Panics, TaskEnds
  <2>6. CASE GatewayNext \/ GatewayExits
    BY <2>6 DEF GatewayNext, GatewayReady, GatewayRetries, GatewayExits
  <2> QED BY <1>1, <2>1, <2>2, <2>3, <2>4, <2>5, <2>6 DEF RuntimeNext
<1>2. ASSUME [Next]_vars PROVE [Spared]_procVars
  <2>1. CASE ProcessStep
    BY <2>1, <1>1 DEF ProcessStep
  <2>2. CASE Arrives \/ CommandStep
    BY <2>2 DEF Arrives, CommandStep, Sent, SendFails, procVars
  <2>3. CASE UNCHANGED vars
    BY <2>3 DEF vars
  <2> QED BY <1>2, <2>1, <2>2, <2>3 DEF Next
<1> QED BY <1>2, PTL DEF Spec, CommandsSpareCore

-----------------------------------------------------------------------------
(* The commands.                                                           *)

\* The invariant: every attempt before this one has failed, none of them for good, and
\* the lines of a list in progress are about failures that lasted.
GetInv ==
    /\ get \in [attempt : 1..MaxAttempts, transient : Nat, permanent : Nat]
    /\ get.transient = get.attempt - 1
    /\ get.permanent = 0

LinesInv == (job.pc = "get" /\ job.kind = "subscriptions") =>
                \A n \in job.lines : HasCause(n.cause)

CauseInv == GetInv /\ LinesInv /\ ErrorsHaveCause

\* A GET that begins has made no failed attempt.
LEMMA FreshGet == ASSUME get' = Fresh PROVE GetInv'
  BY ReadAssumption DEF GetInv, Fresh

\* A GET that returns and is not ok has failed for good.
LEMMA CauseLasts ==
    ASSUME GetInv, NEW answer \in Answers, Returns(answer)
    PROVE  HasCause(Cause(answer))
<1>1. /\ Cause(answer).answer = answer
      /\ Cause(answer).permanent = IF answer \in Permanent THEN 1 ELSE 0
      /\ Cause(answer).transient = get.transient + (IF answer \in Retryable THEN 1 ELSE 0)
  BY DEF Cause, Transient, Permanents, GetInv
<1>2. CASE answer \in Retryable
  <2>1. get.attempt = MaxAttempts
    BY <1>2, ReadAssumption DEF Returns, TriesAgain, GetInv
  <2> QED BY <1>1, <1>2, <2>1, ReadAssumption DEF HasCause, GetInv
<1>3. CASE answer \notin Retryable
  BY <1>1, <1>3 DEF HasCause
<1> QED BY <1>2, <1>3

LEMMA BeginKeepsCauses == ASSUME CauseInv, BeginCommand PROVE CauseInv'
<1>1. ASSUME NEW l \in Listings, BeginDelegators(l) PROVE CauseInv'
  BY <1>1 DEF BeginDelegators, CauseInv, GetInv, LinesInv, ErrorsHaveCause
<1>2. ASSUME NEW period \in AllCadences, NEW today \in Todays, BeginPeriod(period, today)
      PROVE CauseInv'
  BY <1>2 DEF BeginPeriod, CauseInv, GetInv, LinesInv, ErrorsHaveCause
<1>3. ASSUME NEW rows \in SUBSET Orchs, NEW blocked \in SUBSET rows,
             BeginSubscriptions(rows, blocked)
      PROVE CauseInv'
  <2>1. CASE rows = {}
    BY <1>3, <2>1 DEF BeginSubscriptions, Says, CauseInv, GetInv, LinesInv, ErrorsHaveCause
  <2>2. CASE rows # {}
    BY <1>3, <2>2 DEF BeginSubscriptions, CauseInv, GetInv, LinesInv, ErrorsHaveCause
  <2> QED BY <2>1, <2>2
<1>4. CASE BeginCuts
  BY <1>4 DEF BeginCuts, CauseInv, GetInv, LinesInv, ErrorsHaveCause
<1>5. CASE BeginRefused
  BY <1>5 DEF BeginRefused, Says, CauseInv, GetInv, LinesInv, ErrorsHaveCause
<1>6. CASE SubscriptionsFail
  <2>1. HasCause([answer |-> "database", transient |-> 0, permanent |-> 0])
    BY DEF HasCause, Retryable, Permanent
  <2> QED BY <1>6, <2>1 DEF SubscriptionsFail, CauseInv, GetInv, LinesInv, ErrorsHaveCause,
                            HasCause
<1> QED BY <1>1, <1>2, <1>3, <1>4, <1>5, <1>6 DEF BeginCommand

LEMMA RetryKeepsCauses ==
    ASSUME CauseInv, NEW answer \in Answers, Retry(answer) PROVE CauseInv'
<1>1. GetInv'
  <2>1. /\ get' = [attempt |-> get.attempt + 1, transient |-> Transient(answer),
                   permanent |-> Permanents(answer)]
        /\ answer \in Retryable /\ answer \notin Permanent /\ get.attempt < MaxAttempts
    BY DEF Retry, TriesAgain, Retryable, Permanent
  <2>2. Transient(answer) = get.transient + 1 /\ Permanents(answer) = 0
    BY <2>1 DEF Transient, Permanents, CauseInv, GetInv
  <2> QED BY <2>1, <2>2, ReadAssumption DEF CauseInv, GetInv
<1> QED BY <1>1 DEF Retry, CauseInv, LinesInv, ErrorsHaveCause

LEMMA FailureKeepsCauses ==
    ASSUME CauseInv, NEW answer \in Answers, GetFails(answer) PROVE CauseInv'
<1>1. HasCause(Cause(answer))
  BY CauseLasts DEF GetFails, CauseInv
<1>2. GetInv'
  BY FreshGet DEF GetFails, Returns
<1>3. reply' = [kind |-> "error", cause |-> Cause(answer)] /\ job' = [pc |-> "sorry"]
  BY DEF GetFails
<1>4. ErrorsHaveCause'
  <2>1. HasCause(reply'.cause)
    BY <1>1, <1>3
  <2> QED BY <2>1, <1>3 DEF ErrorsHaveCause, HasCause
<1> QED BY <1>2, <1>3, <1>4 DEF CauseInv, LinesInv

LEMMA LookUpKeepsCauses ==
    ASSUME CauseInv, NEW answer \in Answers, LookUp(answer) PROVE CauseInv'
<1> DEFINE o == CHOOSE p \in job.todo : TRUE
           lines == job.lines \union ListedAs(o, answer)
<1>1. \A n \in lines : HasCause(n.cause)
  <2>1. HasCause(Cause(answer))
    BY CauseLasts DEF LookUp, CauseInv
  <2>2. \A n \in job.lines : HasCause(n.cause)
    BY DEF LookUp, Returns, CauseInv, LinesInv
  <2>3. \A n \in ListedAs(o, answer) : n.cause = Cause(answer)
    BY DEF ListedAs
  <2> QED BY <2>1, <2>2, <2>3
<1>2. GetInv'
  BY FreshGet DEF LookUp, Returns
<1> HIDE DEF lines
<1>3. CASE job.todo = {o}
  <2>1. /\ job' = [pc |-> "send"]
        /\ reply' = [kind |-> "subscriptions", rows |-> job.rows, blocked |-> job.blocked,
                     lines |-> lines]
    BY <1>3 DEF LookUp, Says, lines
  <2> QED BY <1>1, <1>2, <2>1 DEF CauseInv, LinesInv, ErrorsHaveCause, HasCause
<1>4. CASE job.todo # {o}
  <2>1. job' = [job EXCEPT !.todo = @ \ {o}, !.lines = lines] /\ UNCHANGED reply
    BY <1>4 DEF LookUp, lines
  <2>2. job'.lines = lines
    BY <2>1
  <2> QED BY <1>1, <1>2, <2>1, <2>2 DEF CauseInv, LinesInv, ErrorsHaveCause, HasCause
<1> QED BY <1>3, <1>4

LEMMA FoundKeepsCauses ==
    ASSUME CauseInv, ProfileFound \/ PageFound \/ LeaderboardFound \/ CutsFound
    PROVE  CauseInv'
<1>1. GetInv'
  BY FreshGet DEF ProfileFound, PageFound, LeaderboardFound, CutsFound, Returns
<1>2. CASE ProfileFound
  BY <1>1, <1>2 DEF ProfileFound, CauseInv, LinesInv, ErrorsHaveCause
<1>3. CASE PageFound
  <2> DEFINE page == job.listing[job.cursor]
  <2>1. CASE Follows(page)
    <3>1. /\ job' = [job EXCEPT !.cursor = page.next, !.out = job.out \o page.rows,
                                !.seen = @ \union {page.next}]
          /\ job.kind = "page" /\ UNCHANGED reply
      BY <1>3, <2>1 DEF PageFound
    <3>2. job'.kind = job.kind
      BY <3>1
    <3> QED BY <1>1, <3>1, <3>2 DEF CauseInv, LinesInv, ErrorsHaveCause, HasCause
  <2>2. CASE ~Follows(page)
    <3>1. reply'.kind = "delegators" /\ job'.pc = "send"
      BY <1>3, <2>2 DEF PageFound, Says
    <3> QED BY <1>1, <3>1 DEF CauseInv, LinesInv, ErrorsHaveCause
  <2> QED BY <2>1, <2>2
<1>4. CASE LeaderboardFound
  BY <1>1, <1>4 DEF LeaderboardFound, Says, CauseInv, LinesInv, ErrorsHaveCause
<1>5. CASE CutsFound
  BY <1>1, <1>5 DEF CutsFound, Says, CauseInv, LinesInv, ErrorsHaveCause
<1> QED BY <1>2, <1>3, <1>4, <1>5

\* What a user is told has failed did fail for good: no transient failure reaches a
\* reply before the last of MaxAttempts in a row, and no permanent one is repeated.
THEOREM FailuresLasted == Spec => []ErrorsHaveCause
<1>1. Init => CauseInv
  BY ReadAssumption
    DEF Init, ReadInit, Fresh, GetInv, NoJob, NoReply, CauseInv, LinesInv, ErrorsHaveCause
<1>2. ASSUME CauseInv, [Next]_vars PROVE CauseInv'
  <2>1. CASE ProcessStep
    <3>1. CASE proc' = "down"
      BY <2>1, <3>1, FreshGet
      DEF ProcessStep, NoJob, NoReply, CauseInv, LinesInv, ErrorsHaveCause
    <3>2. CASE proc' # "down"
      BY <1>2, <2>1, <3>2
      DEF ProcessStep, readVars, CauseInv, GetInv, LinesInv, ErrorsHaveCause, HasCause
    <3> QED BY <3>1, <3>2
  <2>2. CASE Arrives
    BY <1>2, <2>2, BeginKeepsCauses DEF Arrives
  <2>3. CASE Answered
    <3>1. ASSUME NEW answer \in Answers, Retry(answer) \/ GetFails(answer) \/ LookUp(answer)
          PROVE CauseInv'
      BY <1>2, <3>1, RetryKeepsCauses, FailureKeepsCauses, LookUpKeepsCauses
    <3> QED BY <1>2, <2>3, <3>1, FoundKeepsCauses DEF Answered
  <2>4. CASE Sent
    BY <1>2, <2>4 DEF Sent, NoJob, NoReply, CauseInv, GetInv, LinesInv, ErrorsHaveCause
  <2>5. CASE SendFails
    BY <1>2, <2>5 DEF SendFails, NoJob, NoReply, CauseInv, GetInv, LinesInv, ErrorsHaveCause
  <2>6. CASE UNCHANGED vars
    BY <1>2, <2>6
    DEF vars, readVars, CauseInv, GetInv, LinesInv, ErrorsHaveCause, HasCause
  <2> QED BY <1>2, <2>1, <2>2, <2>3, <2>4, <2>5, <2>6 DEF Next, CommandStep
<1>3. CauseInv => ErrorsHaveCause
  BY DEF CauseInv
<1> QED BY <1>1, <1>2, <1>3, PTL DEF Spec

-----------------------------------------------------------------------------
(* Types.                                                                  *)

\* What a process that is down or seeding has not got yet: the gateway task comes last.
RunInv ==
    /\ proc = "down" => core = {} /\ detached = {}
    /\ proc = "seeding" => CommandsEnabled(env) /\ gateway = "none"

\* A step of the process keeps its types.
LEMMA ProcessTypes ==
    ASSUME RuntimeTypeOK, RunInv, RuntimeNext PROVE RuntimeTypeOK' /\ RunInv'
<1> USE DEF RuntimeTypeOK, RunInv
<1>0. MaxStarts \in Nat /\ MaxFaults \in Nat
  BY RuntimeAssumption
<1>1. ASSUME NEW e \in Environments, Start(e) PROVE RuntimeTypeOK' /\ RunInv'
  <2>1. starts' \in 0..MaxStarts /\ faults' = faults /\ env' = e /\ gateway' = gateway
    BY <1>0, <1>1 DEF Start
  <2>2. core = {} /\ detached = {} /\ gateway = "none"
    BY <1>1 DEF Start
  <2>3. CASE /\ proc' = IF CommandsEnabled(e) THEN "seeding" ELSE "up"
             /\ core' = CoreTasks(e) /\ detached' = MetricsTask(e) /\ ended' = "none"
    <3>1. "gateway" \notin detached' /\ detached' \subseteq DetachedTasks(e)
      BY <2>3 DEF DetachedTasks, MetricsTask
    <3>2. proc' \in {"seeding", "up"} /\ (proc' = "seeding" => CommandsEnabled(e))
      BY <2>3
    <3> QED BY <2>1, <2>2, <2>3, <3>1, <3>2
  <2>4. CASE UNCHANGED <<proc, core, detached>> /\ ended' = "boot"
    BY <1>1, <2>1, <2>2, <2>4 DEF Start
  <2> QED BY <1>1, <2>3, <2>4 DEF Start
<1>2. CASE Seeded
  <2>1. detached' = detached \union CommandTasks(env) /\ CommandsEnabled(env)
    BY <1>2 DEF Seeded
  <2>2. "gateway" \in detached' /\ detached' \subseteq DetachedTasks(env)
    BY <2>1 DEF CommandTasks, DetachedTasks
  <2> QED BY <1>2, <2>2 DEF Seeded
<1>3. CASE Interrupt \/ JoinNext
  BY <1>3 DEF Interrupt, JoinNext, ProcessEnds
<1>4. ASSUME NEW t \in core \union detached, IntervalPanics(t) \/ Panics(t)
      PROVE  RuntimeTypeOK' /\ RunInv'
  <2>1. faults' \in 0..MaxFaults
    BY <1>0, <1>4 DEF IntervalPanics, Panics
  <2>2. TaskEnds(t)
    BY <1>4 DEF IntervalPanics, Panics
  <2> QED BY <2>1, <2>2 DEF TaskEnds
<1>5. CASE GatewayNext \/ GatewayExits
  <2>1. faults' \in 0..MaxFaults
    BY <1>0, <1>5 DEF GatewayNext, GatewayReady, GatewayRetries, GatewayExits
  <2>2. /\ UNCHANGED <<proc, env, core, detached, ended, starts>>
        /\ gateway # "none" /\ gateway' \in {"connecting", "serving", "mute", "waiting"}
    BY <1>5 DEF GatewayNext, GatewayReady, GatewayRetries, GatewayExits
  <2> QED BY <2>1, <2>2
<1> QED BY <1>1, <1>2, <1>3, <1>4, <1>5 DEF RuntimeNext

\* A job, by its kind.
LEMMA JobKinds ==
    ASSUME JobTypeOK, job.pc = "get"
    PROVE  /\ job.kind = "profile" => job.listing \in Listings
           /\ job.kind = "leaderboard" => job \in [pc : {"get"}, kind : {"leaderboard"},
                 period : AllCadences, today : Todays, window : Windows]
           /\ job.kind = "page" => job \in PageJobs
           /\ job.kind = "subscriptions" => job \in ListJobs
<1>1. job \notin [pc : {"none", "send", "sorry"}]
  OBVIOUS
<1>2. CASE job \in [pc : {"get"}, kind : {"cuts"}]
  BY <1>2
<1>3. CASE job \in [pc : {"get"}, kind : {"profile"}, listing : Listings]
  BY <1>3
<1>4. CASE job \in [pc : {"get"}, kind : {"leaderboard"},
                    period : AllCadences, today : Todays, window : Windows]
  BY <1>4
<1>5. CASE job \in PageJobs
  BY <1>5 DEF PageJobs
<1>6. CASE job \in ListJobs
  BY <1>6 DEF ListJobs
<1> QED BY <1>1, <1>2, <1>3, <1>4, <1>5, <1>6 DEF JobTypeOK

\* A page of a listing.
LEMMA PageTypes ==
    ASSUME NEW l \in Listings, NEW c \in DOMAIN l
    PROVE  /\ l[c].rows \in Seq(Delegators)
           /\ l[c].next # NoCursor => l[c].next \in DOMAIN l \ {First}
           /\ DOMAIN l \subseteq Cursors /\ First \in DOMAIN l
<1>1. DOMAIN l \subseteq Cursors
  BY DEF Cursors
<1> QED BY <1>1, ListingAssumption

\* A job that is not getting anything, and no reply or one of the given kind.
LEMMA EndTypes ==
    ASSUME ReplyTypeOK', NEW pc \in {"none", "send", "sorry"}, job' = [pc |-> pc]
    PROVE  JobTypeOK' /\ ReplyTypeOK'
  BY DEF JobTypeOK

\* What is said about a failure.
LEMMA CauseTypes ==
    ASSUME GetInv, NEW answer \in Answers, Returns(answer)
    PROVE  Cause(answer) \in Causes
<1>1. /\ get.transient \in 0..MaxAttempts - 1 /\ get.permanent = 0
      /\ MaxAttempts \in Nat \ {0}
  BY ReadAssumption DEF GetInv
<1>2. Transient(answer) \in 0..MaxAttempts /\ Permanents(answer) \in 0..MaxAttempts
  BY <1>1 DEF Transient, Permanents
<1> QED BY <1>2 DEF Cause, Causes

\* The types of the commands.
ReadInv == ReadTypeOK /\ GetInv

\* A command begins.
LEMMA BeginTypes == ASSUME ReadInv, BeginCommand PROVE ReadInv'
<1>1. ASSUME UNCHANGED <<get, reply>>
      PROVE  /\ GetInv' /\ get' \in Gets
             /\ ReplyTypeOK'
  BY <1>1 DEF ReadInv, GetInv, ReadTypeOK, ReplyTypeOK
<1>2. ASSUME UNCHANGED get
      PROVE  GetInv' /\ get' \in Gets
  BY <1>2 DEF ReadInv, GetInv, ReadTypeOK
<1>3. ASSUME NEW l \in Listings, BeginDelegators(l) PROVE ReadInv'
  BY <1>1, <1>3 DEF BeginDelegators, ReadInv, ReadTypeOK, JobTypeOK
<1>4. ASSUME NEW period \in AllCadences, NEW today \in Todays, BeginPeriod(period, today)
      PROVE ReadInv'
  <2>1. PeriodWindow(period, today) \in Windows
    BY DEF Windows
  <2> QED BY <1>1, <1>4, <2>1 DEF BeginPeriod, ReadInv, ReadTypeOK, JobTypeOK
<1>5. ASSUME NEW rows \in SUBSET Orchs, NEW blocked \in SUBSET rows,
             BeginSubscriptions(rows, blocked)
      PROVE ReadInv'
  <2>1. CASE rows = {}
    <3>1. /\ job' = [pc |-> "send"] /\ UNCHANGED get
          /\ reply' = [kind |-> "subscriptions", rows |-> {}, blocked |-> {}, lines |-> {}]
      BY <1>5, <2>1 DEF BeginSubscriptions, Says
    <3>2. ReplyTypeOK'
      BY <3>1 DEF ReplyTypeOK
    <3> QED BY <1>2, <3>1, <3>2, EndTypes DEF ReadInv, ReadTypeOK
  <2>2. CASE rows # {}
    <3>1. /\ UNCHANGED <<get, reply>>
          /\ job' = [pc |-> "get", kind |-> "subscriptions", rows |-> rows,
                     blocked |-> blocked, todo |-> rows, lines |-> {}]
      BY <1>5, <2>2 DEF BeginSubscriptions
    <3>2. job' \in ListJobs
      BY <2>2, <3>1 DEF ListJobs
    <3> QED BY <1>1, <3>1, <3>2 DEF ReadInv, ReadTypeOK, JobTypeOK
  <2> QED BY <2>1, <2>2
<1>6. CASE BeginCuts
  BY <1>1, <1>6 DEF BeginCuts, ReadInv, ReadTypeOK, JobTypeOK
<1>7. CASE BeginRefused
  BY <1>2, <1>7 DEF BeginRefused, Says, ReadInv, ReadTypeOK, JobTypeOK, ReplyTypeOK
<1>8. CASE SubscriptionsFail
  <2>1. /\ job' = [pc |-> "sorry"] /\ UNCHANGED get
        /\ reply' = [kind |-> "error", cause |-> [answer |-> "database", transient |-> 0,
                                                  permanent |-> 0]]
    BY <1>8 DEF SubscriptionsFail
  <2>2. ReplyTypeOK'
    BY <2>1, ReadAssumption DEF ReplyTypeOK, Causes
  <2> QED BY <1>2, <2>1, <2>2, EndTypes DEF ReadInv, ReadTypeOK
<1> QED BY <1>3, <1>4, <1>5, <1>6, <1>7, <1>8 DEF BeginCommand

\* A GET that begins, or begins again.
LEMMA GetTypes ==
    ASSUME \/ get' = Fresh
           \/ GetInv /\ \E answer \in Answers : Retry(answer)
    PROVE  GetInv' /\ get' \in Gets
<1>1. MaxAttempts \in Nat \ {0}
  BY ReadAssumption
<1>2. CASE get' = Fresh
  BY <1>1, <1>2 DEF Fresh, GetInv, Gets
<1>3. CASE GetInv /\ \E answer \in Answers : Retry(answer)
  <2>1. PICK answer \in Answers : Retry(answer)
    BY <1>3
  <2>2. /\ get' = [attempt |-> get.attempt + 1, transient |-> Transient(answer),
                   permanent |-> Permanents(answer)]
        /\ answer \in Retryable /\ answer \notin Permanent /\ get.attempt < MaxAttempts
    BY <2>1 DEF Retry, TriesAgain, Retryable, Permanent
  <2>3. Transient(answer) = get.transient + 1 /\ Permanents(answer) = 0
    BY <1>3, <2>2 DEF Transient, Permanents, GetInv
  <2> QED BY <1>1, <1>3, <2>2, <2>3 DEF GetInv, Gets
<1> QED BY <1>2, <1>3

\* A name is looked up.
LEMMA LookUpTypes ==
    ASSUME ReadInv, NEW answer \in Answers, LookUp(answer) PROVE ReadInv'
<1> DEFINE o == CHOOSE p \in job.todo : TRUE
           lines == job.lines \union ListedAs(o, answer)
<1>1. job \in ListJobs
  BY JobKinds DEF LookUp, Returns, ReadInv, ReadTypeOK
<1>2. o \in job.todo /\ o \in Orchs
  BY <1>1 DEF ListJobs
<1>3. Cause(answer) \in Causes
  BY CauseTypes DEF LookUp, ReadInv
<1>4. ListedAs(o, answer) \subseteq [orch : Orchs, flag : BOOLEAN, cause : Causes]
  <2> HIDE DEF o
  <2>1. (o \in job.blocked) \in BOOLEAN
    OBVIOUS
  <2> QED BY <1>2, <1>3, <2>1 DEF ListedAs
<1>5. lines \subseteq [orch : Orchs, flag : BOOLEAN, cause : Causes]
  BY <1>1, <1>4 DEF ListJobs
<1>6. GetInv' /\ get' \in Gets
  BY GetTypes DEF LookUp, Returns
<1>7. CASE job.todo = {o}
  <2>1. /\ job' = [pc |-> "send"]
        /\ reply' = [kind |-> "subscriptions", rows |-> job.rows, blocked |-> job.blocked,
                     lines |-> lines]
    BY <1>7 DEF LookUp, Says
  <2> HIDE DEF lines
  <2>2. ReplyTypeOK'
    BY <1>5, <2>1 DEF ReplyTypeOK
  <2> QED BY <1>6, <2>1, <2>2, EndTypes DEF ReadInv, ReadTypeOK
<1>8. CASE job.todo # {o}
  <2>1. job' = [job EXCEPT !.todo = job.todo \ {o}, !.lines = lines] /\ UNCHANGED reply
    BY <1>8 DEF LookUp
  <2>2. job.todo \ {o} # {}
    BY <1>2, <1>8
  <2> HIDE DEF lines, o
  <2>3. job' \in ListJobs
    BY <1>1, <1>5, <2>1, <2>2 DEF ListJobs
  <2>4. ReplyTypeOK'
    BY <2>1 DEF ReadInv, ReadTypeOK, ReplyTypeOK
  <2> QED BY <1>6, <2>3, <2>4 DEF ReadInv, ReadTypeOK, JobTypeOK
<1> QED BY <1>7, <1>8

\* A GET is tried again, or ends the command.
LEMMA FailTypes ==
    ASSUME ReadInv, NEW answer \in Answers, Retry(answer) \/ GetFails(answer) PROVE ReadInv'
<1>1. CASE Retry(answer)
  BY <1>1, GetTypes DEF Retry, ReadInv, ReadTypeOK, JobTypeOK, ReplyTypeOK
<1>2. CASE GetFails(answer)
  <2>1. /\ job' = [pc |-> "sorry"] /\ get' = Fresh
        /\ reply' = [kind |-> "error", cause |-> Cause(answer)]
    BY <1>2 DEF GetFails, Returns
  <2>2. Cause(answer) \in Causes
    BY <1>2, CauseTypes DEF GetFails, ReadInv
  <2>3. ReplyTypeOK'
    BY <2>1, <2>2 DEF ReplyTypeOK
  <2> QED BY <2>1, <2>3, GetTypes, EndTypes DEF ReadInv, ReadTypeOK
<1> QED BY <1>1, <1>2

\* A GET finds what it asked for.
LEMMA FoundTypes ==
    ASSUME ReadInv, ProfileFound \/ PageFound \/ LeaderboardFound \/ CutsFound PROVE ReadInv'
<1>1. GetInv' /\ get' \in Gets
  BY GetTypes DEF ProfileFound, PageFound, LeaderboardFound, CutsFound, Returns
<1>2. CASE ProfileFound
  <2>1. job.listing \in Listings
    BY <1>2, JobKinds DEF ProfileFound, ReadInv, ReadTypeOK
  <2>2. First \in Cursors
    BY <2>1, ListingAssumption DEF Cursors
  <2>3. job' \in PageJobs
    BY <1>2, <2>1, <2>2 DEF ProfileFound, PageJobs
  <2> QED BY <1>1, <1>2, <2>3 DEF ProfileFound, ReadInv, ReadTypeOK, JobTypeOK, ReplyTypeOK
<1>3. CASE PageFound
  <2> DEFINE page == job.listing[job.cursor]
             out == job.out \o page.rows
  <2>1. job \in PageJobs
    BY <1>3, JobKinds DEF PageFound, ReadInv, ReadTypeOK
  <2>2. job.cursor \in DOMAIN job.listing /\ job.listing \in Listings
    BY <2>1, ListingAssumption DEF PageJobs
  <2>3. page.rows \in Seq(Delegators) /\ (page.next # NoCursor => page.next \in DOMAIN job.listing \ {First})
    BY <2>2, PageTypes
  <2>4. DOMAIN job.listing \subseteq Cursors
    BY <2>2, PageTypes
  <2>5. out \in Seq(Delegators)
    BY <2>1, <2>3 DEF PageJobs
  <2>6. CASE Follows(page)
    <3>1. job' = [job EXCEPT !.cursor = page.next, !.out = out, !.seen = job.seen \union {page.next}]
      BY <1>3, <2>6 DEF PageFound
    <3>2. UNCHANGED reply
      BY <1>3, <2>6 DEF PageFound
    <3>3. page.next \in DOMAIN job.listing \ {First}
      BY <2>3, <2>6 DEF Follows
    <3> HIDE DEF page, out
    <3>4. job' \in PageJobs
      BY <2>1, <2>4, <2>5, <3>1, <3>3 DEF PageJobs
    <3> QED BY <1>1, <3>2, <3>4 DEF ReadInv, ReadTypeOK, JobTypeOK, ReplyTypeOK
  <2>7. CASE ~Follows(page)
    <3>1. job' = [pc |-> "send"] /\ reply' = [kind |-> "delegators", listing |-> job.listing, rows |-> Top(out)]
      BY <1>3, <2>7 DEF PageFound, Says
    <3>2. Len(Top(out)) <= DisplayLimit
      <4> HIDE DEF out
      <4>1. Shown(out) \in Nat /\ Shown(out) <= DisplayLimit
        BY <2>5, ReadAssumption DEF Shown
      <4>2. Len(Top(out)) = Shown(out)
        BY <4>1 DEF Top
      <4> QED BY <4>1, <4>2
    <3> HIDE DEF out
    <3>3. ReplyTypeOK'
      BY <3>1, <3>2 DEF ReplyTypeOK
    <3> QED BY <1>1, <3>1, <3>3, EndTypes DEF ReadInv, ReadTypeOK
  <2> QED BY <2>6, <2>7
<1>4. CASE LeaderboardFound
  BY <1>1, <1>4 DEF LeaderboardFound, Says, ReadInv, ReadTypeOK, JobTypeOK, ReplyTypeOK
<1>5. CASE CutsFound
  BY <1>1, <1>5 DEF CutsFound, Says, ReadInv, ReadTypeOK, JobTypeOK, ReplyTypeOK
<1> QED BY <1>2, <1>3, <1>4, <1>5

-----------------------------------------------------------------------------
(* What sort_by and truncate leave of a list.                              *)

\* No delegator twice.
NoneTwice(out) == \A i, j \in 1..Len(out) : out[i] = out[j] => i = j

\* Stakes are numbers.
LEMMA StakeTypes == ASSUME NEW d \in Delegators PROVE StakeOf(d) \in Nat
  BY ReadAssumption DEF StakeOf

\* The order of sort_by is total and strict.
LEMMA PrecedesOrders ==
    ASSUME NEW out \in Seq(Delegators)
    PROVE  /\ \A i \in 1..Len(out) : ~Precedes(out, i, i)
           /\ \A i, j \in 1..Len(out) : i # j => Precedes(out, i, j) \/ Precedes(out, j, i)
           /\ \A i, j, k \in 1..Len(out) :
                 Precedes(out, i, j) /\ Precedes(out, j, k) => Precedes(out, i, k)
<1>1. \A i \in 1..Len(out) : i \in Int /\ StakeOf(out[i]) \in Nat
  <2> TAKE i \in 1..Len(out)
  <2>1. i \in Int /\ out[i] \in Delegators
    OBVIOUS
  <2> QED BY <2>1, StakeTypes
<1> DEFINE S(i) == StakeOf(out[i])
<1>2. \A i \in 1..Len(out) : i \in Int /\ S(i) \in Int
  BY <1>1
<1>3. \A i, j \in 1..Len(out) : Precedes(out, i, j) <=> (S(i) > S(j) \/ (S(i) = S(j) /\ i < j))
  BY DEF Precedes
<1> HIDE DEF S
<1> QED BY <1>2, <1>3

\* How many rows come before row j: fewer than there are, and more the later it comes.
LEMMA BeforeCounts ==
    ASSUME NEW out \in Seq(Delegators), NEW j \in 1..Len(out)
    PROVE  /\ IsFiniteSet(Before(out, j)) /\ Cardinality(Before(out, j)) \in 0..Len(out) - 1
           /\ \A i \in 1..Len(out) : Precedes(out, i, j) =>
                 Cardinality(Before(out, i)) < Cardinality(Before(out, j))
<1> DEFINE n == Len(out)
<1>1. n \in Nat /\ j \in 1..n
  OBVIOUS
<1>2. IsFiniteSet(1..n) /\ Cardinality(1..n) = n
  BY <1>1, FS_Interval
<1>3. IsFiniteSet((1..n) \ {j}) /\ Cardinality((1..n) \ {j}) = n - 1
  BY <1>1, <1>2, FS_RemoveElement
<1>4. ASSUME NEW i \in 1..n
      PROVE  /\ Before(out, i) \subseteq 1..n
             /\ IsFiniteSet(Before(out, i)) /\ Cardinality(Before(out, i)) \in Nat
  <2>1. Before(out, i) \subseteq 1..n
    BY DEF Before
  <2> QED BY <1>2, <2>1, FS_Subset, FS_CardinalityType
<1>5. Cardinality(Before(out, j)) <= n - 1
  <2>1. Before(out, j) \subseteq (1..n) \ {j}
    BY PrecedesOrders DEF Before
  <2> QED BY <1>3, <2>1, FS_Subset
<1>6. ASSUME NEW i \in 1..n, Precedes(out, i, j)
      PROVE  Cardinality(Before(out, i)) < Cardinality(Before(out, j))
  <2>1. i \in Before(out, j) /\ i \notin Before(out, i)
    BY <1>6, PrecedesOrders DEF Before
  <2>2. Before(out, i) \subseteq Before(out, j)
    BY <1>6, PrecedesOrders DEF Before
  <2>3. Before(out, i) # Before(out, j)
    BY <2>1
  <2>4. /\ Cardinality(Before(out, i)) <= Cardinality(Before(out, j))
        /\ Cardinality(Before(out, j)) # Cardinality(Before(out, i))
    BY <1>4, <2>2, <2>3, FS_Subset
  <2> QED BY <1>4, <2>4
<1> QED BY <1>1, <1>4, <1>5, <1>6

\* Every place in the sorted list is taken by one row.
LEMMA OneRowPerPlace ==
    ASSUME NEW out \in Seq(Delegators)
    PROVE  /\ \A i, j \in 1..Len(out) :
                 Cardinality(Before(out, i)) = Cardinality(Before(out, j)) => i = j
           /\ \A n \in 1..Len(out) : \E j \in 1..Len(out) : Cardinality(Before(out, j)) = n - 1
<1> DEFINE L == Len(out)
           f == [j \in 1..L |-> Cardinality(Before(out, j)) + 1]
<1>1. L \in Nat
  OBVIOUS
<1>2. ASSUME NEW j \in 1..L PROVE f[j] \in 1..L /\ f[j] = Cardinality(Before(out, j)) + 1
  <2>1. Cardinality(Before(out, j)) \in 0..L - 1
    BY BeforeCounts
  <2> QED BY <1>1, <2>1
<1>3. ASSUME NEW i \in 1..L, NEW j \in 1..L,
             Cardinality(Before(out, i)) = Cardinality(Before(out, j))
      PROVE  i = j
  <2>1. Cardinality(Before(out, i)) \in Int
    BY BeforeCounts
  <2>2. ~Precedes(out, i, j) /\ ~Precedes(out, j, i)
    BY <1>3, <2>1, BeforeCounts
  <2> QED BY <2>2, PrecedesOrders
<1>4. f \in [1..L -> 1..L] /\ \A i, j \in 1..L : f[i] = f[j] => i = j
  <2>1. \A i, j \in 1..L : f[i] = f[j] => i = j
    <3> TAKE i \in 1..L, j \in 1..L
    <3>1. Cardinality(Before(out, i)) \in Int /\ Cardinality(Before(out, j)) \in Int
      BY BeforeCounts
    <3> QED BY <1>2, <1>3, <3>1
  <2>2. f \in [1..L -> 1..L]
    BY <1>2
  <2> QED BY <2>1, <2>2
<1>5. ASSUME NEW n \in 1..L PROVE \E j \in 1..L : f[j] = n
  <2> HIDE DEF f
  <2>1. f \in Injection(1..L, 1..L)
    BY <1>4 DEF Injection, IsInjective
  <2>2. IsFiniteSet(1..L)
    BY <1>1, FS_Interval
  <2>3. f \in Surjection(1..L, 1..L)
    BY <2>1, <2>2, FS_Injection
  <2> QED BY <2>3 DEF Surjection
<1>6. ASSUME NEW n \in 1..L PROVE \E j \in 1..L : Cardinality(Before(out, j)) = n - 1
  <2>1. PICK j \in 1..L : f[j] = n
    BY <1>5
  <2>2. Cardinality(Before(out, j)) \in Int
    BY BeforeCounts
  <2> QED BY <1>2, <2>1, <2>2
<1> QED BY <1>3, <1>6

\* Where the rows of a sorted list stood before.
LEMMA SortedPlaces ==
    ASSUME NEW out \in Seq(Delegators)
    PROVE  \E p \in [1..Len(out) -> 1..Len(out)] :
              /\ \A n \in 1..Len(out) : Sorted(out)[n] = out[p[n]]
              /\ \A j \in 1..Len(out) : \E n \in 1..Len(out) : p[n] = j
              /\ \A n, m \in 1..Len(out) : p[n] = p[m] => n = m
              /\ \A n, m \in 1..Len(out) : n < m => Precedes(out, p[n], p[m])
<1> DEFINE L == Len(out)
           C(j) == Cardinality(Before(out, j))
           p == [n \in 1..L |-> CHOOSE j \in 1..L : C(j) = n - 1]
<1>1. L \in Nat /\ \A j \in 1..L : C(j) \in 0..L - 1
  BY BeforeCounts
<1>2. ASSUME NEW n \in 1..L PROVE p[n] \in 1..L /\ C(p[n]) = n - 1 /\ Sorted(out)[n] = out[p[n]]
  <2>1. \E j \in 1..L : C(j) = n - 1
    BY OneRowPerPlace
  <2>2. p[n] = CHOOSE j \in 1..L : C(j) = n - 1
    OBVIOUS
  <2>3. Sorted(out)[n] = out[CHOOSE j \in 1..L : C(j) = n - 1]
    BY DEF Sorted
  <2> HIDE DEF p, C
  <2> QED BY <2>1, <2>2, <2>3
<1>3. p \in [1..L -> 1..L]
  BY <1>2
<1> HIDE DEF p
<1>4. ASSUME NEW j \in 1..L PROVE \E n \in 1..L : p[n] = j
  <2>1. C(j) + 1 \in 1..L /\ (C(j) + 1) - 1 = C(j)
    <3>1. C(j) \in 0..L - 1
      BY <1>1
    <3> HIDE DEF C, L
    <3> QED BY <1>1, <3>1
  <2>2. p[C(j) + 1] \in 1..L /\ C(p[C(j) + 1]) = C(j)
    BY <1>2, <2>1
  <2>3. p[C(j) + 1] = j
    BY <2>2, OneRowPerPlace
  <2> QED BY <2>1, <2>3
<1>5. ASSUME NEW n \in 1..L, NEW m \in 1..L, p[n] = p[m] PROVE n = m
  <2>1. C(p[n]) = n - 1 /\ C(p[m]) = m - 1
    BY <1>2
  <2> HIDE DEF C
  <2> QED BY <1>5, <2>1
<1>6. ASSUME NEW n \in 1..L, NEW m \in 1..L, n < m PROVE Precedes(out, p[n], p[m])
  <2>1. p[n] \in 1..L /\ p[m] \in 1..L /\ C(p[n]) = n - 1 /\ C(p[m]) = m - 1
    BY <1>2
  <2>2. p[n] # p[m]
    <3> HIDE DEF C
    <3> QED BY <1>6, <2>1
  <2>3. Precedes(out, p[m], p[n]) => C(p[m]) < C(p[n])
    BY <2>1, BeforeCounts
  <2>4. ~Precedes(out, p[m], p[n])
    <3> HIDE DEF C
    <3> QED BY <1>6, <2>1, <2>3
  <2> QED BY <2>1, <2>2, <2>4, PrecedesOrders
<1> QED BY <1>2, <1>3, <1>4, <1>5, <1>6

\* What is left is the largest stakes, in order, and nobody twice.
LEMMA TopIsTop ==
    ASSUME NEW out \in Seq(Delegators), NoneTwice(out)
    PROVE  LargestOf(Top(out), RowsIn(out))
<1> DEFINE L == Len(out)
           T == Shown(out)
           rows == Top(out)
           all == {out[i] : i \in 1..Len(out)}
           shown == {rows[i] : i \in DOMAIN rows}
<1>1. L \in Nat /\ T \in 0..L /\ (T = DisplayLimit \/ T = L)
  BY ReadAssumption DEF Shown
<1>2. PICK p \in [1..L -> 1..L] :
              /\ \A n \in 1..L : Sorted(out)[n] = out[p[n]]
              /\ \A j \in 1..L : \E n \in 1..L : p[n] = j
              /\ \A n, m \in 1..L : p[n] = p[m] => n = m
              /\ \A n, m \in 1..L : n < m => Precedes(out, p[n], p[m])
  BY SortedPlaces
<1>3. DOMAIN rows = 1..T /\ Len(rows) = T /\ \A n \in 1..T : n \in 1..L /\ rows[n] = out[p[n]]
  <2>1. rows = [n \in 1..T |-> Sorted(out)[n]]
    BY DEF Top
  <2> HIDE DEF rows, T, L
  <2>2. DOMAIN rows = 1..T /\ \A n \in 1..T : rows[n] = Sorted(out)[n]
    BY <2>1
  <2>3. \A n \in 1..T : n \in 1..L
    BY <1>1
  <2>4. Len(rows) = T
    BY <1>1, <2>1
  <2> QED BY <1>2, <2>2, <2>3, <2>4
<1>4. \A i \in 1..L : out[i] \in Delegators /\ StakeOf(out[i]) \in Nat
  <2>1. \A i \in 1..L : out[i] \in Delegators
    OBVIOUS
  <2> QED BY <2>1, StakeTypes
<1>5. \A n, m \in 1..L : n < m => StakeOf(out[p[n]]) >= StakeOf(out[p[m]])
  <2> SUFFICES ASSUME NEW n \in 1..L, NEW m \in 1..L, n < m
               PROVE StakeOf(out[p[n]]) >= StakeOf(out[p[m]])
    OBVIOUS
  <2>1. Precedes(out, p[n], p[m])
    BY <1>2
  <2>2. p[n] \in 1..L /\ p[m] \in 1..L
    BY <1>2
  <2>3. StakeOf(out[p[n]]) \in Nat /\ StakeOf(out[p[m]]) \in Nat
    BY <1>4, <2>2
  <2> QED BY <2>1, <2>3 DEF Precedes
<1> HIDE DEF L, T, rows
<1>6. shown \subseteq all
  <2> SUFFICES ASSUME NEW n \in 1..T PROVE rows[n] \in all
    BY <1>3
  <2>1. rows[n] = out[p[n]] /\ n \in 1..L
    BY <1>3
  <2>2. p[n] \in 1..Len(out)
    BY <1>2, <2>1 DEF L
  <2> QED BY <2>1, <2>2
<1>7. Cardinality(shown) = T
  <2> DEFINE f == [i \in 1..T |-> rows[i]]
  <2>1. \A i, j \in 1..T : rows[i] = rows[j] => i = j
    <3> SUFFICES ASSUME NEW i \in 1..T, NEW j \in 1..T, rows[i] = rows[j] PROVE i = j
      OBVIOUS
    <3>1. i \in 1..L /\ j \in 1..L /\ out[p[i]] = out[p[j]]
      BY <1>3
    <3>2. p[i] \in 1..L /\ p[j] \in 1..L
      BY <1>2, <3>1
    <3>3. p[i] = p[j]
      BY <3>1, <3>2 DEF NoneTwice, L
    <3> QED BY <1>2, <3>1, <3>3
  <2>2. f \in Bijection(1..T, shown)
    <3>1. f \in [1..T -> shown] /\ \A t \in shown : \E i \in 1..T : f[i] = t
      BY <1>3
    <3>2. \A i, j \in 1..T : f[i] = f[j] => i = j
      BY <2>1
    <3> HIDE DEF f, shown
    <3> QED BY <3>1, <3>2 DEF Bijection, Injection, IsInjective, Surjection
  <2>3. ExistsBijection(1..T, shown)
    BY <2>2 DEF ExistsBijection
  <2>4. T \in Nat
    BY <1>1
  <2> HIDE DEF shown
  <2> QED BY <2>3, <2>4, FS_CountingElements
<1>8. T = DisplayLimit \/ shown = all
  <2>1. CASE T = L
    <3> SUFFICES ASSUME NEW i \in 1..L PROVE out[i] \in shown
      BY <1>6 DEF L
    <3>1. PICK n \in 1..L : p[n] = i
      BY <1>2
    <3> QED BY <1>3, <2>1, <3>1
  <2> QED BY <1>1, <2>1
<1>9. ASSUME NEW i \in 1..T, NEW j \in 1..T, i < j PROVE StakeOf(rows[i]) >= StakeOf(rows[j])
  BY <1>3, <1>5, <1>9
<1>10. ASSUME NEW d \in all \ shown, NEW e \in shown PROVE StakeOf(d) <= StakeOf(e)
  <2>1. PICK i \in 1..L : d = out[i]
    BY DEF L
  <2>2. PICK m \in 1..L : p[m] = i
    BY <1>2
  <2>3. PICK n \in 1..T : e = rows[n]
    BY <1>3
  <2>4. n \in 1..L /\ e = out[p[n]]
    BY <1>3, <2>3
  <2>5. m \notin 1..T
    <3>1. m \in 1..T => d \in shown
      BY <1>3, <2>1, <2>2
    <3> QED BY <3>1
  <2>6. n < m
    BY <1>1, <2>4, <2>5
  <2>7. StakeOf(out[p[n]]) >= StakeOf(out[p[m]])
    BY <1>5, <2>4, <2>6
  <2>8. StakeOf(out[p[n]]) \in Nat /\ StakeOf(out[p[m]]) \in Nat
    <3>1. p[n] \in 1..L /\ p[m] \in 1..L
      BY <1>2, <2>4
    <3> QED BY <1>4, <3>1
  <2>9. StakeOf(e) >= StakeOf(d) /\ StakeOf(e) \in Nat /\ StakeOf(d) \in Nat
    BY <2>1, <2>2, <2>4, <2>7, <2>8
  <2> QED BY <2>9
<1>11. shown = RowsIn(rows) /\ all = RowsIn(out)
  BY <1>3 DEF RowsIn
<1> HIDE DEF shown, all
<1> QED BY <1>3, <1>6, <1>7, <1>8, <1>9, <1>10, <1>11 DEF LargestOf, rows

-----------------------------------------------------------------------------
(* Complete replies.                                                       *)

\* A listing half paged through: the pages behind have led here one by one, their rows
\* are what has been collected, and nobody is in it twice.
PageRight(l, c, seen, out) ==
    LET followed == {First} \union seen
        behind == followed \ {c} IN
    /\ followed \subseteq Reachable(l)
    /\ \A e \in behind : l[e].rows # <<>> /\ l[e].next \in followed
    /\ RowsIn(out) = RowsOfAll(l, behind)
    /\ NoneTwice(out)
PageInv ==
    (job.pc = "get" /\ job.kind = "page") =>
        PageRight(job.listing, job.cursor, job.seen, job.out)

\* A list half looked up: the lines are those of the rows behind.
Flagged(rows, blocked) == {[orch |-> o, flag |-> o \in blocked] : o \in rows}
Listed(lines) == {[orch |-> n.orch, flag |-> n.flag] : n \in lines}
ListInv ==
    (job.pc = "get" /\ job.kind = "subscriptions") =>
        Listed(job.lines) = Flagged(job.rows \ job.todo, job.blocked)

\* A leaderboard is asked for the window of its command.
WindowInv ==
    (job.pc = "get" /\ job.kind = "leaderboard") => job.window = PeriodWindow(job.period, job.today)

\* And so is its reply's.
WindowKept ==
    reply.kind = "leaderboard" =>
        /\ reply.period \in AllCadences /\ reply.today \in Todays
        /\ reply.window = PeriodWindow(reply.period, reply.today)

\* The invariant of the replies and of the commands on the way to them.
ReplyInv == PageInv /\ ListInv /\ WindowInv /\ RepliesComplete /\ WindowKept

\* What following the cursors leads to, once every page behind leads to one behind.
LEMMA ReachableClosed ==
    ASSUME NEW l \in Listings, NEW S \in SUBSET DOMAIN l, First \in S,
           \A s \in S : (l[s].rows # <<>> /\ l[s].next # NoCursor) => l[s].next \in S
    PROVE  Reachable(l) \subseteq S
  BY DEF Reachable

\* A page leads to the next, and the first is always there.
LEMMA ReachableStep ==
    ASSUME NEW l \in Listings, NEW c \in Reachable(l), l[c].rows # <<>>, l[c].next # NoCursor,
           l[c].next \in DOMAIN l
    PROVE  l[c].next \in Reachable(l)
  BY DEF Reachable

LEMMA ReachableFirst == ASSUME NEW l \in Listings PROVE First \in Reachable(l)
  BY ListingAssumption DEF Reachable

\* A page added to the rows of others.
LEMMA PageAdded ==
    ASSUME NEW l \in Listings, NEW V \in SUBSET DOMAIN l, NEW c \in DOMAIN l, c \notin V,
           NEW out \in Seq(Delegators), NoneTwice(out), RowsIn(out) = RowsOfAll(l, V)
    PROVE  /\ out \o l[c].rows \in Seq(Delegators) /\ NoneTwice(out \o l[c].rows)
           /\ RowsIn(out \o l[c].rows) = RowsOfAll(l, V \union {c})
<1> DEFINE rows == l[c].rows
           more == out \o rows
           n == Len(out)
           k == Len(rows)
<1>1. rows \in Seq(Delegators)
  BY PageTypes
<1>2. n \in Nat /\ k \in Nat /\ DOMAIN out = 1..n /\ DOMAIN rows = 1..k
  BY <1>1
<1>3. /\ more \in Seq(Delegators) /\ DOMAIN more = 1..n + k /\ Len(more) = n + k
      /\ \A i \in 1..n + k : more[i] = IF i <= n THEN out[i] ELSE rows[i - n]
  BY <1>1
<1>4. \A i, j \in 1..k : rows[i] = rows[j] => i = j
  BY <1>2, ListingAssumption
<1>5. ASSUME NEW i \in 1..n, NEW j \in 1..k PROVE out[i] # rows[j]
  <2>1. out[i] \in RowsOfAll(l, V)
    BY <1>2 DEF RowsIn
  <2>2. PICK e \in V : out[i] \in RowsIn(l[e].rows)
    BY <2>1 DEF RowsOfAll
  <2>3. e \in DOMAIN l /\ e # c
    OBVIOUS
  <2>4. PICK m \in DOMAIN l[e].rows : out[i] = l[e].rows[m]
    BY <2>2 DEF RowsIn
  <2> QED BY <1>2, <2>3, <2>4, ListingAssumption
<1> HIDE DEF rows, more, n, k
<1>6. NoneTwice(more)
  <2> SUFFICES ASSUME NEW i \in 1..n + k, NEW j \in 1..n + k, more[i] = more[j] PROVE i = j
    BY <1>3 DEF NoneTwice
  <2>1. CASE i <= n /\ j <= n
    <3>1. i \in 1..n /\ j \in 1..n /\ out[i] = out[j]
      BY <1>2, <1>3, <2>1
    <3> QED BY <3>1 DEF NoneTwice, n
  <2>2. CASE ~(i <= n) /\ ~(j <= n)
    <3>1. i - n \in 1..k /\ j - n \in 1..k /\ rows[i - n] = rows[j - n]
      BY <1>2, <1>3, <2>2
    <3>2. i - n = j - n
      BY <1>4, <3>1
    <3> QED BY <1>2, <3>2
  <2>3. CASE i <= n /\ ~(j <= n)
    <3>1. i \in 1..n /\ j - n \in 1..k /\ out[i] = rows[j - n]
      BY <1>2, <1>3, <2>3
    <3> QED BY <1>5, <3>1
  <2>4. CASE ~(i <= n) /\ j <= n
    <3>1. j \in 1..n /\ i - n \in 1..k /\ out[j] = rows[i - n]
      BY <1>2, <1>3, <2>4
    <3> QED BY <1>5, <3>1
  <2> QED BY <2>1, <2>2, <2>3, <2>4
<1>7. RowsIn(more) = RowsIn(out) \union RowsIn(rows)
  <2>1. ASSUME NEW i \in 1..n + k PROVE more[i] \in RowsIn(out) \union RowsIn(rows)
    <3>1. CASE i <= n
      <4>1. i \in DOMAIN out /\ more[i] = out[i]
        BY <1>2, <1>3, <3>1
      <4> QED BY <4>1 DEF RowsIn
    <3>2. CASE ~(i <= n)
      <4>1. i - n \in DOMAIN rows /\ more[i] = rows[i - n]
        BY <1>2, <1>3, <3>2
      <4> QED BY <4>1 DEF RowsIn
    <3> QED BY <3>1, <3>2
  <2>2. ASSUME NEW i \in 1..n PROVE \E j \in 1..n + k : more[j] = out[i]
    <3>1. i \in 1..n + k /\ more[i] = out[i]
      BY <1>2, <1>3
    <3> QED BY <3>1
  <2>3. ASSUME NEW i \in 1..k PROVE \E j \in 1..n + k : more[j] = rows[i]
    <3>1. i + n \in 1..n + k /\ ~(i + n <= n) /\ (i + n) - n = i
      BY <1>2
    <3>2. more[i + n] = rows[i]
      BY <1>3, <3>1
    <3> QED BY <3>1, <3>2
  <2> QED BY <1>2, <1>3, <2>1, <2>2, <2>3 DEF RowsIn
<1>8. RowsOfAll(l, V \union {c}) = RowsOfAll(l, V) \union RowsIn(rows)
  BY DEF RowsOfAll, rows
<1> QED BY <1>3, <1>6, <1>7, <1>8 DEF more, rows

\* A reply of another kind, and no listing or list in progress.
LEMMA OtherReply ==
    ASSUME reply'.kind \notin {"delegators", "subscriptions", "leaderboard"},
           job'.pc = "get" => job'.kind \notin {"page", "subscriptions", "leaderboard"}
    PROVE  ReplyInv'
  BY DEF ReplyInv, PageInv, ListInv, WindowInv, RepliesComplete, TopOfAllPages,
      EveryRowListed, WindowKept

\* The reply stays.
LEMMA SameReply ==
    ASSUME ReplyInv, UNCHANGED reply
    PROVE  RepliesComplete' /\ WindowKept'
<1>1. TopOfAllPages'
  BY DEF ReplyInv, RepliesComplete, TopOfAllPages
<1>2. EveryRowListed' /\ WindowKept'
  BY DEF ReplyInv, RepliesComplete, EveryRowListed, WindowKept
<1> QED BY <1>1, <1>2 DEF RepliesComplete

\* Job and reply stay.
LEMMA SameJob ==
    ASSUME ReplyInv, UNCHANGED <<job, reply>> PROVE ReplyInv'
<1>1. PageInv'
  BY DEF ReplyInv, PageInv
<1>2. ListInv' /\ WindowInv'
  BY DEF ReplyInv, ListInv, WindowInv
<1> QED BY <1>1, <1>2, SameReply DEF ReplyInv

\* A command begins.
LEMMA BeginReply == ASSUME ReplyInv, BeginCommand PROVE ReplyInv'
<1>1. ASSUME NEW l \in Listings, BeginDelegators(l) PROVE ReplyInv'
  BY <1>1, SameReply DEF BeginDelegators, ReplyInv, PageInv, ListInv, WindowInv
<1>2. ASSUME NEW period \in AllCadences, NEW today \in Todays, BeginPeriod(period, today)
      PROVE ReplyInv'
  BY <1>2, SameReply DEF BeginPeriod, ReplyInv, PageInv, ListInv, WindowInv
<1>3. ASSUME NEW rows \in SUBSET Orchs, NEW blocked \in SUBSET rows,
             BeginSubscriptions(rows, blocked)
      PROVE ReplyInv'
  <2>1. CASE rows = {}
    <3>1. /\ job' = [pc |-> "send"]
          /\ reply' = [kind |-> "subscriptions", rows |-> {}, blocked |-> {}, lines |-> {}]
      BY <1>3, <2>1 DEF BeginSubscriptions, Says
    <3> QED BY <3>1 DEF ReplyInv, PageInv, ListInv, WindowInv, RepliesComplete,
        TopOfAllPages, EveryRowListed, WindowKept
  <2>2. CASE rows # {}
    <3>1. /\ UNCHANGED reply
          /\ job' = [pc |-> "get", kind |-> "subscriptions", rows |-> rows,
                     blocked |-> blocked, todo |-> rows, lines |-> {}]
      BY <1>3, <2>2 DEF BeginSubscriptions
    <3>2. ListInv'
      BY <3>1 DEF ListInv, Listed, Flagged
    <3> QED BY <3>1, <3>2, SameReply DEF ReplyInv, PageInv, WindowInv
  <2> QED BY <2>1, <2>2
<1>4. CASE BeginCuts
  BY <1>4, SameReply DEF BeginCuts, ReplyInv, PageInv, ListInv, WindowInv
<1>5. CASE BeginRefused
  BY <1>5, OtherReply DEF BeginRefused, Says
<1>6. CASE SubscriptionsFail
  BY <1>6, OtherReply DEF SubscriptionsFail
<1> QED BY <1>1, <1>2, <1>3, <1>4, <1>5, <1>6 DEF BeginCommand

\* The next row is looked up, found or not: its line joins the others.
LEMMA LookUpReply ==
    ASSUME ReadInv, ReplyInv, NEW answer \in Answers, LookUp(answer) PROVE ReplyInv'
<1> DEFINE o == CHOOSE p \in job.todo : TRUE
           lines == job.lines \union ListedAs(o, answer)
<1>1. job \in ListJobs /\ job.pc = "get" /\ job.kind = "subscriptions"
  BY JobKinds DEF LookUp, Returns, ReadInv, ReadTypeOK
<1>2. o \in job.todo /\ job.todo \subseteq job.rows
  BY <1>1 DEF ListJobs
<1>3. Listed(job.lines) = Flagged(job.rows \ job.todo, job.blocked)
  BY <1>1 DEF ReplyInv, ListInv
<1> HIDE DEF o
<1>4. Listed(lines) = Flagged(job.rows \ (job.todo \ {o}), job.blocked)
  <2>1. Listed(lines) = Listed(job.lines) \union {[orch |-> o, flag |-> o \in job.blocked]}
    <3>1. ListedAs(o, answer) = {[orch |-> o, flag |-> o \in job.blocked, cause |-> Cause(answer)]}
      BY DEF ListedAs
    <3>2. Listed(ListedAs(o, answer)) = {[orch |-> o, flag |-> o \in job.blocked]}
      BY <3>1 DEF Listed
    <3>3. Listed(lines) = Listed(job.lines) \union Listed(ListedAs(o, answer))
      <4> DEFINE old == job.lines
                 more == ListedAs(o, answer)
      <4> HIDE DEF old, more
      <4>1. Listed(old \union more) = Listed(old) \union Listed(more)
        BY DEF Listed
      <4> QED BY <4>1 DEF old, more
    <3> QED BY <3>2, <3>3
  <2>2. Flagged(job.rows \ (job.todo \ {o}), job.blocked)
           = Flagged(job.rows \ job.todo, job.blocked) \union {[orch |-> o, flag |-> o \in job.blocked]}
    BY <1>2 DEF Flagged
  <2> QED BY <1>3, <2>1, <2>2
<1>5. CASE job.todo = {o}
  <2>1. /\ job' = [pc |-> "send"]
        /\ reply' = [kind |-> "subscriptions", rows |-> job.rows, blocked |-> job.blocked,
                     lines |-> lines]
    BY <1>5 DEF LookUp, Says, o
  <2>2. job.rows \ (job.todo \ {o}) = job.rows
    BY <1>5
  <2> HIDE DEF lines
  <2>3. Listed(reply'.lines) = Flagged(reply'.rows, reply'.blocked)
    BY <1>4, <2>1, <2>2
  <2>4. EveryRowListed'
    BY <2>3 DEF EveryRowListed, Listed, Flagged
  <2> QED BY <2>1, <2>4
    DEF ReplyInv, PageInv, ListInv, WindowInv, RepliesComplete, TopOfAllPages, WindowKept
<1>6. CASE job.todo # {o}
  <2>1. job' = [job EXCEPT !.todo = job.todo \ {o}, !.lines = lines] /\ UNCHANGED reply
    BY <1>6 DEF LookUp, o
  <2> HIDE DEF lines
  <2>2. /\ job'.kind = "subscriptions" /\ job'.rows = job.rows /\ job'.blocked = job.blocked
        /\ job'.todo = job.todo \ {o} /\ job'.lines = lines
    BY <1>1, <2>1 DEF ListJobs
  <2>3. ListInv'
    BY <1>4, <2>2 DEF ListInv
  <2> QED BY <2>1, <2>2, <2>3, SameReply DEF ReplyInv, PageInv, WindowInv
<1> QED BY <1>5, <1>6

\* The next page: its rows join the others, and the last one completes them.
LEMMA PageReply == ASSUME ReadInv, ReplyInv, PageFound PROVE ReplyInv'
<1> DEFINE l == job.listing
           c == job.cursor
           page == l[c]
           followed == {First} \union job.seen
           behind == followed \ {c}
           out == job.out \o page.rows
<1>1. job \in PageJobs /\ job.pc = "get" /\ job.kind = "page"
  BY JobKinds DEF PageFound, Returns, ReadInv, ReadTypeOK
<1>2. /\ l \in Listings /\ job.out \in Seq(Delegators) /\ c \in followed
      /\ job.seen \subseteq DOMAIN l \ {First}
  BY <1>1 DEF PageJobs
<1>3. followed \subseteq DOMAIN l /\ c \in DOMAIN l /\ behind \in SUBSET DOMAIN l /\ c \notin behind
  BY <1>2, ListingAssumption
<1>4. /\ followed \subseteq Reachable(l)
      /\ \A e \in behind : l[e].rows # <<>> /\ l[e].next \in followed
      /\ RowsIn(job.out) = RowsOfAll(l, behind)
      /\ NoneTwice(job.out)
  BY <1>1 DEF ReplyInv, PageInv, PageRight
<1>5. /\ out \in Seq(Delegators) /\ NoneTwice(out)
      /\ RowsIn(out) = RowsOfAll(l, followed)
  <2>1. behind \union {c} = followed
    BY <1>2
  <2> HIDE DEF behind, followed, l, c
  <2>2. /\ out \in Seq(Delegators) /\ NoneTwice(out)
        /\ RowsIn(out) = RowsOfAll(l, behind \union {c})
    BY <1>2, <1>3, <1>4, PageAdded
  <2> QED BY <2>1, <2>2
<1>6. page.next # NoCursor => page.next \in DOMAIN l \ {First}
  BY <1>2, <1>3, PageTypes
<1>7. CASE Follows(page)
  <2>1. /\ job' = [job EXCEPT !.cursor = page.next, !.out = out,
                              !.seen = job.seen \union {page.next}]
        /\ UNCHANGED reply
    BY <1>7 DEF PageFound
  <2>2. /\ job'.kind = "page" /\ job'.listing = l /\ job'.out = out
        /\ job'.cursor = page.next /\ job'.seen = job.seen \union {page.next}
    <3> HIDE DEF page, out
    <3> QED BY <1>1, <2>1 DEF PageJobs
  <2>3. page.rows # <<>> /\ page.next \notin job.seen \union {NoCursor}
    BY <1>7 DEF Follows
  <2>4. page.next \in DOMAIN l \ {First} /\ page.next \notin followed
    BY <1>6, <2>3
  <2>5. page.next \in Reachable(l)
    BY <1>2, <1>4, <2>3, <2>4, ReachableStep
  <2>6. /\ {First} \union job'.seen = followed \union {page.next}
        /\ ({First} \union job'.seen) \ {job'.cursor} = followed
    BY <2>2, <2>4
  <2> HIDE DEF out
  <2>7. \A e \in followed : l[e].rows # <<>> /\ l[e].next \in followed \union {page.next}
    BY <1>4, <2>3
  <2>8. PageInv'
    <3> HIDE DEF followed, page, l
    <3>1. followed \union {page.next} \subseteq Reachable(l)
      BY <1>4, <2>5
    <3> QED BY <1>5, <2>2, <2>6, <2>7, <3>1 DEF PageInv, PageRight
  <2> QED BY <2>1, <2>2, <2>8, SameReply DEF ReplyInv, ListInv, WindowInv
<1>8. CASE ~Follows(page)
  <2>1. /\ job' = [pc |-> "send"]
        /\ reply' = [kind |-> "delegators", listing |-> l, rows |-> Top(out)]
    BY <1>8 DEF PageFound, Says
  <2>2. Reachable(l) = followed
    <3>1. \A s \in followed : (l[s].rows # <<>> /\ l[s].next # NoCursor) => l[s].next \in followed
      BY <1>4, <1>8 DEF Follows
    <3>2. Reachable(l) \subseteq followed
      <4>1. First \in followed
        OBVIOUS
      <4> HIDE DEF followed, l
      <4> QED BY <1>2, <1>3, <3>1, <4>1, ReachableClosed
    <3> QED BY <1>4, <3>2
  <2> HIDE DEF out, l, followed
  <2>3. TopOfAllPages'
    <3>1. LargestOf(Top(out), RowsIn(out))
      BY <1>5, TopIsTop
    <3> QED BY <1>5, <2>1, <2>2, <3>1 DEF TopOfAllPages
  <2> QED BY <2>1, <2>3
    DEF ReplyInv, PageInv, ListInv, WindowInv, RepliesComplete, EveryRowListed, WindowKept
<1> QED BY <1>7, <1>8

\* Any answer of the explorer.
LEMMA AnsweredReply == ASSUME ReadInv, ReplyInv, Answered PROVE ReplyInv'
<1>1. ASSUME NEW answer \in Answers, Retry(answer) PROVE ReplyInv'
  BY <1>1, SameJob DEF Retry
<1>2. ASSUME NEW answer \in Answers, GetFails(answer) PROVE ReplyInv'
  BY <1>2, OtherReply DEF GetFails
<1>3. CASE ProfileFound
  <2>1. job.listing \in Listings
    BY <1>3, JobKinds DEF ProfileFound, ReadInv, ReadTypeOK
  <2>2. /\ job' = [pc |-> "get", kind |-> "page", listing |-> job.listing,
                   cursor |-> First, seen |-> {}, out |-> <<>>]
        /\ UNCHANGED reply
    BY <1>3 DEF ProfileFound
  <2>3. PageInv'
    <3>1. ({First} \union job'.seen) \ {job'.cursor} = {} /\ {First} \union job'.seen = {First}
      BY <2>2
    <3>2. First \in Reachable(job'.listing)
      BY <2>1, <2>2, ReachableFirst
    <3>3. Len(job'.out) = 0
      BY <2>2
    <3> QED BY <2>2, <3>1, <3>2, <3>3 DEF PageInv, PageRight, NoneTwice, RowsIn, RowsOfAll
  <2> QED BY <2>2, <2>3, SameReply DEF ReplyInv, ListInv, WindowInv
<1>4. CASE LeaderboardFound
  <2>1. /\ job.period \in AllCadences /\ job.today \in Todays
        /\ job.window = PeriodWindow(job.period, job.today)
    BY <1>4, JobKinds
      DEF LeaderboardFound, Returns, ReadInv, ReadTypeOK, ReplyInv, WindowInv
  <2>2. /\ job' = [pc |-> "send"]
        /\ reply' = [kind |-> "leaderboard", period |-> job.period, today |-> job.today,
                     window |-> job.window]
    BY <1>4 DEF LeaderboardFound, Says
  <2> QED BY <2>1, <2>2 DEF ReplyInv, PageInv, ListInv, WindowInv, RepliesComplete,
      TopOfAllPages, EveryRowListed, WindowKept
<1>5. CASE CutsFound
  BY <1>5, OtherReply DEF CutsFound, Says
<1>6. CASE PageFound
  BY <1>6, PageReply
<1>7. ASSUME NEW answer \in Answers, LookUp(answer) PROVE ReplyInv'
  BY <1>7, LookUpReply
<1> QED BY <1>1, <1>2, <1>3, <1>4, <1>5, <1>6, <1>7 DEF Answered

-----------------------------------------------------------------------------
(* The process with its commands.                                          *)

\* The inductive invariant.
IInv == TypeOK /\ RunInv /\ GetInv /\ ReplyInv

LEMMA InitInv == Init => IInv
<1> SUFFICES ASSUME Init PROVE IInv
  OBVIOUS
<1>1. RuntimeTypeOK /\ RunInv
  BY RuntimeAssumption DEF Init, RuntimeInit, RuntimeTypeOK, RunInv
<1>2. /\ job = [pc |-> "none"] /\ reply = [kind |-> "none"]
      /\ get = [attempt |-> 1, transient |-> 0, permanent |-> 0]
  BY DEF Init, ReadInit, NoJob, NoReply, Fresh
<1>3. ReadTypeOK /\ GetInv
  BY <1>2, ReadAssumption DEF ReadTypeOK, JobTypeOK, ReplyTypeOK, GetInv, Gets
<1>4. ReplyInv
  BY <1>2 DEF ReplyInv, PageInv, ListInv, WindowInv, RepliesComplete, TopOfAllPages,
      EveryRowListed, WindowKept
<1> QED BY <1>1, <1>2, <1>3, <1>4 DEF IInv, TypeOK

\* A command is over, with the reply or with an apology still to come.
LEMMA OverKeeps ==
    ASSUME IInv, NEW pc \in {"none", "sorry"}, job' = [pc |-> pc], reply' = NoReply,
           get' = get \/ get' = Fresh
    PROVE  ReadTypeOK' /\ GetInv' /\ ReplyInv'
<1>1. GetInv' /\ get' \in Gets
  <2>1. CASE get' = get
    BY <2>1 DEF IInv, TypeOK, ReadTypeOK, GetInv
  <2> QED BY <2>1, GetTypes
<1>2. ReplyInv' /\ ReplyTypeOK'
  BY OtherReply DEF NoReply, ReplyTypeOK
<1> QED BY <1>1, <1>2, EndTypes DEF ReadTypeOK

LEMMA NextInv == IInv /\ [Next]_vars => IInv'
<1> SUFFICES ASSUME IInv, [Next]_vars PROVE IInv'
  OBVIOUS
<1> USE DEF TypeOK, IInv
<1>1. CASE ProcessStep
  <2>1. RuntimeTypeOK' /\ RunInv'
    BY <1>1, ProcessTypes DEF ProcessStep
  <2>2. CASE proc' = "down"
    <3>1. job' = [pc |-> "none"] /\ get' = Fresh /\ reply' = NoReply
      BY <1>1, <2>2 DEF ProcessStep, NoJob
    <3>2. ReadTypeOK' /\ GetInv' /\ ReplyInv'
      BY <3>1, OverKeeps
    <3> QED BY <2>1, <3>1, <3>2
  <2>3. CASE proc' # "down"
    <3>1. UNCHANGED <<job, get, reply>>
      BY <1>1, <2>3 DEF ProcessStep, readVars
    <3>2. ReplyInv'
      BY <3>1, SameJob
    <3>3. ReadTypeOK' /\ GetInv'
      BY <3>1 DEF ReadTypeOK, JobTypeOK, ReplyTypeOK, GetInv
    <3>4. proc = "up" => proc' = "up"
      BY <1>1, <2>3
        DEF ProcessStep, RuntimeNext, Start, Seeded, Interrupt, JoinNext, ProcessEnds,
           IntervalPanics, Panics, TaskEnds, GatewayNext, GatewayReady, GatewayRetries, GatewayExits
    <3> QED BY <2>1, <3>1, <3>2, <3>3, <3>4
  <2> QED BY <2>2, <2>3
<1>2. ASSUME UNCHANGED <<proc, env, core, detached, gateway, ended, starts>>, faults' \in 0..MaxFaults
      PROVE RuntimeTypeOK' /\ RunInv'
  BY <1>2 DEF RuntimeTypeOK, RunInv
<1>3. CASE Arrives
  <2>1. RuntimeTypeOK' /\ RunInv' /\ proc' = "up"
    <3>1. UNCHANGED procVars /\ gateway = "serving"
      BY <1>3 DEF Arrives
    <3>2. proc = "up"
      BY <3>1 DEF RuntimeTypeOK, RunInv
    <3> QED BY <1>2, <3>1, <3>2 DEF procVars, RuntimeTypeOK
  <2>2. ReadInv' /\ ReplyInv'
    BY <1>3, BeginTypes, BeginReply DEF Arrives, ReadInv
  <2> QED BY <2>1, <2>2 DEF ReadInv
<1>4. CASE Answered /\ UNCHANGED procVars
  <2>1. RuntimeTypeOK' /\ RunInv'
    BY <1>2, <1>4 DEF procVars, RuntimeTypeOK
  <2>2. job.pc = "get"
    BY <1>4 DEF Answered, Retry, GetFails, LookUp, ProfileFound, PageFound,
        LeaderboardFound, CutsFound, Returns
  <2>3. ReadInv'
    <3>1. ASSUME NEW answer \in Answers, Retry(answer) \/ GetFails(answer) \/ LookUp(answer) PROVE ReadInv'
      BY <3>1, FailTypes, LookUpTypes DEF ReadInv
    <3>2. CASE ProfileFound \/ PageFound \/ LeaderboardFound \/ CutsFound
      BY <3>2, FoundTypes DEF ReadInv
    <3> QED BY <1>4, <3>1, <3>2 DEF Answered
  <2>4. ReplyInv'
    BY <1>4, AnsweredReply DEF ReadInv
  <2>5. proc' = "up"
    BY <1>4, <2>2 DEF procVars
  <2> QED BY <2>1, <2>3, <2>4, <2>5 DEF ReadInv
<1>5. CASE Sent
  <2>1. /\ job' = [pc |-> "none"] /\ reply' = NoReply /\ get' = get
        /\ UNCHANGED procVars
    BY <1>5 DEF Sent, NoJob
  <2>2. RuntimeTypeOK' /\ RunInv'
    BY <1>2, <2>1 DEF procVars, RuntimeTypeOK
  <2>3. ReadTypeOK' /\ GetInv' /\ ReplyInv'
    BY <2>1, OverKeeps
  <2> QED BY <2>1, <2>2, <2>3
<1>6. CASE SendFails
  <2>1. /\ job' = [pc |-> "sorry"] \/ job' = [pc |-> "none"]
        /\ reply' = NoReply /\ get' = get /\ job.pc # "none"
        /\ UNCHANGED <<proc, env, core, detached, gateway, ended, starts>>
    BY <1>6 DEF SendFails, NoJob
  <2>2. faults' \in 0..MaxFaults
    BY <1>6, RuntimeAssumption DEF SendFails, RuntimeTypeOK
  <2>3. RuntimeTypeOK' /\ RunInv'
    BY <1>2, <2>1, <2>2
  <2>4. ReadTypeOK' /\ GetInv' /\ ReplyInv'
    <3>1. CASE job' = [pc |-> "sorry"]
      BY <2>1, <3>1, OverKeeps
    <3>2. CASE job' = [pc |-> "none"]
      BY <2>1, <3>2, OverKeeps
    <3> QED BY <2>1, <3>1, <3>2
  <2> QED BY <2>1, <2>3, <2>4
<1>7. CASE UNCHANGED vars
  <2>1. UNCHANGED procVars /\ UNCHANGED <<job, get, reply>>
    BY <1>7 DEF vars, readVars
  <2>2. RuntimeTypeOK' /\ RunInv'
    BY <1>2, <2>1 DEF procVars, RuntimeTypeOK
  <2>3. ReplyInv'
    BY <2>1, SameJob
  <2>4. ReadTypeOK' /\ GetInv'
    BY <2>1 DEF ReadTypeOK, JobTypeOK, ReplyTypeOK, GetInv
  <2> QED BY <2>1, <2>2, <2>3, <2>4 DEF procVars
<1> QED BY <1>1, <1>3, <1>4, <1>5, <1>6, <1>7 DEF Next, CommandStep

LEMMA Invariance == Spec => []IInv
  BY InitInv, NextInv, PTL DEF Spec

\* Every variable keeps its type; in particular a gateway is connected exactly while its
\* task lives, and no command outlives the process.
THEOREM Types == Spec => []TypeOK
<1>1. IInv => TypeOK
  BY DEF IInv
<1> QED BY <1>1, Invariance, PTL

\* The two replies put together from several requests are complete, for every listing
\* that the explorer may hold and whatever its cursors lead to, for every number of rows
\* shown, and whichever lookups fail.
THEOREM CompleteReplies == Spec => []RepliesComplete
<1>1. IInv => RepliesComplete
  BY DEF IInv, ReplyInv
<1> QED BY <1>1, Invariance, PTL

\* The windows of the leaderboard commands are the calendar's: what is right of
\* period_window on the date of every command is right in every reply.
THEOREM WindowsInReplies ==
    ASSUME \A c \in AllCadences, d \in Todays : WindowRight(c, d)
    PROVE  Spec => []WindowIsLastClosed
<1>1. IInv => WindowIsLastClosed
  BY DEF IInv, ReplyInv, WindowKept, WindowIsLastClosed, WindowRight, LastComplete
<1> QED BY <1>1, Invariance, PTL
=============================================================================
