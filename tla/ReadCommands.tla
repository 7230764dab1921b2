---------------------------- MODULE ReadCommands ----------------------------
(***************************************************************************)
(* The slash commands that read: /orchestrator delegators, rewards,        *)
(* tickets, cuts, and /subscriptions, with the explorer client below them. *)
(* Every request is a GET that is tried again after a transient failure.   *)
(* Commands share nothing with each other, so one is modelled at a time.   *)
(*                                                                         *)
(* A listing is what the explorer has about the delegators of an           *)
(* orchestrator: a page for the request without a cursor and for each      *)
(* cursor, [rows, next].                                                   *)
(***************************************************************************)
EXTENDS Calendar, Sequences, FiniteSets

CONSTANTS
    Delegators,
    Stake,           \* Stake[d]: [pending, bonded], pending 0 when absent or not positive
    Listings,        \* the listings to page through
    First, NoCursor, \* the page without a cursor; no next_cursor
    DisplayLimit,    \* DELEGATOR_DISPLAY_LIMIT
    Orchs,
    Todays,          \* dates on which a command may arrive
    MaxAttempts      \* MAX_GET_ATTEMPTS

Cursors == UNION {DOMAIN l : l \in Listings}

ASSUME ReadAssumption ==
    /\ DisplayLimit \in Nat \ {0} /\ MaxAttempts \in Nat \ {0}
    /\ Todays \subseteq Nat \ 0..31   \* a month of the calendar is over
    /\ Stake \in [Delegators -> [pending : Nat, bonded : Nat]]

\* No cursor stands for the page without one, and a delegator has one row.
ASSUME ListingAssumption ==
    \A l \in Listings :
        /\ First \in DOMAIN l
        /\ \A c \in DOMAIN l :
              /\ l[c].rows \in Seq(Delegators)
              /\ l[c].next \in (DOMAIN l \ {First}) \union {NoCursor}
              /\ l[c].next # First
        /\ \A c, e \in DOMAIN l : \A i \in DOMAIN l[c].rows, j \in DOMAIN l[e].rows :
              l[c].rows[i] = l[e].rows[j] => c = e /\ i = j

VARIABLES
    job,      \* the command in progress
    get,      \* its GET: the attempt, and how often it has failed before, and how
    reply     \* what is to be sent to the user

readVars == <<job, get, reply>>

NoJob == [pc |-> "none"]
NoReply == [kind |-> "none"]
Fresh == [attempt |-> 1, transient |-> 0, permanent |-> 0]

ReadInit == job = NoJob /\ get = Fresh /\ reply = NoReply

-----------------------------------------------------------------------------
(* A GET (get_with_retries, get_json).                                     *)

Retryable == {"busy", "lost"}        \* 5xx or 429; timeout or no connection
Permanent == {"missing", "bad"}      \* 404; any other status, or no JSON
Answers == {"ok"} \union Retryable \union Permanent

\* Mutant: every failure is tried again.
TriesAgainAlways(answer) == answer # "ok" /\ get.attempt < MaxAttempts

TriesAgain(answer) == answer \in Retryable /\ get.attempt < MaxAttempts

\* Failures of the GET, this answer's included.
Transient(answer) == get.transient + (IF answer \in Retryable THEN 1 ELSE 0)
Permanents(answer) == get.permanent + (IF answer \in Permanent THEN 1 ELSE 0)

\* A failure with attempts left: back off and send the request again.
Retry(answer) ==
    /\ job.pc = "get" /\ TriesAgain(answer)
    /\ get' = [attempt |-> get.attempt + 1, transient |-> Transient(answer),
               permanent |-> Permanents(answer)]
    /\ UNCHANGED <<job, reply>>

\* The GET returns.
Returns(answer) ==
    /\ job.pc = "get" /\ ~TriesAgain(answer)
    /\ get' = Fresh

\* It returns with an error that ends the command: on_error tells the user.
Cause(answer) == [answer |-> answer, transient |-> Transient(answer),
                  permanent |-> Permanents(answer)]

GetFails(answer) ==
    /\ answer # "ok" /\ Returns(answer)
    /\ job.kind # "subscriptions"
    /\ reply' = [kind |-> "error", cause |-> Cause(answer)]
    /\ job' = [pc |-> "sorry"]

Says(text) == job' = [pc |-> "send"] /\ reply' = text

-----------------------------------------------------------------------------
(* /orchestrator delegators: the profile, then page after page.            *)

\* delegator_stake_lpt
StakeOf(d) == IF Stake[d].pending > 0 THEN Stake[d].pending ELSE Stake[d].bonded

\* sort_by keeps rows of equal stakes in their order: row i comes before row j.
Precedes(out, i, j) ==
    \/ StakeOf(out[i]) > StakeOf(out[j])
    \/ StakeOf(out[i]) = StakeOf(out[j]) /\ i < j

Before(out, j) == {i \in 1..Len(out) : Precedes(out, i, j)}
Sorted(out) ==
    [n \in 1..Len(out) |->
        out[CHOOSE j \in 1..Len(out) : Cardinality(Before(out, j)) = n - 1]]

Shown(out) == IF Len(out) < DisplayLimit THEN Len(out) ELSE DisplayLimit

\* Mutant: the rows are cut off before they are sorted.
TopUnsorted(out) == Sorted([n \in 1..Shown(out) |-> out[n]])

\* Mutant: everything is shown.
TopUncut(out) == Sorted(out)

\* sort_by stake, truncate
Top(out) == [n \in 1..Shown(out) |-> Sorted(out)[n]]

BeginDelegators(l) ==
    /\ job.pc = "none"
    /\ job' = [pc |-> "get", kind |-> "profile", listing |-> l]
    /\ UNCHANGED <<get, reply>>

ProfileFound ==
    /\ job.pc = "get" /\ job.kind = "profile" /\ Returns("ok")
    /\ job' = [pc |-> "get", kind |-> "page", listing |-> job.listing,
               cursor |-> First, seen |-> {}, out |-> <<>>]
    /\ UNCHANGED reply

\* fetch_all_delegators goes on with a page that has rows and a cursor not seen before.
Follows(page) == page.rows # <<>> /\ page.next \notin job.seen \union {NoCursor}

PageFound ==
    /\ job.pc = "get" /\ job.kind = "page" /\ Returns("ok")
    /\ LET page == job.listing[job.cursor]
           out == job.out \o page.rows IN
       IF Follows(page)
       THEN /\ job' = [job EXCEPT !.cursor = page.next, !.out = out,
                                  !.seen = @ \union {page.next}]
            /\ UNCHANGED reply
       ELSE Says([kind |-> "delegators", listing |-> job.listing, rows |-> Top(out)])

-----------------------------------------------------------------------------
(* /orchestrator rewards, tickets, cuts.                                   *)

\* rewards and tickets differ in the leaderboard they ask.
BeginPeriod(period, today) ==
    /\ job.pc = "none"
    /\ job' = [pc |-> "get", kind |-> "leaderboard", period |-> period, today |-> today,
               window |-> PeriodWindow(period, today)]
    /\ UNCHANGED <<get, reply>>

LeaderboardFound ==
    /\ job.pc = "get" /\ job.kind = "leaderboard" /\ Returns("ok")
    /\ Says([kind |-> "leaderboard", period |-> job.period, today |-> job.today,
             window |-> job.window])

BeginCuts ==
    /\ job.pc = "none"
    /\ job' = [pc |-> "get", kind |-> "cuts"]
    /\ UNCHANGED <<get, reply>>

CutsFound ==
    /\ job.pc = "get" /\ job.kind = "cuts" /\ Returns("ok")
    /\ Says([kind |-> "cuts"])

\* Not an address: refused without a request.
BeginRefused ==
    /\ job.pc = "none"
    /\ Says([kind |-> "refused"])
    /\ UNCHANGED get

-----------------------------------------------------------------------------
(* /subscriptions: the rows as of now, and a name for each.                *)

BeginSubscriptions(rows, blocked) ==
    /\ job.pc = "none"
    /\ IF rows = {}
       THEN Says([kind |-> "subscriptions", rows |-> {}, blocked |-> {}, lines |-> {}])
       ELSE /\ job' = [pc |-> "get", kind |-> "subscriptions", rows |-> rows,
                       blocked |-> blocked, todo |-> rows, lines |-> {}]
            /\ UNCHANGED reply
    /\ UNCHANGED get

\* list_for_user fails.
SubscriptionsFail ==
    /\ job.pc = "none"
    /\ job' = [pc |-> "sorry"]
    /\ reply' = [kind |-> "error",
                 cause |-> [answer |-> "database", transient |-> 0, permanent |-> 0]]
    /\ UNCHANGED get

\* Mutant: a row whose lookup fails is left out.
LineIfFound(o, answer) ==
    IF answer # "ok" THEN {}
    ELSE {[orch |-> o, flag |-> o \in job.blocked, cause |-> Cause(answer)]}

\* One line of the list; the address stands in for a name not found.
ListedAs(o, answer) ==
    {[orch |-> o, flag |-> o \in job.blocked, cause |-> Cause(answer)]}

\* Mutant: a lookup that fails is made again.
LookUpUntilFound(answer) ==
    /\ job.pc = "get" /\ job.kind = "subscriptions"
    /\ Returns(answer)
    /\ LET o == CHOOSE p \in job.todo : TRUE
           lines == job.lines \union ListedAs(o, answer) IN
       IF answer # "ok" THEN UNCHANGED <<job, reply>>
       ELSE IF job.todo = {o}
       THEN Says([kind |-> "subscriptions", rows |-> job.rows, blocked |-> job.blocked,
                  lines |-> lines])
       ELSE /\ job' = [job EXCEPT !.todo = @ \ {o}, !.lines = lines]
            /\ UNCHANGED reply

\* One row after the other.
LookUp(answer) ==
    /\ job.pc = "get" /\ job.kind = "subscriptions"
    /\ Returns(answer)
    /\ LET o == CHOOSE p \in job.todo : TRUE
           lines == job.lines \union ListedAs(o, answer) IN
       IF job.todo = {o}
       THEN Says([kind |-> "subscriptions", rows |-> job.rows, blocked |-> job.blocked,
                  lines |-> lines])
       ELSE /\ job' = [job EXCEPT !.todo = @ \ {o}, !.lines = lines]
            /\ UNCHANGED reply

BeginCommand ==
    \/ \E l \in Listings : BeginDelegators(l)
    \/ \E period \in AllCadences, today \in Todays : BeginPeriod(period, today)
    \/ \E rows \in SUBSET Orchs : \E blocked \in SUBSET rows : BeginSubscriptions(rows, blocked)
    \/ BeginCuts \/ BeginRefused \/ SubscriptionsFail

\* What the explorer answers.
Answered ==
    \/ \E answer \in Answers : Retry(answer) \/ GetFails(answer) \/ LookUp(answer)
    \/ ProfileFound \/ PageFound \/ LeaderboardFound \/ CutsFound

-----------------------------------------------------------------------------
(* Properties                                                              *)

Gets == [attempt : 1..MaxAttempts, transient : 0..MaxAttempts, permanent : 0..MaxAttempts]
Causes == [answer : Answers \union {"database"}, transient : 0..MaxAttempts,
           permanent : 0..MaxAttempts]

Windows == {PeriodWindow(period, today) : period \in AllCadences, today \in Todays}

\* A listing is paged through along its cursors.
PageJobs ==
    {j \in [pc : {"get"}, kind : {"page"}, listing : Listings, cursor : Cursors,
            seen : SUBSET Cursors, out : Seq(Delegators)] :
        /\ j.cursor \in {First} \union j.seen
        /\ j.seen \subseteq DOMAIN j.listing \ {First}}
ListJobs ==
    {j \in [pc : {"get"}, kind : {"subscriptions"}, rows : SUBSET Orchs,
            blocked : SUBSET Orchs, todo : SUBSET Orchs,
            lines : SUBSET [orch : Orchs, flag : BOOLEAN, cause : Causes]] :
        j.blocked \subseteq j.rows /\ j.todo \subseteq j.rows /\ j.todo # {}}
JobTypeOK ==
    \/ job \in [pc : {"none", "send", "sorry"}]
    \/ job \in [pc : {"get"}, kind : {"cuts"}]
    \/ job \in [pc : {"get"}, kind : {"profile"}, listing : Listings]
    \/ job \in [pc : {"get"}, kind : {"leaderboard"}, period : AllCadences, today : Todays,
               window : Windows]
    \/ job \in PageJobs
    \/ job \in ListJobs

ReplyTypeOK ==
    /\ reply.kind \in {"none", "refused", "error", "delegators", "leaderboard", "cuts",
                       "subscriptions"}
    /\ reply.kind = "error" => reply.cause \in Causes
    /\ reply.kind = "delegators" => Len(reply.rows) <= DisplayLimit
    /\ reply.kind = "subscriptions" =>
          reply.lines \subseteq [orch : Orchs, flag : BOOLEAN, cause : Causes]

ReadTypeOK ==
    /\ JobTypeOK /\ ReplyTypeOK
    /\ get \in Gets

\* Pages that following next_cursor leads to, an empty page ending the way.
Reachable(l) ==
    {c \in DOMAIN l :
        \A S \in SUBSET DOMAIN l :
            (/\ First \in S
             /\ \A s \in S : (l[s].rows # <<>> /\ l[s].next # NoCursor) => l[s].next \in S)
            => c \in S}

RowsIn(rows) == {rows[i] : i \in DOMAIN rows}

RowsOfAll(l, pages) == UNION {RowsIn(l[c].rows) : c \in pages}

\* These are the largest stakes among them, in order, and nobody is in it twice.
LargestOf(rows, all) ==
    LET shown == RowsIn(rows) IN
    /\ shown \subseteq all
    /\ Cardinality(shown) = Len(rows)
    /\ Len(rows) = DisplayLimit \/ shown = all
    /\ \A i, j \in DOMAIN rows : i < j => StakeOf(rows[i]) >= StakeOf(rows[j])
    /\ \A d \in all \ shown, e \in shown : StakeOf(d) <= StakeOf(e)

\* /orchestrator delegators shows the largest stakes of all pages there are, also when
\* cursors lead in a circle.
TopOfAllPages ==
    reply.kind = "delegators" =>
        LargestOf(reply.rows, RowsOfAll(reply.listing, Reachable(reply.listing)))

\* /subscriptions lists every row the user had, with its flag, whatever lookups fail.
EveryRowListed ==
    reply.kind = "subscriptions" =>
        {[orch |-> n.orch, flag |-> n.flag] : n \in reply.lines}
            = {[orch |-> o, flag |-> o \in reply.blocked] : o \in reply.rows}

\* The two replies that are put together from several requests are complete.
RepliesComplete == TopOfAllPages /\ EveryRowListed

\* The failures behind an error: MaxAttempts transient ones, or a permanent one that
\* was not tried again.
HasCause(cause) ==
    /\ cause.answer \in Retryable => cause.transient = MaxAttempts
    /\ cause.permanent = IF cause.answer \in Permanent THEN 1 ELSE 0

\* A transient failure stays hidden unless it is the last of MaxAttempts in a row, and a
\* permanent one is not repeated: it comes once, at the end, or not at all. What the user
\* is told has failed did fail for good, and no GET goes on after such a failure.
ErrorsHaveCause ==
    /\ reply.kind = "error" => HasCause(reply.cause)
    /\ reply.kind = "subscriptions" => \A n \in reply.lines : HasCause(n.cause)

\* The module comment of orchestrator.rs: a period "always refers to the LAST complete
\* UTC period, never today-so-far", which is also the period of the public summaries.
LastComplete == [c \in AllCadences |-> [d \in Todays |-> LastClosedWindows(c, d)]]

WindowIsLastClosed ==
    reply.kind = "leaderboard" =>
        /\ LastComplete[reply.period][reply.today] = {reply.window}
        /\ LET summary == LastClosedPeriod(reply.period, reply.today) IN
           reply.window = <<summary.from, summary.to>>
=============================================================================
