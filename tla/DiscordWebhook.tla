--------------------------- MODULE DiscordWebhook ---------------------------
(***************************************************************************)
(* The channel posts of the digest poster, the summary poster and the      *)
(* reward watch: they share one FanOutNotifier, which sends a payload to   *)
(* each DiscordWebhook in turn. A webhook holds its mutex for the whole of *)
(* a send, waits for its gate, posts, and tries again on 429 and 5xx.      *)
(*                                                                         *)
(* Time is what is left of each wait, in seconds; Tick lets one pass. A    *)
(* sleep may last longer than asked for, never less. BucketState.remaining *)
(* is written and never read: it is left out.                              *)
(***************************************************************************)
EXTENDS Integers, Sequences

CONSTANTS
    Callers,        \* tasks that share the notifier
    NumWebhooks,    \* configured URLs
    MaxAttempts,    \* MAX_ATTEMPTS
    BackoffCap,     \* BACKOFF_CAP_MS, in seconds
    Waits,          \* bound: waits in seconds that Discord answers with
    MaxLost         \* bound: posts that end in a transport error

Backoff(attempt) == IF 2 ^ (attempt - 1) < BackoffCap THEN 2 ^ (attempt - 1) ELSE BackoffCap

ASSUME WebhookAssumption ==
    /\ NumWebhooks \in Nat \ {0}
    /\ MaxAttempts \in Nat \ {0} /\ BackoffCap \in Nat \ {0}
    /\ Waits # {} /\ Waits \subseteq Nat /\ MaxLost \in Nat
ASSUME CapAboveBackoffs == \A n \in Waits : n <= BackoffCap
\* Arithmetic, true of every MaxAttempts: the shift of the backoff is a positive number.
ASSUME ShiftAssumption == \A attempt \in 1..MaxAttempts : 2 ^ (attempt - 1) \in Nat \ {0}

Webhooks == 1..NumWebhooks      \* in the order of the configured URLs

NoGate == -1
NoHeader == -1
Countdown == 0..BackoffCap

\* What Discord may answer. A 429 has its wait in the body or in retry-after, or not
\* at all; reset tells how long the bucket stays empty if remaining is 0. What remains of a
\* bucket that is not empty makes no difference.
Responses ==
    [status : {"2xx", "4xx", "5xx"}, remaining : {NoHeader}, reset : {NoHeader},
     retry : {NoHeader}]
    \union [status : {"2xx", "4xx", "5xx"}, remaining : {0}, reset : Waits \union {NoHeader},
            retry : {NoHeader}]
    \union [status : {"429"}, remaining : {NoHeader}, reset : {NoHeader},
            retry : Waits \union {NoHeader}]
    \union [status : {"429"}, remaining : {0}, reset : Waits, retry : Waits]

VARIABLES
    queue,       \* queue[w]: callers at webhook w; the head holds its mutex (tokio's is fair)
    gate,        \* BucketState.gate: what is left of it, or NoGate
    sleep,       \* sleep[w]: what is left of the holder's sleep
    call,        \* call[c]: the send that caller c is in
    refill,      \* Discord: refill[w] is what is left until w's bucket is full again
    dropped,     \* dropped[w]: the answer that told of this refill was a 429 or 5xx
    pause,       \* Discord: pause[w] is what is left of the pause after w's last 429 or 5xx
    taken,       \* taken[c]: webhooks that answered c's payload with 2xx
    closed,      \* closed[c]: webhooks whose answer to c's payload was not for a retry
    posts,       \* posts[c][w]: posts of c's payload to w
    lost

asked == <<refill, dropped, pause>>
vars == <<queue, gate, sleep, call, asked, taken, closed, posts, lost>>
waitVars == <<gate, sleep, asked>>

Calls == [pc : {"idle", "lock", "gate", "posted"}, at : Webhooks, attempt : 1..MaxAttempts,
          anyOk : BOOLEAN, answer : {"none", "ok", "err"}]
NoCall == [pc |-> "idle", at |-> 1, attempt |-> 1, anyOk |-> FALSE, answer |-> "none"]
\* A webhook's turn begins; the send is over.
Turn(w, any) == [pc |-> "lock", at |-> w, attempt |-> 1, anyOk |-> any, answer |-> "none"]
Over(any) == [pc |-> "idle", at |-> 1, attempt |-> 1, anyOk |-> any,
              answer |-> IF any THEN "ok" ELSE "err"]
Holds(c, w) == queue[w] # <<>> /\ Head(queue[w]) = c

\* DiscordWebhook::new, FanOutNotifier::new
Init ==
    /\ queue = [w \in Webhooks |-> <<>>]
    /\ gate = [w \in Webhooks |-> NoGate]
    /\ sleep = [w \in Webhooks |-> 0]
    /\ call = [c \in Callers |-> NoCall]
    /\ refill = [w \in Webhooks |-> 0] /\ dropped = [w \in Webhooks |-> FALSE]
    /\ pause = [w \in Webhooks |-> 0]
    /\ taken = [c \in Callers |-> {}] /\ closed = [c \in Callers |-> {}]
    /\ posts = [c \in Callers |-> [w \in Webhooks |-> 0]]
    /\ lost = 0

OneLess(n) == IF n > 0 THEN n - 1 ELSE n

\* A second goes by.
Tick ==
    /\ \E w \in Webhooks : gate[w] > 0 \/ sleep[w] > 0 \/ refill[w] > 0 \/ pause[w] > 0
    /\ gate' = [w \in Webhooks |-> OneLess(gate[w])]
    /\ sleep' = [w \in Webhooks |-> OneLess(sleep[w])]
    /\ refill' = [w \in Webhooks |-> OneLess(refill[w])]
    /\ pause' = [w \in Webhooks |-> OneLess(pause[w])]
    /\ UNCHANGED <<queue, call, dropped, taken, closed, posts, lost>>

\* FanOutNotifier::send begins with the first webhook.
Send(c) ==
    /\ call[c].pc = "idle"
    /\ call' = [call EXCEPT ![c] = Turn(1, FALSE)]
    /\ queue' = [queue EXCEPT ![1] = Append(@, c)]
    /\ taken' = [taken EXCEPT ![c] = {}] /\ closed' = [closed EXCEPT ![c] = {}]
    /\ posts' = [posts EXCEPT ![c] = [w \in Webhooks |-> 0]]
    /\ UNCHANGED <<waitVars, lost>>

\* wait_for_gate, with the mutex: takes the gate away and sleeps for what is left.
WaitForGate(c) ==
    LET w == call[c].at IN
    /\ call[c].pc = "lock" /\ Holds(c, w)
    /\ gate' = [gate EXCEPT ![w] = NoGate]
    /\ sleep' = [sleep EXCEPT ![w] = IF gate[w] > 0 THEN gate[w] ELSE 0]
    /\ call' = [call EXCEPT ![c].pc = "gate"]
    /\ UNCHANGED <<queue, asked, taken, closed, posts, lost>>

Post(c) ==
    LET w == call[c].at IN
    /\ call[c].pc = "gate" /\ sleep[w] = 0
    /\ call' = [call EXCEPT ![c].pc = "posted"]
    /\ posts' = [posts EXCEPT ![c][w] = posts[c][w] + 1]
    /\ UNCHANGED <<queue, waitVars, taken, closed, lost>>

-----------------------------------------------------------------------------
(* The answer.                                                             *)

\* What Discord and the retry policy ask for, whatever becomes of it in the code:
\* no post into an empty bucket before its reset-after is over, and a pause after a 429
\* (its wait, a second if it names none) or a 5xx (the backoff).
Refill(open, r) == IF r.remaining = 0 /\ r.reset # NoHeader THEN r.reset ELSE open
Dropped(open, r) ==
    IF r.remaining = 0 /\ r.reset # NoHeader THEN r.status \in {"429", "5xx"} ELSE open
Pause(open, attempt, r) ==
    IF r.status = "429" THEN IF r.retry # NoHeader THEN r.retry ELSE 1
    ELSE IF r.status = "5xx" THEN Backoff(attempt) ELSE open

\* Mutant: the last attempt returns its error before it sets the gate.
GateAfterLastLost(g, attempt, r) ==
    IF r.status \in {"429", "5xx"} /\ attempt = MaxAttempts THEN g
    ELSE IF r.status = "429" THEN IF r.retry # NoHeader THEN r.retry ELSE 1
    ELSE IF r.status = "5xx" THEN Backoff(attempt)
    ELSE IF r.remaining = 0 /\ r.reset # NoHeader THEN r.reset ELSE g

\* The gate after an answer: an empty bucket sets it, then a 429 or a 5xx
\* overwrites it.
GateAfter(g, attempt, r) ==
    IF r.status = "429" THEN IF r.retry # NoHeader THEN r.retry ELSE 1
    ELSE IF r.status = "5xx" THEN Backoff(attempt)
    ELSE IF r.remaining = 0 /\ r.reset # NoHeader THEN r.reset ELSE g

\* Mutant: one attempt too many.
AgainOnceMore(attempt, r) == r.status \in {"429", "5xx"} /\ attempt <= MaxAttempts

\* Mutant: 4xx answers are tried again.
Again4xx(attempt, r) == r.status \in {"429", "4xx", "5xx"} /\ attempt < MaxAttempts

Again(attempt, r) == r.status \in {"429", "5xx"} /\ attempt < MaxAttempts

\* Mutant: the answer of the last webhook decides.
AnyOkOfLast(c, ok) == ok

AnyOk(c, ok) == call[c].anyOk \/ ok

\* Every webhook is attempted, also after an error.
NextWebhook(c, ok) == IF call[c].at < NumWebhooks THEN "more" ELSE "done"

\* Mutant: the mutex is not released.
Kept(q) == q

Released(q) == Tail(q)

\* DiscordWebhook::send returns and releases the mutex; the notifier goes on
\* to the next webhook or answers its caller.
Leave(c, ok) ==
    LET w == call[c].at
        freed == [queue EXCEPT ![w] = Released(@)]
        any == AnyOk(c, ok)
    IN  IF NextWebhook(c, ok) = "more"
        THEN /\ call' = [call EXCEPT ![c] = Turn(w + 1, any)]
             /\ queue' = [freed EXCEPT ![w + 1] = Append(@, c)]
        ELSE /\ call' = [call EXCEPT ![c] = Over(any)]
             /\ queue' = freed

\* The response is read: headers, then the status.
Answer(c, r) ==
    LET w == call[c].at
        attempt == call[c].attempt
    IN
    /\ call[c].pc = "posted"
    /\ gate' = [gate EXCEPT ![w] = GateAfter(@, attempt, r)]
    /\ refill' = [refill EXCEPT ![w] = Refill(@, r)]
    /\ dropped' = [dropped EXCEPT ![w] = Dropped(@, r)]
    /\ pause' = [pause EXCEPT ![w] = Pause(@, attempt, r)]
    /\ taken' = [taken EXCEPT ![c] = IF r.status = "2xx" THEN @ \union {w} ELSE @]
    /\ closed' = [closed EXCEPT ![c] = IF r.status \in {"2xx", "4xx"} THEN @ \union {w} ELSE @]
    /\ IF Again(attempt, r)
       THEN /\ call' = [call EXCEPT ![c] = [call[c] EXCEPT !.pc = "lock", !.attempt = attempt + 1]]
            /\ UNCHANGED queue
       ELSE Leave(c, r.status = "2xx")
    /\ UNCHANGED <<sleep, posts, lost>>

\* No response: send().await? ends this webhook's turn without a retry.
TransportError(c) ==
    /\ call[c].pc = "posted" /\ lost < MaxLost
    /\ lost' = lost + 1
    /\ closed' = [closed EXCEPT ![c] = @ \union {call[c].at}]
    /\ Leave(c, FALSE)
    /\ UNCHANGED <<waitVars, taken, posts>>

Answered(c) == TransportError(c) \/ \E r \in Responses : Answer(c, r)

Next ==
    \/ Tick
    \/ \E c \in Callers : Send(c) \/ WaitForGate(c) \/ Post(c) \/ Answered(c)

Spec == Init /\ [][Next]_vars

\* Time passes, the tasks are scheduled, and the HTTP client's timeout ends every post.
FairSpec == Spec /\ WF_vars(Tick)
                 /\ \A c \in Callers :
                        WF_vars(WaitForGate(c)) /\ WF_vars(Post(c)) /\ WF_vars(Answered(c))

-----------------------------------------------------------------------------
(* Properties                                                              *)

\* Types of BucketState and of the calls.
TypeOK ==
    /\ queue \in [Webhooks -> Seq(Callers)]
    /\ gate \in [Webhooks -> {NoGate} \union Countdown]
    /\ sleep \in [Webhooks -> Countdown]
    /\ refill \in [Webhooks -> Countdown] /\ dropped \in [Webhooks -> BOOLEAN]
    /\ pause \in [Webhooks -> Countdown]
    /\ call \in [Callers -> Calls]
    /\ taken \in [Callers -> SUBSET Webhooks] /\ closed \in [Callers -> SUBSET Webhooks]
    /\ posts \in [Callers -> [Webhooks -> 0..MaxAttempts]]
    /\ lost \in 0..MaxLost

\* The callers move their watermark on Ok: Ok means that a webhook answered this very
\* payload with 2xx, Err that none did, either that each was tried with it, however many
\* callers queue and retry. (A message shown under a lost answer or a 5xx is not taken.)
AnswerIsTrue ==
    \A c \in Callers :
        /\ call[c].answer = "ok" => taken[c] # {}
        /\ call[c].answer = "err" => taken[c] = {}
        /\ call[c].answer # "none" => \A w \in Webhooks : posts[c][w] > 0

\* A payload that a webhook took, refused or may have taken is not posted to it again
\* in the same send.
NoPostAfterFinalAnswer ==
    [][\A c \in Callers, w \in Webhooks : posts'[c][w] = posts[c][w] + 1 => w \notin closed[c]]_vars

\* No caller posts to a webhook before the pause after its last 429 or 5xx is over, nor
\* before its bucket is full again, whichever caller was told. Excepted is a refill time
\* that came with a 429 or a 5xx: discord.rs:130 and :151 overwrite its gate by the pause,
\* be it shorter, although the header is to be honoured "on every send" (discord.rs:4).
WaitsHonoured ==
    [][\A c \in Callers, w \in Webhooks : posts'[c][w] = posts[c][w] + 1 =>
            pause[w] = 0 /\ (refill[w] = 0 \/ dropped[w])]_vars

\* A send is answered, and so the mutexes are handed on.
SendsAnswered == \A c \in Callers : call[c].pc # "idle" ~> call[c].pc = "idle"
=============================================================================
