------------------------ MODULE DiscordWebhookProofs ------------------------
(***************************************************************************)
(* Theorems about DiscordWebhook, for every set of callers, number of      *)
(* webhooks and of attempts, backoff cap and set of waits.                 *)
(***************************************************************************)
EXTENDS DiscordWebhook, SequenceTheorems, TLAPS

-----------------------------------------------------------------------------
(* The inductive invariant.                                                *)

\* Mutual exclusion: who waits for a gate or for an answer heads the queue.
MutexInv == \A c \in Callers : call[c].pc \in {"gate", "posted"} => Holds(c, call[c].at)

Sleeps(c, w) == call[c].pc = "gate" /\ call[c].at = w
Left(g) == IF g > 0 THEN g ELSE 0

Covers(n, p, f, d) == p <= n /\ (d \/ f <= n)
Covered(w, n) == Covers(n, pause[w], refill[w], dropped[w])

\* What Discord asked for is covered by the sleep of the holder, or by the gate when
\* nobody sleeps, and is over when somebody has posted: this is what makes
\* WaitsHonoured inductive.
WaitInv ==
    /\ \A c \in Callers : call[c].pc = "gate" => Covered(call[c].at, sleep[call[c].at])
    /\ \A c \in Callers : call[c].pc = "posted" => Covered(call[c].at, 0)
    /\ \A w \in Webhooks :
            (\A c \in Callers : ~Sleeps(c, w)) => Covered(w, Left(gate[w]))

\* How far a send has come: every webhook before the current one was tried, none
\* after it, and final answers came from those before it.
SendInv ==
    \A c \in Callers : call[c].pc # "idle" =>
        /\ call[c].answer = "none"
        /\ call[c].anyOk <=> taken[c] # {}
        /\ \A w \in Webhooks : /\ w < call[c].at => posts[c][w] > 0
                               /\ w > call[c].at => posts[c][w] = 0
                               /\ w \in closed[c] => w < call[c].at
        /\ posts[c][call[c].at] = IF call[c].pc = "posted" THEN call[c].attempt
                                  ELSE call[c].attempt - 1

IInv == TypeOK /\ MutexInv /\ WaitInv /\ SendInv /\ AnswerIsTrue

-----------------------------------------------------------------------------
(* Lemmas about the operators.                                             *)

\* Every wait that the code takes from an answer or makes up is in the range of
\* the countdown, and once the earlier waits are over its gate covers what was asked for.
LEMMA ResponseTypes ==
    ASSUME NEW r \in Responses
    PROVE  /\ r.status \in {"2xx", "4xx", "5xx", "429"} 
           /\ r.reset = NoHeader \/ r.reset \in Countdown
           /\ r.retry = NoHeader \/ r.retry \in Countdown
<1>1. Waits \subseteq Countdown
  BY WebhookAssumption, CapAboveBackoffs DEF Countdown
<1>. QED BY <1>1 DEF Responses, NoHeader

LEMMA BackoffType == \A attempt \in 1..MaxAttempts : Backoff(attempt) \in Countdown
BY WebhookAssumption, ShiftAssumption DEF Backoff, Countdown

LEMMA GateTypes ==
    ASSUME NEW r \in Responses, NEW attempt \in 1..MaxAttempts,
           NEW g \in {NoGate} \union Countdown,
           NEW p \in Countdown, NEW f \in Countdown, NEW d \in BOOLEAN
    PROVE  /\ GateAfter(g, attempt, r) \in {NoGate} \union Countdown
           /\ Pause(p, attempt, r) \in Countdown /\ Refill(f, r) \in Countdown
           /\ Dropped(d, r) \in BOOLEAN
           /\ Covers(0, p, f, d) =>
                Covers(Left(GateAfter(g, attempt, r)), Pause(p, attempt, r), Refill(f, r),
                       Dropped(d, r))
<1>. DEFINE b == Backoff(attempt)
<1>1. 1 \in Countdown /\ b \in Countdown
  BY WebhookAssumption, BackoffType DEF Countdown
<1>. HIDE DEF b
<1>2. GateAfter(g, attempt, r) =
        IF r.status = "429" THEN IF r.retry # NoHeader THEN r.retry ELSE 1
        ELSE IF r.status = "5xx" THEN b
        ELSE IF r.remaining = 0 /\ r.reset # NoHeader THEN r.reset ELSE g
  BY DEF GateAfter, b
<1>3. Pause(p, attempt, r) =
        IF r.status = "429" THEN IF r.retry # NoHeader THEN r.retry ELSE 1
        ELSE IF r.status = "5xx" THEN b ELSE p
  BY DEF Pause, b
<1>4. \A n \in Countdown : n \in Nat
  BY WebhookAssumption DEF Countdown
<1>5. GateAfter(g, attempt, r) \in {NoGate} \union Countdown
  BY <1>1, <1>2, ResponseTypes
<1>6. Pause(p, attempt, r) \in Countdown /\ Refill(f, r) \in Countdown
  BY <1>1, <1>3, ResponseTypes DEF Refill
<1>7. Dropped(d, r) \in BOOLEAN
  <2>1. CASE r.remaining = 0 /\ r.reset # NoHeader
    <3>1. Dropped(d, r) = (r.status \in {"429", "5xx"})
      BY <2>1, Zenon DEF Dropped
    <3>2. (r.status \in {"429", "5xx"}) \in BOOLEAN
      OBVIOUS
    <3>. QED BY <3>1, <3>2, Zenon
  <2>2. CASE ~(r.remaining = 0 /\ r.reset # NoHeader)
    BY <2>2, Zenon DEF Dropped
  <2>. QED BY <2>1, <2>2, Zenon
<1>8. ASSUME Covers(0, p, f, d)
      PROVE  Covers(Left(GateAfter(g, attempt, r)), Pause(p, attempt, r), Refill(f, r),
                    Dropped(d, r))
  <2>1. p = 0 /\ (d \/ f = 0)
    BY <1>4, <1>8 DEF Covers
  <2>2. CASE r.status = "429" \/ r.status = "5xx"
    <3>1. Left(GateAfter(g, attempt, r)) = Pause(p, attempt, r)
      BY <1>1, <1>2, <1>3, <1>4, <2>2, ResponseTypes DEF Left
    <3>2. Pause(p, attempt, r) \in Nat
      BY <1>4, <1>6
    <3>. HIDE DEF Left
    <3>3. CASE r.remaining = 0 /\ r.reset # NoHeader
      <4>1. Dropped(d, r)
        BY <2>2, <3>3, Zenon DEF Dropped
      <4>. QED BY <3>1, <3>2, <4>1 DEF Covers
    <3>4. CASE ~(r.remaining = 0 /\ r.reset # NoHeader)
      <4>1. Dropped(d, r) = d /\ Refill(f, r) = f
        BY <3>4, Zenon DEF Dropped, Refill
      <4>. QED BY <2>1, <3>1, <3>2, <4>1 DEF Covers
    <3>. QED BY <3>3, <3>4
  <2>3. CASE ~(r.status = "429" \/ r.status = "5xx")
    <3>1. Pause(p, attempt, r) = 0
      BY <1>3, <2>1, <2>3
    <3>2. GateAfter(g, attempt, r) = IF r.remaining = 0 /\ r.reset # NoHeader THEN r.reset ELSE g
      BY <1>2, <2>3
    <3>3. Left(GateAfter(g, attempt, r)) \in Nat
      BY <1>4, <1>5 DEF Left, NoGate
    <3>4. CASE r.remaining = 0 /\ r.reset # NoHeader
      <4>1. r.reset \in Nat
        BY <1>4, <3>4, ResponseTypes
      <4>. QED BY <3>1, <3>2, <3>4, <4>1 DEF Covers, Refill, Left
    <3>5. CASE ~(r.remaining = 0 /\ r.reset # NoHeader)
      <4>1. Dropped(d, r) = d /\ Refill(f, r) = f
        BY <3>5, Zenon DEF Dropped, Refill
      <4>. QED BY <2>1, <3>1, <3>3, <4>1 DEF Covers
    <3>. QED BY <3>4, <3>5
  <2>. QED BY <2>2, <2>3
<1>. QED BY <1>5, <1>6, <1>7, <1>8

\* A second that goes by keeps a wait covered.
LEMMA OneLessTypes ==
    /\ \A n \in Countdown : OneLess(n) \in Countdown
    /\ \A g \in {NoGate} \union Countdown : OneLess(g) \in {NoGate} \union Countdown
    /\ \A g \in {NoGate} \union Countdown :
            Left(g) \in Countdown /\ Left(OneLess(g)) = OneLess(Left(g))
BY WebhookAssumption DEF Countdown, NoGate, OneLess, Left

LEMMA CoversLess ==
    ASSUME NEW n \in Countdown, NEW p \in Countdown, NEW f \in Countdown, NEW d \in BOOLEAN,
           Covers(n, p, f, d)
    PROVE  /\ Covers(OneLess(n), OneLess(p), OneLess(f), d)
           /\ n = 0 => Covers(0, OneLess(p), OneLess(f), d)
BY WebhookAssumption DEF Countdown, OneLess, Covers

\* The calls that a send starts, goes on and ends with.
LEMMA TurnTypes ==
    /\ NoCall \in Calls
    /\ \A w \in Webhooks, any \in BOOLEAN : Turn(w, any) \in Calls /\ Over(any) \in Calls
BY WebhookAssumption DEF NoCall, Turn, Over, Calls, Webhooks

\* The head of a queue stays while callers line up behind it.
LEMMA QueueFacts ==
    ASSUME NEW q \in Seq(Callers), NEW c \in Callers
    PROVE  /\ Append(q, c) \in Seq(Callers) /\ Append(q, c) # <<>>
           /\ q # <<>> => Head(Append(q, c)) = Head(q)
           /\ q # <<>> => Tail(q) \in Seq(Callers)
BY AppendProperties, HeadTailAppend, HeadTailProperties

\* Two callers are not past the lock of one webhook.
LEMMA OneHolder ==
    ASSUME MutexInv, NEW c \in Callers, call[c].pc \in {"lock", "gate", "posted"},
           Holds(c, call[c].at), NEW d \in Callers, d # c, call[d].pc \in {"gate", "posted"}
    PROVE  call[d].at # call[c].at
BY DEF MutexInv, Holds

-----------------------------------------------------------------------------
(* The invariant holds initially and every action preserves it.            *)

LEMMA InitInv == Init => IInv
<1>. SUFFICES ASSUME Init PROVE IInv
  OBVIOUS
<1>. USE WebhookAssumption DEF Init
<1>1. NoCall \in Calls
  BY DEF NoCall, Calls, Webhooks
<1>2. TypeOK
  BY <1>1 DEF TypeOK, Countdown
<1>3. MutexInv /\ SendInv /\ AnswerIsTrue
  BY DEF MutexInv, SendInv, AnswerIsTrue, NoCall
<1>4. WaitInv
  BY DEF WaitInv, Covered, Covers, NoCall, Left, NoGate
<1>. QED BY <1>2, <1>3, <1>4 DEF IInv

LEMMA TickStep == IInv /\ Tick => IInv'
<1>. SUFFICES ASSUME IInv, Tick PROVE IInv'
  OBVIOUS
<1>1. /\ UNCHANGED <<queue, call, dropped, taken, closed, posts, lost>>
      /\ gate' = [w \in Webhooks |-> OneLess(gate[w])]
      /\ sleep' = [w \in Webhooks |-> OneLess(sleep[w])]
      /\ refill' = [w \in Webhooks |-> OneLess(refill[w])]
      /\ pause' = [w \in Webhooks |-> OneLess(pause[w])]
  BY DEF Tick
<1>2. TypeOK
  BY DEF IInv
<1>3. TypeOK'
  <2>1. /\ gate' \in [Webhooks -> {NoGate} \union Countdown]
        /\ sleep' \in [Webhooks -> Countdown]
        /\ refill' \in [Webhooks -> Countdown] /\ pause' \in [Webhooks -> Countdown]
    BY <1>1, <1>2, OneLessTypes DEF TypeOK
  <2>. QED BY <1>1, <1>2, <2>1 DEF TypeOK
<1>4. MutexInv' /\ SendInv' /\ AnswerIsTrue'
  BY <1>1 DEF IInv, MutexInv, Holds, SendInv, AnswerIsTrue
<1>5. WaitInv'
  <2>1. \A w \in Webhooks : /\ gate'[w] = OneLess(gate[w]) /\ sleep'[w] = OneLess(sleep[w])
                            /\ refill'[w] = OneLess(refill[w]) /\ pause'[w] = OneLess(pause[w])
                            /\ dropped'[w] = dropped[w]
                            /\ gate[w] \in {NoGate} \union Countdown /\ sleep[w] \in Countdown
                            /\ refill[w] \in Countdown /\ pause[w] \in Countdown
                            /\ dropped[w] \in BOOLEAN
    BY <1>1, <1>2 DEF TypeOK
  <2>2. \A c \in Callers : call'[c] = call[c] /\ call[c].at \in Webhooks
    BY <1>1, <1>2 DEF TypeOK, Calls
  <2>3. ASSUME NEW c \in Callers, call'[c].pc = "gate"
        PROVE  Covered(call[c].at, sleep[call[c].at])'
    <3>1. Covered(call[c].at, sleep[call[c].at])
      BY <2>2, <2>3 DEF IInv, WaitInv
    <3>. QED BY <2>1, <2>2, <3>1, CoversLess DEF Covered
  <2>4. ASSUME NEW c \in Callers, call'[c].pc = "posted"
        PROVE  Covered(call[c].at, 0)'
    <3>1. Covered(call[c].at, 0)
      BY <2>2, <2>4 DEF IInv, WaitInv
    <3>2. 0 \in Countdown
      BY WebhookAssumption DEF Countdown
    <3>. QED BY <2>1, <2>2, <3>1, <3>2, CoversLess DEF Covered
  <2>5. ASSUME NEW w \in Webhooks, \A c \in Callers : ~Sleeps(c, w)'
        PROVE  Covered(w, Left(gate[w]))'
    <3>1. Covered(w, Left(gate[w]))
      BY <2>2, <2>5 DEF IInv, WaitInv, Sleeps
    <3>2. Left(gate[w])' = OneLess(Left(gate[w])) /\ Left(gate[w]) \in Countdown
      BY <2>1, OneLessTypes DEF Left
    <3>. QED BY <2>1, <3>1, <3>2, CoversLess DEF Covered
  <2>. QED BY <2>3, <2>4, <2>5 DEF WaitInv
<1>. QED BY <1>3, <1>4, <1>5 DEF IInv

\* The waits stay covered in a step that touches none of them, unless it ends a
\* caller's sleep that is not over.
LEMMA QuietWaits ==
    ASSUME IInv, UNCHANGED <<gate, sleep, refill, dropped, pause>>, NEW c \in Callers,
           call' \in [Callers -> Calls], \A d \in Callers \ {c} : call'[d] = call[d],
           call'[c].pc # "gate", call[c].pc = "gate" => sleep[call[c].at] = 0,
           call'[c].pc = "posted" => call[c].pc = "gate" /\ call'[c].at = call[c].at
    PROVE  WaitInv'
<1>1. ASSUME NEW d \in Callers, call'[d].pc = "gate"
      PROVE  Covered(call[d].at, sleep[call[d].at])'
  BY <1>1 DEF IInv, WaitInv, Covered
<1>2. ASSUME NEW d \in Callers, call'[d].pc = "posted"
      PROVE  Covered(call[d].at, 0)'
  <2>1. CASE d = c
    BY <1>2, <2>1 DEF IInv, WaitInv, Covered
  <2>2. CASE d # c
    BY <1>2, <2>2 DEF IInv, WaitInv, Covered
  <2>. QED BY <2>1, <2>2
<1>3. ASSUME NEW w \in Webhooks, \A d \in Callers : ~Sleeps(d, w)'
      PROVE  Covered(w, Left(gate[w]))'
  <2>1. \A d \in Callers \ {c} : ~Sleeps(d, w)
    BY <1>3 DEF Sleeps
  <2>2. CASE Sleeps(c, w)
    <3>1. Covered(w, 0)
      BY <2>2 DEF IInv, WaitInv, Sleeps
    <3>2. /\ refill[w] \in Countdown /\ pause[w] \in Countdown
          /\ Left(gate[w]) \in Countdown
      BY OneLessTypes DEF IInv, TypeOK
    <3>3. Covered(w, Left(gate[w]))
      BY <3>1, <3>2, WebhookAssumption DEF Covered, Covers, Countdown
    <3>. QED BY <3>3 DEF Covered, Left
  <2>3. CASE ~Sleeps(c, w)
    BY <2>1, <2>3 DEF IInv, WaitInv, Covered, Left
  <2>. QED BY <2>2, <2>3
<1>. QED BY <1>1, <1>2, <1>3 DEF WaitInv

LEMMA SendStep == ASSUME NEW c \in Callers PROVE IInv /\ Send(c) => IInv'
<1>. SUFFICES ASSUME IInv, Send(c) PROVE IInv'
  OBVIOUS
<1>. DEFINE n == Turn(1, FALSE)
<1>1. n \in Calls /\ n.pc = "lock" /\ n.at = 1 /\ n.attempt = 1 /\ n.anyOk = FALSE
      /\ n.answer = "none" /\ 1 \in Webhooks
  <2>1. 1 \in Webhooks
    BY WebhookAssumption DEF Webhooks
  <2>2. n \in Calls
    BY <2>1, TurnTypes
  <2>. QED BY <2>1, <2>2 DEF Turn
<1>2. call' = [call EXCEPT ![c] = n] /\ call[c].pc = "idle"
  BY DEF Send
<1>. HIDE DEF n
<1>3. TypeOK /\ MutexInv
  BY DEF IInv
<1>4. /\ call' \in [Callers -> Calls] /\ call'[c] = n
      /\ \A d \in Callers \ {c} : call'[d] = call[d]
  BY <1>1, <1>2, <1>3 DEF TypeOK
<1>5. queue[1] \in Seq(Callers) /\ queue' = [queue EXCEPT ![1] = Append(queue[1], c)]
  BY <1>1, <1>3 DEF TypeOK, Send
<1>6. /\ UNCHANGED <<gate, sleep, refill, dropped, pause, lost>>
      /\ taken' = [taken EXCEPT ![c] = {}] /\ closed' = [closed EXCEPT ![c] = {}]
      /\ posts' = [posts EXCEPT ![c] = [w \in Webhooks |-> 0]]
  BY DEF Send, waitVars, asked
<1>7. TypeOK'
  <2>1. queue' \in [Webhooks -> Seq(Callers)]
    BY <1>1, <1>3, <1>5, QueueFacts DEF TypeOK
  <2>2. posts' \in [Callers -> [Webhooks -> 0..MaxAttempts]]
    BY <1>3, <1>6, WebhookAssumption DEF TypeOK
  <2>. QED BY <1>3, <1>4, <1>6, <2>1, <2>2 DEF TypeOK
<1>8. MutexInv'
  <2>1. SUFFICES ASSUME NEW d \in Callers, call'[d].pc \in {"gate", "posted"}
                 PROVE  Holds(d, call[d].at)' /\ call'[d] = call[d]
    BY DEF MutexInv, Holds
  <2>2. call'[d] = call[d] /\ Holds(d, call[d].at) /\ call[d].at \in Webhooks
    BY <1>1, <1>3, <1>4, <2>1 DEF MutexInv, TypeOK, Calls
  <2>3. CASE call[d].at = 1
    BY <1>1, <1>3, <1>5, <2>2, <2>3, QueueFacts DEF Holds, TypeOK
  <2>4. CASE call[d].at # 1
    BY <1>3, <1>5, <2>2, <2>4 DEF Holds, TypeOK
  <2>. QED BY <2>2, <2>3, <2>4
<1>9. WaitInv'
  BY <1>1, <1>2, <1>4, <1>6, QuietWaits
<1>10. SendInv' /\ AnswerIsTrue'
  <2>1. /\ taken'[c] = {} /\ closed'[c] = {} /\ posts'[c] = [w \in Webhooks |-> 0]
        /\ \A d \in Callers \ {c} : /\ taken'[d] = taken[d] /\ closed'[d] = closed[d]
                                    /\ posts'[d] = posts[d]
    BY <1>3, <1>6 DEF TypeOK
  <2>2. ASSUME NEW d \in Callers PROVE SendInv!(d)' /\ AnswerIsTrue!(d)'
    <3>1. CASE d = c
      BY <1>1, <1>4, <2>1, <3>1, WebhookAssumption DEF Webhooks
    <3>2. CASE d # c
      BY <1>4, <2>1, <3>2 DEF IInv, SendInv, AnswerIsTrue
    <3>. QED BY <3>1, <3>2
  <2>. QED BY <2>2 DEF SendInv, AnswerIsTrue
<1>. QED BY <1>7, <1>8, <1>9, <1>10 DEF IInv

LEMMA WaitForGateStep == ASSUME NEW c \in Callers PROVE IInv /\ WaitForGate(c) => IInv'
<1>. SUFFICES ASSUME IInv, WaitForGate(c) PROVE IInv'
  OBVIOUS
<1>. DEFINE w == call[c].at  n == [call[c] EXCEPT !.pc = "gate"]
<1>1. TypeOK /\ MutexInv
  BY DEF IInv
<1>2. call[c] \in Calls /\ call[c].pc = "lock" /\ Holds(c, w) /\ w \in Webhooks
  BY <1>1 DEF TypeOK, Calls, WaitForGate
<1>3. /\ n \in Calls /\ n.pc = "gate" /\ n.at = w /\ n.attempt = call[c].attempt
      /\ n.anyOk = call[c].anyOk /\ n.answer = call[c].answer
  BY <1>2 DEF Calls
<1>4. /\ call' = [call EXCEPT ![c] = n]
      /\ gate' = [gate EXCEPT ![w] = NoGate]
      /\ sleep' = [sleep EXCEPT ![w] = Left(gate[w])]
      /\ UNCHANGED <<queue, refill, dropped, pause, taken, closed, posts, lost>>
  BY DEF WaitForGate, Left, asked
<1>. HIDE DEF n
<1>5. Left(gate[w]) \in Countdown
  BY <1>1, <1>2, WebhookAssumption DEF TypeOK, Left, Countdown, NoGate
<1>6. /\ call' \in [Callers -> Calls] /\ call'[c] = n
      /\ \A d \in Callers \ {c} : call'[d] = call[d]
      /\ gate'[w] = NoGate /\ sleep'[w] = Left(gate[w])
      /\ \A v \in Webhooks \ {w} : gate'[v] = gate[v] /\ sleep'[v] = sleep[v]
  BY <1>1, <1>2, <1>3, <1>4 DEF TypeOK
<1>7. TypeOK'
  <2>1. gate' \in [Webhooks -> {NoGate} \union Countdown] /\ sleep' \in [Webhooks -> Countdown]
    BY <1>1, <1>4, <1>5 DEF TypeOK
  <2>. QED BY <1>1, <1>4, <1>6, <2>1 DEF TypeOK
<1>8. MutexInv'
  BY <1>1, <1>2, <1>3, <1>4, <1>6 DEF MutexInv, Holds
<1>9. WaitInv'
  <2>1. ASSUME NEW d \in Callers, call'[d].pc = "gate"
        PROVE  Covered(call[d].at, sleep[call[d].at])'
    <3>1. CASE d = c
      <4>1. \A e \in Callers : ~Sleeps(e, w)
        BY <1>1, <1>2, OneHolder DEF Sleeps
      <4>2. Covered(w, Left(gate[w]))
        BY <1>2, <4>1 DEF IInv, WaitInv
      <4>. QED BY <1>2, <1>3, <1>4, <1>6, <3>1, <4>2 DEF Covered
    <3>2. CASE d # c
      <4>1. call'[d] = call[d] /\ call[d].at # w /\ call[d].at \in Webhooks
        BY <1>1, <1>2, <1>6, <2>1, <3>2, OneHolder DEF TypeOK, Calls
      <4>. QED BY <1>4, <1>6, <2>1, <4>1 DEF IInv, WaitInv, Covered
    <3>. QED BY <3>1, <3>2
  <2>2. ASSUME NEW v \in Webhooks, \A d \in Callers : ~Sleeps(d, v)'
        PROVE  Covered(v, Left(gate[v]))'
    <3>1. v # w
      BY <1>2, <1>3, <1>6, <2>2 DEF Sleeps
    <3>2. \A d \in Callers : ~Sleeps(d, v)
      BY <1>2, <1>6, <2>2 DEF Sleeps
    <3>. QED BY <1>4, <1>6, <3>1, <3>2 DEF IInv, WaitInv, Covered, Left
  <2>3. ASSUME NEW d \in Callers, call'[d].pc = "posted"
        PROVE  Covered(call[d].at, 0)'
    <3>1. d # c /\ call'[d] = call[d]
      BY <1>3, <1>6, <2>3
    <3>. QED BY <1>4, <2>3, <3>1 DEF IInv, WaitInv, Covered
  <2>. QED BY <2>1, <2>2, <2>3 DEF WaitInv
<1>10. SendInv' /\ AnswerIsTrue'
  <2>1. ASSUME NEW d \in Callers PROVE SendInv!(d)' /\ AnswerIsTrue!(d)'
    <3>1. CASE d = c
      BY <1>2, <1>3, <1>4, <1>6, <3>1 DEF IInv, SendInv
    <3>2. CASE d # c
      BY <1>4, <1>6, <3>2 DEF IInv, SendInv, AnswerIsTrue
    <3>. QED BY <3>1, <3>2
  <2>. QED BY <2>1 DEF SendInv, AnswerIsTrue
<1>. QED BY <1>7, <1>8, <1>9, <1>10 DEF IInv

LEMMA PostStep == ASSUME NEW c \in Callers PROVE IInv /\ Post(c) => IInv'
<1>. SUFFICES ASSUME IInv, Post(c) PROVE IInv'
  OBVIOUS
<1>. DEFINE w == call[c].at  n == [call[c] EXCEPT !.pc = "posted"]
<1>1. TypeOK /\ MutexInv
  BY DEF IInv
<1>2. call[c] \in Calls /\ call[c].pc = "gate" /\ sleep[w] = 0 /\ w \in Webhooks
  BY <1>1 DEF TypeOK, Calls, Post
<1>3. /\ n \in Calls /\ n.pc = "posted" /\ n.at = w /\ n.attempt = call[c].attempt
      /\ n.anyOk = call[c].anyOk /\ n.answer = call[c].answer
  BY <1>2 DEF Calls
<1>4. /\ call' = [call EXCEPT ![c] = n]
      /\ UNCHANGED <<queue, gate, sleep, refill, dropped, pause, taken, closed, lost>>
  BY DEF Post, waitVars, asked
<1>. HIDE DEF n
<1>5. /\ call' \in [Callers -> Calls] /\ call'[c] = n
      /\ \A d \in Callers \ {c} : call'[d] = call[d]
  BY <1>1, <1>3, <1>4 DEF TypeOK
<1>6. posts[c][w] = call[c].attempt - 1 /\ call[c].attempt \in 1..MaxAttempts
  BY <1>2 DEF IInv, SendInv, Calls
<1>7. /\ posts' \in [Callers -> [Webhooks -> 0..MaxAttempts]]
      /\ posts'[c][w] = call[c].attempt
      /\ \A v \in Webhooks \ {w} : posts'[c][v] = posts[c][v]
      /\ \A d \in Callers \ {c} : posts'[d] = posts[d]
  <2>. DEFINE p == [posts[c] EXCEPT ![w] = call[c].attempt]
  <2>1. posts' = [posts EXCEPT ![c] = p]
    <3>1. posts' = [posts EXCEPT ![c] = [posts[c] EXCEPT ![w] = posts[c][w] + 1]]
      BY <1>1, <1>2 DEF Post, TypeOK
    <3>2. posts[c][w] + 1 = call[c].attempt
      BY <1>6
    <3>. QED BY <3>1, <3>2
  <2>2. /\ p \in [Webhooks -> 0..MaxAttempts] /\ p[w] = call[c].attempt
        /\ \A v \in Webhooks \ {w} : p[v] = posts[c][v]
    BY <1>1, <1>2, <1>6, WebhookAssumption DEF TypeOK
  <2>. HIDE DEF p
  <2>. QED BY <1>1, <2>1, <2>2 DEF TypeOK
<1>8. TypeOK'
  BY <1>1, <1>4, <1>5, <1>7 DEF TypeOK
<1>9. MutexInv'
  BY <1>1, <1>2, <1>3, <1>4, <1>5 DEF MutexInv, Holds
<1>10. WaitInv'
  BY <1>2, <1>3, <1>4, <1>5, QuietWaits
<1>11. SendInv' /\ AnswerIsTrue'
  <2>1. ASSUME NEW d \in Callers PROVE SendInv!(d)' /\ AnswerIsTrue!(d)'
    <3>1. CASE d = c
      <4>1. /\ call[c].answer = "none" /\ (call[c].anyOk <=> taken[c] # {})
            /\ \A v \in Webhooks : /\ v < w => posts[c][v] > 0
                                   /\ v > w => posts[c][v] = 0
                                   /\ v \in closed[c] => v < w
        BY <1>2 DEF IInv, SendInv
      <4>2. \A v \in Webhooks : v # w => posts'[c][v] = posts[c][v]
        BY <1>7
      <4>3. w \in Int /\ Webhooks \subseteq Int
        BY <1>2 DEF Webhooks
      <4>4. /\ call'[c].pc = "posted" /\ call'[c].at = w /\ call'[c].attempt = call[c].attempt
            /\ call'[c].anyOk = call[c].anyOk /\ call'[c].answer = "none"
        BY <1>3, <1>5, <4>1
      <4>5. \A v \in Webhooks : /\ v < w => posts'[c][v] > 0
                                /\ v > w => posts'[c][v] = 0
                                /\ v \in closed'[c] => v < w
        BY <1>4, <4>1, <4>2, <4>3
      <4>. HIDE DEF w
      <4>. QED BY <1>4, <1>7, <3>1, <4>1, <4>4, <4>5
    <3>2. CASE d # c
      BY <1>4, <1>5, <1>7, <3>2 DEF IInv, SendInv, AnswerIsTrue
    <3>. QED BY <3>1, <3>2
  <2>. QED BY <2>1 DEF SendInv, AnswerIsTrue
<1>. QED BY <1>8, <1>9, <1>10, <1>11 DEF IInv

\* The end of a webhook's turn: the mutex goes to the next in line, and the send
\* goes on or is answered with what the webhooks said.
LEMMA LeaveStep ==
    ASSUME IInv, NEW c \in Callers, call[c].pc = "posted", NEW ok \in BOOLEAN, Leave(c, ok),
           UNCHANGED posts,
           taken' \in [Callers -> SUBSET Webhooks], closed' \in [Callers -> SUBSET Webhooks],
           \A d \in Callers \ {c} : taken'[d] = taken[d] /\ closed'[d] = closed[d],
           taken'[c] # {} <=> (taken[c] # {} \/ ok),
           closed'[c] \subseteq closed[c] \union {call[c].at}
    PROVE  /\ queue' \in [Webhooks -> Seq(Callers)] /\ call' \in [Callers -> Calls]
           /\ \A d \in Callers \ {c} : call'[d] = call[d]
           /\ call'[c].pc \in {"lock", "idle"}
           /\ MutexInv' /\ SendInv' /\ AnswerIsTrue'
<1>. DEFINE w == call[c].at  any == call[c].anyOk \/ ok
            q == [queue EXCEPT ![w] = Tail(queue[w])]
<1>1. TypeOK /\ MutexInv
  BY DEF IInv
<1>2. /\ call[c] \in Calls /\ w \in Webhooks /\ w \in Int /\ any \in BOOLEAN
      /\ Holds(c, w) /\ queue[w] \in Seq(Callers)
  BY <1>1 DEF TypeOK, Calls, MutexInv, Webhooks
<1>3. /\ q \in [Webhooks -> Seq(Callers)]
      /\ \A v \in Webhooks \ {w} : q[v] = queue[v]
  <2>1. Tail(queue[w]) \in Seq(Callers)
    BY <1>2, QueueFacts DEF Holds
  <2>. QED BY <1>1, <1>2, <2>1 DEF TypeOK
<1>4. \/ /\ w < NumWebhooks /\ w + 1 \in Webhooks
         /\ call' = [call EXCEPT ![c] = Turn(w + 1, any)]
         /\ queue' = [q EXCEPT ![w + 1] = Append(q[w + 1], c)]
      \/ /\ w = NumWebhooks
         /\ call' = [call EXCEPT ![c] = Over(any)]
         /\ queue' = q
  <2>1. CASE w < NumWebhooks
    <3>1. w + 1 \in Webhooks
      BY <1>2, <2>1, WebhookAssumption DEF Webhooks
    <3>2. /\ call' = [call EXCEPT ![c] = Turn(w + 1, any)]
          /\ queue' = [q EXCEPT ![w + 1] = Append(@, c)]
      BY <2>1 DEF Leave, NextWebhook, AnyOk, Released
    <3>3. queue' = [q EXCEPT ![w + 1] = Append(q[w + 1], c)]
      BY <3>2
    <3>. QED BY <2>1, <3>1, <3>2, <3>3
  <2>2. CASE ~(w < NumWebhooks)
    <3>1. w = NumWebhooks
      BY <1>2, <2>2, WebhookAssumption DEF Webhooks
    <3>2. call' = [call EXCEPT ![c] = Over(any)] /\ queue' = q
      BY <2>2 DEF Leave, NextWebhook, AnyOk, Released
    <3>. QED BY <3>1, <3>2
  <2>. QED BY <2>1, <2>2
<1>5. Over(any) \in Calls
  BY <1>2, TurnTypes
<1>6. /\ call' \in [Callers -> Calls]
      /\ \A d \in Callers \ {c} : call'[d] = call[d]
      /\ call'[c] = Turn(w + 1, any) \/ call'[c] = Over(any)
  <2>. HIDE DEF any, w, q
  <2>1. ASSUME NEW n \in Calls, call' = [call EXCEPT ![c] = n]
        PROVE  /\ call' \in [Callers -> Calls] /\ call'[c] = n
               /\ \A d \in Callers \ {c} : call'[d] = call[d]
    BY <1>1, <2>1 DEF TypeOK
  <2>2. CASE w + 1 \in Webhooks /\ call' = [call EXCEPT ![c] = Turn(w + 1, any)]
    <3>1. Turn(w + 1, any) \in Calls
      BY <1>2, <2>2, TurnTypes
    <3>. QED BY <2>1, <2>2, <3>1
  <2>3. CASE call' = [call EXCEPT ![c] = Over(any)]
    BY <1>5, <2>1, <2>3
  <2>. QED BY <1>4, <2>2, <2>3
<1>. HIDE DEF q
<1>7. queue' \in [Webhooks -> Seq(Callers)]
  <2>1. ASSUME NEW v \in Webhooks PROVE Append(q[v], c) \in Seq(Callers)
    BY <1>3, QueueFacts
  <2>2. CASE queue' = q
    BY <1>3, <2>2
  <2>3. CASE w + 1 \in Webhooks /\ queue' = [q EXCEPT ![w + 1] = Append(q[w + 1], c)]
    BY <1>3, <2>1, <2>3
  <2>. QED BY <1>4, <2>2, <2>3
<1>8. \A v \in Webhooks \ {w} : queue[v] # <<>> => queue'[v] # <<>> /\ Head(queue'[v]) = Head(queue[v])
  <2>1. SUFFICES ASSUME NEW v \in Webhooks \ {w}, queue[v] # <<>>
                 PROVE  queue'[v] # <<>> /\ Head(queue'[v]) = Head(queue[v])
    OBVIOUS
  <2>2. q[v] = queue[v] /\ q[v] \in Seq(Callers)
    BY <1>3
  <2>3. queue'[v] = q[v] \/ queue'[v] = Append(q[v], c)
    BY <1>3, <1>4
  <2>. QED BY <2>1, <2>2, <2>3, QueueFacts
<1>9. call'[c].pc \in {"lock", "idle"}
  BY <1>6 DEF Turn, Over
<1>10. MutexInv'
  <2>1. SUFFICES ASSUME NEW d \in Callers, call'[d].pc \in {"gate", "posted"}
                 PROVE  Holds(d, call[d].at)'
    BY DEF MutexInv
  <2>2. d # c /\ call'[d] = call[d]
    BY <1>6, <1>9, <2>1
  <2>3. Holds(d, call[d].at) /\ call[d].at \in Webhooks \ {w}
    BY <1>1, <1>2, <2>1, <2>2, OneHolder DEF MutexInv, TypeOK, Calls
  <2>. QED BY <1>8, <2>2, <2>3 DEF Holds
<1>11. ASSUME NEW d \in Callers PROVE SendInv!(d)' /\ AnswerIsTrue!(d)'
  <2>1. CASE d = c
    <3>1. /\ call[c].anyOk <=> taken[c] # {}
          /\ \A v \in Webhooks : /\ v < w => posts[c][v] > 0
                                 /\ v > w => posts[c][v] = 0
                                 /\ v \in closed[c] => v < w
          /\ posts[c][w] = call[c].attempt
          /\ call[c].attempt > 0
      BY <1>2 DEF IInv, SendInv, Calls
    <3>2. any <=> taken'[c] # {}
      BY <3>1
    <3>3. \A v \in Webhooks : v < w + 1 => posts'[c][v] > 0
      BY <1>2, <3>1 DEF Webhooks
    <3>4. \A v \in Webhooks : v \in closed'[c] => v < w + 1
      BY <1>2, <3>1 DEF Webhooks
    <3>5. CASE call'[c] = Turn(w + 1, any) /\ w + 1 \in Webhooks
      <4>1. /\ call'[c].pc = "lock" /\ call'[c].at = w + 1 /\ call'[c].attempt = 1
            /\ call'[c].anyOk = any /\ call'[c].answer = "none"
        BY <3>5 DEF Turn
      <4>2. \A v \in Webhooks : v > w + 1 => posts'[c][v] = 0
        BY <1>2, <3>1 DEF Webhooks
      <4>3. posts'[c][w + 1] = 0
        BY <1>2, <3>1, <3>5
      <4>. HIDE DEF w, any
      <4>. QED BY <2>1, <3>2, <3>3, <3>4, <4>1, <4>2, <4>3
    <3>6. CASE call'[c] = Over(any) /\ w = NumWebhooks
      <4>1. /\ call'[c].pc = "idle" /\ call'[c].answer = IF any THEN "ok" ELSE "err"
        BY <3>6 DEF Over
      <4>2. \A v \in Webhooks : posts'[c][v] > 0
        BY <3>3, <3>6, WebhookAssumption DEF Webhooks
      <4>. HIDE DEF w, any
      <4>. QED BY <2>1, <3>2, <4>1, <4>2
    <3>. QED BY <1>1, <1>4, <3>5, <3>6 DEF TypeOK
  <2>2. CASE d # c
    BY <1>6, <2>2 DEF IInv, SendInv, AnswerIsTrue
  <2>. QED BY <2>1, <2>2
<1>12. SendInv' /\ AnswerIsTrue'
  BY <1>11 DEF SendInv, AnswerIsTrue
<1>. QED BY <1>6, <1>7, <1>9, <1>10, <1>12

LEMMA TransportErrorStep ==
    ASSUME NEW c \in Callers PROVE IInv /\ TransportError(c) => IInv'
<1>. SUFFICES ASSUME IInv, TransportError(c) PROVE IInv'
  OBVIOUS
<1>1. /\ call[c].pc = "posted" /\ lost < MaxLost /\ lost' = lost + 1
      /\ closed' = [closed EXCEPT ![c] = closed[c] \union {call[c].at}]
      /\ Leave(c, FALSE)
      /\ UNCHANGED <<gate, sleep, refill, dropped, pause, taken, posts>>
  BY DEF TransportError, waitVars, asked
<1>2. TypeOK /\ call[c] \in Calls /\ call[c].at \in Webhooks
  BY DEF IInv, TypeOK, Calls
<1>3. /\ closed' \in [Callers -> SUBSET Webhooks] /\ taken' \in [Callers -> SUBSET Webhooks]
      /\ closed'[c] = closed[c] \union {call[c].at}
      /\ \A d \in Callers \ {c} : closed'[d] = closed[d]
  BY <1>1, <1>2 DEF TypeOK
<1>4. /\ queue' \in [Webhooks -> Seq(Callers)] /\ call' \in [Callers -> Calls]
      /\ \A d \in Callers \ {c} : call'[d] = call[d]
      /\ call'[c].pc \in {"lock", "idle"}
      /\ MutexInv' /\ SendInv' /\ AnswerIsTrue'
  BY <1>1, <1>3, LeaveStep
<1>5. TypeOK'
  <2>1. lost' \in 0..MaxLost
    BY <1>1, <1>2, WebhookAssumption DEF TypeOK
  <2>. QED BY <1>1, <1>2, <1>3, <1>4, <2>1 DEF TypeOK
<1>6. WaitInv'
  BY <1>1, <1>4, QuietWaits
<1>. QED BY <1>4, <1>5, <1>6 DEF IInv

LEMMA AnswerStep ==
    ASSUME NEW c \in Callers, NEW r \in Responses PROVE IInv /\ Answer(c, r) => IInv'
<1>. SUFFICES ASSUME IInv, Answer(c, r) PROVE IInv'
  OBVIOUS
<1>. DEFINE w == call[c].at  attempt == call[c].attempt  ok == r.status = "2xx"
<1>1. TypeOK /\ MutexInv
  BY DEF IInv
<1>2. /\ call[c] \in Calls /\ call[c].pc = "posted" /\ w \in Webhooks
      /\ attempt \in 1..MaxAttempts /\ Holds(c, w)
  BY <1>1 DEF TypeOK, Calls, Answer, MutexInv
<1>3. /\ gate' = [gate EXCEPT ![w] = GateAfter(gate[w], attempt, r)]
      /\ refill' = [refill EXCEPT ![w] = Refill(refill[w], r)]
      /\ pause' = [pause EXCEPT ![w] = Pause(pause[w], attempt, r)]
      /\ dropped' = [dropped EXCEPT ![w] = Dropped(dropped[w], r)]
      /\ taken' = [taken EXCEPT ![c] = IF r.status = "2xx" THEN taken[c] \union {w} ELSE taken[c]]
      /\ closed' = [closed EXCEPT ![c] = IF r.status \in {"2xx", "4xx"}
                                         THEN closed[c] \union {w} ELSE closed[c]]
      /\ UNCHANGED <<sleep, posts, lost>>
  BY <1>1, <1>2 DEF Answer, TypeOK
<1>4. /\ GateAfter(gate[w], attempt, r) \in {NoGate} \union Countdown
      /\ Pause(pause[w], attempt, r) \in Countdown /\ Refill(refill[w], r) \in Countdown
      /\ Dropped(dropped[w], r) \in BOOLEAN
      /\ Covers(Left(GateAfter(gate[w], attempt, r)), Pause(pause[w], attempt, r),
                Refill(refill[w], r), Dropped(dropped[w], r))
  <2>1. /\ gate[w] \in {NoGate} \union Countdown /\ pause[w] \in Countdown
        /\ refill[w] \in Countdown /\ dropped[w] \in BOOLEAN
    BY <1>1, <1>2 DEF TypeOK
  <2>2. Covers(0, pause[w], refill[w], dropped[w])
    BY <1>2 DEF IInv, WaitInv, Covered
  <2>. HIDE DEF w, attempt
  <2>. QED BY <1>2, <2>1, <2>2, GateTypes, Zenon
<1>5. /\ taken' \in [Callers -> SUBSET Webhooks] /\ closed' \in [Callers -> SUBSET Webhooks]
      /\ \A d \in Callers \ {c} : taken'[d] = taken[d] /\ closed'[d] = closed[d]
      /\ taken'[c] # {} <=> (taken[c] # {} \/ ok)
      /\ closed'[c] \subseteq closed[c] \union {w}
      /\ r.status \notin {"2xx", "4xx"} => closed'[c] = closed[c] /\ taken'[c] = taken[c]
  BY <1>1, <1>2, <1>3 DEF TypeOK
<1>6. /\ queue' \in [Webhooks -> Seq(Callers)] /\ call' \in [Callers -> Calls]
      /\ \A d \in Callers \ {c} : call'[d] = call[d]
      /\ call'[c].pc \in {"lock", "idle"}
      /\ MutexInv' /\ SendInv' /\ AnswerIsTrue'
  <2>1. CASE Again(attempt, r)
    <3>. DEFINE n == [call[c] EXCEPT !.pc = "lock", !.attempt = attempt + 1]
    <3>1. /\ attempt + 1 \in 1..MaxAttempts /\ r.status \notin {"2xx", "4xx"}
      BY <1>2, <2>1, WebhookAssumption DEF Again
    <3>2. /\ n \in Calls /\ n.pc = "lock" /\ n.at = w /\ n.attempt = attempt + 1
          /\ n.anyOk = call[c].anyOk /\ n.answer = call[c].answer
      BY <1>2, <3>1 DEF Calls
    <3>3. call' = [call EXCEPT ![c] = n] /\ UNCHANGED queue
      BY <2>1 DEF Answer
    <3>. HIDE DEF n
    <3>4. /\ call' \in [Callers -> Calls] /\ call'[c] = n
          /\ \A d \in Callers \ {c} : call'[d] = call[d]
      BY <1>1, <3>2, <3>3 DEF TypeOK
    <3>5. MutexInv'
      BY <1>1, <3>2, <3>3, <3>4 DEF MutexInv, Holds
    <3>6. ASSUME NEW d \in Callers PROVE SendInv!(d)' /\ AnswerIsTrue!(d)'
      <4>1. CASE d = c
        <5>1. /\ call[c].answer = "none" /\ (call[c].anyOk <=> taken[c] # {})
              /\ \A v \in Webhooks : /\ v < w => posts[c][v] > 0
                                     /\ v > w => posts[c][v] = 0
                                     /\ v \in closed[c] => v < w
              /\ posts[c][w] = attempt
          BY <1>2 DEF IInv, SendInv
        <5>2. /\ call'[c].pc = "lock" /\ call'[c].at = w /\ call'[c].attempt = attempt + 1
              /\ call'[c].anyOk = call[c].anyOk /\ call'[c].answer = "none"
          BY <3>2, <3>4, <5>1
        <5>3. UNCHANGED posts /\ taken'[c] = taken[c] /\ closed'[c] = closed[c]
          BY <1>3, <1>5, <3>1
        <5>4. posts[c][w] = (attempt + 1) - 1
          BY <1>2, <5>1
        <5>. HIDE DEF w, attempt
        <5>. QED BY <4>1, <5>1, <5>2, <5>3, <5>4
      <4>2. CASE d # c
        BY <1>3, <1>5, <3>4, <4>2 DEF IInv, SendInv, AnswerIsTrue
      <4>. QED BY <4>1, <4>2
    <3>7. SendInv' /\ AnswerIsTrue'
      BY <3>6 DEF SendInv, AnswerIsTrue
    <3>8. queue' \in [Webhooks -> Seq(Callers)]
      BY <1>1, <3>3 DEF TypeOK
    <3>. QED BY <3>2, <3>4, <3>5, <3>7, <3>8
  <2>2. CASE ~Again(attempt, r)
    <3>1. Leave(c, ok) /\ UNCHANGED posts
      BY <2>2 DEF Answer
    <3>. HIDE DEF ok
    <3>2. ok \in BOOLEAN
      BY DEF ok
    <3>. QED BY <1>2, <1>5, <3>1, <3>2, LeaveStep
  <2>. QED BY <2>1, <2>2
<1>7. TypeOK'
  <2>1. /\ gate' \in [Webhooks -> {NoGate} \union Countdown]
        /\ refill' \in [Webhooks -> Countdown] /\ pause' \in [Webhooks -> Countdown]
        /\ dropped' \in [Webhooks -> BOOLEAN]
    BY <1>1, <1>3, <1>4 DEF TypeOK
  <2>. QED BY <1>1, <1>3, <1>5, <1>6, <2>1 DEF TypeOK
<1>8. WaitInv'
  <2>1. /\ gate'[w] = GateAfter(gate[w], attempt, r) /\ refill'[w] = Refill(refill[w], r)
        /\ pause'[w] = Pause(pause[w], attempt, r) /\ dropped'[w] = Dropped(dropped[w], r)
        /\ \A v \in Webhooks \ {w} : /\ gate'[v] = gate[v] /\ refill'[v] = refill[v]
                                      /\ pause'[v] = pause[v] /\ dropped'[v] = dropped[v]
    BY <1>1, <1>2, <1>3 DEF TypeOK
  <2>2. ASSUME NEW d \in Callers, call'[d].pc \in {"gate", "posted"}
        PROVE  d # c /\ call'[d] = call[d] /\ call[d].at \in Webhooks \ {w}
    <3>1. d # c /\ call'[d] = call[d]
      BY <1>6, <2>2
    <3>. QED BY <1>1, <1>2, <2>2, <3>1, OneHolder DEF TypeOK, Calls
  <2>3. ASSUME NEW d \in Callers, call'[d].pc = "gate"
        PROVE  Covered(call[d].at, sleep[call[d].at])'
    BY <1>3, <2>1, <2>2, <2>3 DEF IInv, WaitInv, Covered
  <2>4. ASSUME NEW d \in Callers, call'[d].pc = "posted"
        PROVE  Covered(call[d].at, 0)'
    BY <1>3, <2>1, <2>2, <2>4 DEF IInv, WaitInv, Covered
  <2>5. ASSUME NEW v \in Webhooks, \A d \in Callers : ~Sleeps(d, v)'
        PROVE  Covered(v, Left(gate[v]))'
    <3>1. \A d \in Callers : ~Sleeps(d, v)
      BY <1>2, <1>6, <2>5 DEF Sleeps
    <3>2. Covered(v, Left(gate[v]))
      BY <3>1 DEF IInv, WaitInv
    <3>3. CASE v = w
      BY <1>4, <2>1, <3>3 DEF Covered, Left
    <3>4. CASE v # w
      BY <2>1, <3>2, <3>4 DEF Covered, Left
    <3>. QED BY <3>3, <3>4
  <2>. QED BY <2>3, <2>4, <2>5 DEF WaitInv
<1>. QED BY <1>6, <1>7, <1>8 DEF IInv

LEMMA NextInv == IInv /\ [Next]_vars => IInv'
<1>. SUFFICES ASSUME IInv, [Next]_vars PROVE IInv'
  OBVIOUS
<1>1. CASE Tick
  BY <1>1, TickStep
<1>2. ASSUME NEW c \in Callers, Send(c) PROVE IInv'
  BY <1>2, SendStep
<1>3. ASSUME NEW c \in Callers, WaitForGate(c) PROVE IInv'
  BY <1>3, WaitForGateStep
<1>4. ASSUME NEW c \in Callers, Post(c) PROVE IInv'
  BY <1>4, PostStep
<1>5. ASSUME NEW c \in Callers, Answered(c) PROVE IInv'
  BY <1>5, TransportErrorStep, AnswerStep DEF Answered
<1>6. CASE UNCHANGED vars
  BY <1>6 DEF vars, asked, IInv, TypeOK, MutexInv, Holds, WaitInv, Covered, Left, Sleeps, SendInv,
              AnswerIsTrue
<1>. QED BY <1>1, <1>2, <1>3, <1>4, <1>5, <1>6 DEF Next

-----------------------------------------------------------------------------
(* Theorems.                                                               *)

LEMMA Invariance == Spec => []IInv
BY InitInv, NextInv, PTL DEF Spec

\* BucketState and the calls keep their types; no webhook gets more posts of a
\* payload than MAX_ATTEMPTS.
THEOREM Types == Spec => []TypeOK
BY Invariance, PTL DEF IInv

\* Ok means that a webhook took this very payload, Err that none did, and both
\* that each was tried with it, however many tasks queue for the mutexes.
THEOREM AnswersTrue == Spec => []AnswerIsTrue
BY Invariance, PTL DEF IInv

\* Only Post counts a post, at the caller's webhook.
LEMMA PostsBy ==
    ASSUME IInv, [Next]_vars, NEW c \in Callers, NEW w \in Webhooks,
           posts'[c][w] = posts[c][w] + 1
    PROVE  Post(c) /\ w = call[c].at
<1>1. posts[c][w] \in Nat /\ posts \in [Callers -> [Webhooks -> 0..MaxAttempts]]
  BY DEF IInv, TypeOK
<1>2. ASSUME UNCHANGED posts PROVE FALSE
  BY <1>1, <1>2
<1>3. ASSUME NEW d \in Callers, Send(d) PROVE FALSE
  <2>1. posts' = [posts EXCEPT ![d] = [v \in Webhooks |-> 0]]
    BY <1>3 DEF Send
  <2>. QED BY <1>1, <2>1
<1>4. ASSUME NEW d \in Callers, Post(d) PROVE d = c /\ w = call[d].at
  BY <1>1, <1>4 DEF Post
<1>5. ASSUME NEW d \in Callers, WaitForGate(d) \/ Answered(d) PROVE FALSE
  BY <1>2, <1>5 DEF WaitForGate, Answered, TransportError, Answer
<1>6. ASSUME Tick \/ UNCHANGED vars PROVE FALSE
  BY <1>2, <1>6 DEF Tick, vars
<1>. QED BY <1>3, <1>4, <1>5, <1>6 DEF Next

\* A payload that a webhook took, refused or may have taken is not posted to it
\* again in the same send.
THEOREM FinalAnswersFinal == Spec => NoPostAfterFinalAnswer
<1>1. ASSUME IInv, [Next]_vars, NEW c \in Callers, NEW w \in Webhooks,
             posts'[c][w] = posts[c][w] + 1
      PROVE  w \notin closed[c]
  <2>1. Post(c) /\ w = call[c].at
    BY <1>1, PostsBy
  <2>2. w \in closed[c] => w < w
    BY <1>1, <2>1 DEF Post, IInv, SendInv
  <2>. QED BY <2>2 DEF Webhooks
<1>2. IInv /\ [Next]_vars =>
        [\A c \in Callers, w \in Webhooks : posts'[c][w] = posts[c][w] + 1 => w \notin closed[c]]_vars
  BY <1>1
<1>. QED BY <1>2, Invariance, PTL DEF Spec, NoPostAfterFinalAnswer

\* Nobody posts to a webhook before the pause after its last 429 or 5xx is over, nor
\* before its bucket is full again unless the refill time came with a 429 or a 5xx,
\* whichever caller was told.
THEOREM NoEarlyPost == Spec => WaitsHonoured
<1>1. ASSUME IInv, [Next]_vars, NEW c \in Callers, NEW w \in Webhooks,
             posts'[c][w] = posts[c][w] + 1
      PROVE  pause[w] = 0 /\ (refill[w] = 0 \/ dropped[w])
  <2>1. call[c].pc = "gate" /\ sleep[w] = 0 /\ w = call[c].at
    BY <1>1, PostsBy DEF Post
  <2>2. Covers(0, pause[w], refill[w], dropped[w])
    BY <1>1, <2>1 DEF IInv, WaitInv, Covered
  <2>3. pause[w] \in Nat /\ refill[w] \in Nat
    BY <1>1, WebhookAssumption DEF IInv, TypeOK, Countdown
  <2>. QED BY <2>2, <2>3 DEF Covers
<1>2. IInv /\ [Next]_vars =>
        [\A c \in Callers, w \in Webhooks : posts'[c][w] = posts[c][w] + 1 =>
            pause[w] = 0 /\ (refill[w] = 0 \/ dropped[w])]_vars
  BY <1>1
<1>. QED BY <1>2, Invariance, PTL DEF Spec, WaitsHonoured

=============================================================================
