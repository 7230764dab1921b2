------------------------ MODULE TicketPipelineProofs ------------------------
(***************************************************************************)
(* Theorems about TicketPipeline, for every number of tickets, page size,  *)
(* fetch limit, set of channels and bound on the faults.                   *)
(***************************************************************************)
EXTENDS TicketPipeline, TLAPS

-----------------------------------------------------------------------------
(* The inductive invariant.                                                *)

\* The page in progress: the listing range lies past the cursor, and what the
\* iteration has stepped over is stored.
PageInv ==
    /\ sent \subseteq events /\ cursor <= indexed
    /\ poll.pc \in {"insert", "advance"} => cursor < poll.upto /\ poll.upto <= indexed
    /\ poll.pc = "insert" => /\ cursor < poll.at /\ poll.at <= poll.upto
                             /\ 1..(poll.at - 1) \subseteq events
    /\ poll.pc = "advance" => 1..poll.upto \subseteq events

\* The batch in progress: no row it still has to post is marked, no row is in
\* two of its jobs, and the post it still has to record was seen.
BatchInv ==
    /\ digest.todo \subseteq digest.batch
    /\ digest.pc = "refresh" => digest.batch \subseteq events \ sent
    /\ \A j \in digest.jobs : j.ids \subseteq events \ sent
    /\ \A j, k \in digest.jobs : j # k => j.ids \intersect k.ids = {}
    /\ digest.pc = "mark" => /\ digest.job.ids \subseteq Shown
                             /\ digest.job.ids \subseteq events \ sent
                             /\ \A j \in digest.jobs : j.ids \intersect digest.job.ids = {}

\* A message is accounted for by a marked row, by the record still to be made of
\* what its channel took or by a lapse: this is what the bound on duplicates needs
\* to be inductive.
ToRecord(c, t) == digest.pc = "mark" /\ c \in digest.took /\ t \in digest.job.ids

Recorded(c, t) == IF t \in sent \/ ToRecord(c, t) THEN 1 ELSE 0

PostsInv ==
    \A c \in Channels, t \in Tickets : posts[c][t] <= lapses[c][t] + Recorded(c, t)

IInv == TypeOK /\ PageInv /\ NothingSkipped /\ BatchInv /\ PostsInv

-----------------------------------------------------------------------------
(* Lemmas about the operators.                                             *)

\* The jobs made of a batch are typed, show rows of the batch, and never show
\* a row twice: a row has one recipient and one lookup of its gateway's kind.
LEMMA JobsPartition ==
    ASSUME NEW B \in SUBSET Tickets, NEW aiOf \in [Orchs -> SUBSET AiGateways]
    PROVE  /\ Jobs(B, aiOf) \subseteq JobType
           /\ \A j \in Jobs(B, aiOf) : j.ids \subseteq B
           /\ \A j, k \in Jobs(B, aiOf) : j # k => j.ids \intersect k.ids = {}
<1>1. Orchs \subseteq Int
  BY ToAssumption DEF Orchs
<1>2. ASSUME NEW j \in Jobs(B, aiOf)
      PROVE  /\ j \in [orch : Orchs, ai : BOOLEAN, ids : SUBSET B]
             /\ j.ids = Group(B, j.orch, j.ai, aiOf[j.orch])
  BY DEF Jobs
<1>3. Jobs(B, aiOf) \subseteq JobType
  BY <1>1, <1>2 DEF JobType
<1>4. ASSUME NEW j \in Jobs(B, aiOf), NEW k \in Jobs(B, aiOf), j # k
      PROVE  j.ids \intersect k.ids = {}
  <2>1. SUFFICES ASSUME NEW t, t \in j.ids, t \in k.ids PROVE FALSE
    OBVIOUS
  <2>2. j.orch = k.orch
    BY <2>1, <1>2 DEF Group
  <2>3. j.ai = k.ai
    <3>1. (From[t] \in aiOf[j.orch]) = j.ai /\ (From[t] \in aiOf[j.orch]) = k.ai
      BY <2>1, <2>2, <1>2 DEF Group
    <3>. QED BY <3>1
  <2>4. j.ids = k.ids
    BY <2>2, <2>3, <1>2
  <2>. QED BY <2>2, <2>3, <2>4, <1>2, <1>4
<1>. QED BY <1>2, <1>3, <1>4

\* The idle iterations are typed.
LEMMA IdleTypes ==
    /\ IdlePoll \in [pc : {"idle"}, at : Nat, upto : Nat, quotes : SUBSET Tickets,
                     next : BOOLEAN]
    /\ IdleDigest \in [pc : {"idle"}, batch : SUBSET Tickets, todo : SUBSET Tickets,
                       quote : [Tickets -> Tickets \union {NoQuote}],
                       known : SUBSET Tickets, jobs : SUBSET JobType, job : JobType,
                       took : SUBSET Channels]
    /\ IdleDigest.jobs = {} /\ IdleDigest.todo = {}
BY DEF IdlePoll, IdleDigest, NoJob, JobType

-----------------------------------------------------------------------------
(* The invariant holds initially and every action preserves it.            *)

LEMMA InitInv == Init => IInv
<1>. SUFFICES ASSUME Init PROVE IInv
  OBVIOUS
<1>. USE IdleTypes DEF Init
<1>1. TypeOK
  BY NumTicketsAssumption, FaultsAssumption DEF TypeOK
<1>2. PageInv /\ NothingSkipped
  BY DEF PageInv, NothingSkipped, IdlePoll
<1>3. BatchInv
  BY DEF BatchInv, IdleDigest
<1>4. PostsInv
  <2>1. ASSUME NEW c, NEW t \in Tickets PROVE Recorded(c, t) \in {0, 1}
    BY DEF Recorded
  <2>. QED BY <2>1 DEF PostsInv
<1>. QED BY <1>1, <1>2, <1>3, <1>4 DEF IInv

LEMMA ExplorerStep ==
    IInv /\ (IndexTicket \/ \E t \in Tickets : QuoteTicket(t)) => IInv'
<1>. SUFFICES ASSUME IInv, IndexTicket \/ \E t \in Tickets : QuoteTicket(t)
              PROVE  IInv'
  OBVIOUS
<1>1. /\ UNCHANGED <<tableVars, poll, digest, posts, lapses, faults>>
      /\ indexed \in 0..NumTickets /\ indexed' \in 0..NumTickets /\ indexed <= indexed'
      /\ quoted' \subseteq Tickets
  <2>1. CASE IndexTicket
    BY <2>1, NumTicketsAssumption DEF IInv, TypeOK, IndexTicket
  <2>2. CASE \E t \in Tickets : QuoteTicket(t)
    BY <2>2, NumTicketsAssumption DEF IInv, TypeOK, QuoteTicket
  <2>. QED BY <2>1, <2>2
<1>2. TypeOK'
  BY <1>1 DEF IInv, TypeOK, tableVars
<1>3. PageInv'
  BY <1>1 DEF IInv, TypeOK, PageInv, tableVars
<1>4. NothingSkipped'
  BY <1>1 DEF IInv, NothingSkipped, tableVars
<1>5. BatchInv'
  BY <1>1 DEF IInv, BatchInv, Shown, tableVars
<1>6. PostsInv'
  BY <1>1 DEF IInv, PostsInv, Recorded, ToRecord, tableVars
<1>. QED BY <1>2, <1>3, <1>4, <1>5, <1>6 DEF IInv

LEMMA PollTickStep == IInv /\ PollTick => IInv'
<1>. SUFFICES ASSUME IInv, PollTick PROVE IInv'
  OBVIOUS
<1>. USE DEF PollTick, explorerVars, tableVars
<1>1. TypeOK'
  BY DEF IInv, TypeOK
<1>2. PageInv' /\ NothingSkipped'
  BY DEF IInv, TypeOK, PageInv, NothingSkipped
<1>3. BatchInv'
  BY DEF IInv, BatchInv, Shown
<1>4. PostsInv'
  BY DEF IInv, PostsInv, Recorded, ToRecord
<1>. QED BY <1>1, <1>2, <1>3, <1>4 DEF IInv

LEMMA ListPageStep == IInv /\ ListPage => IInv'
<1>. SUFFICES ASSUME IInv, ListPage PROVE IInv'
  OBVIOUS
<1>. DEFINE upto == Smaller(cursor + PageLimit, indexed)
<1>1. /\ UNCHANGED <<indexed, quoted, cursor, events, valuation, sent, digest, posts,
                     lapses, faults>>
      /\ poll' = IdlePoll \/ /\ upto # cursor
                             /\ poll'.pc = "insert" /\ poll'.at = cursor + 1
                             /\ poll'.upto = upto
  BY DEF ListPage, explorerVars, tableVars
<1>2. upto \in Nat /\ upto <= indexed /\ (cursor <= indexed => cursor <= upto)
  BY LimitsAssumption, NumTicketsAssumption DEF IInv, TypeOK, Smaller
<1>3. TypeOK'
  <2>1. poll' \in [pc : {"idle", "list", "insert", "advance"}, at : Nat, upto : Nat,
                   quotes : SUBSET Tickets, next : BOOLEAN]
    <3>1. CASE poll' = IdlePoll
      BY <3>1, IdleTypes
    <3>2. CASE \E next \in BOOLEAN :
                 poll' = [pc |-> "insert", at |-> cursor + 1, upto |-> upto,
                          quotes |-> quoted \intersect ((cursor + 1)..upto),
                          next |-> next]
      BY <3>2, <1>2 DEF IInv, TypeOK
    <3>. QED BY <3>1, <3>2 DEF ListPage
  <2>. QED BY <2>1, <1>1 DEF IInv, TypeOK
<1>4. PageInv'
  <2>1. cursor \in Nat /\ cursor <= indexed /\ 1..cursor \subseteq events
    BY NumTicketsAssumption DEF IInv, TypeOK, PageInv, NothingSkipped
  <2>2. CASE poll' = IdlePoll
    BY <2>2, <1>1 DEF IInv, PageInv, IdlePoll
  <2>3. CASE poll' # IdlePoll
    <3>1. cursor < upto
      BY <2>1, <2>3, <1>1, <1>2
    <3>2. cursor' < poll'.at /\ poll'.at <= poll'.upto /\ poll'.at - 1 = cursor
      BY <2>1, <2>3, <3>1, <1>1, <1>2
    <3>. QED BY <2>1, <2>3, <3>1, <3>2, <1>1, <1>2 DEF IInv, PageInv
  <2>. QED BY <2>2, <2>3
<1>7. NothingSkipped'
  BY <1>1 DEF IInv, NothingSkipped
<1>5. BatchInv'
  BY <1>1 DEF IInv, BatchInv, Shown
<1>6. PostsInv'
  BY <1>1 DEF IInv, PostsInv, Recorded, ToRecord
<1>. QED BY <1>3, <1>4, <1>5, <1>6, <1>7 DEF IInv

LEMMA InsertEventStep == IInv /\ InsertEvent => IInv'
<1>. SUFFICES ASSUME IInv, InsertEvent PROVE IInv'
  OBVIOUS
<1>1. /\ UNCHANGED <<indexed, quoted, cursor, sent, digest, posts, lapses, faults>>
      /\ poll.pc = "insert" /\ events' = events \union {poll.at}
      /\ poll' = IF poll.at < poll.upto THEN [poll EXCEPT !.at = poll.at + 1]
                                         ELSE [poll EXCEPT !.pc = "advance"]
  BY DEF InsertEvent, explorerVars
<1>2. poll.at \in Tickets
  BY <1>1, NumTicketsAssumption DEF IInv, TypeOK, PageInv, Tickets
<1>3. valuation' \in [Tickets -> Tickets \union {NoQuote}]
  BY <1>2 DEF InsertEvent, Repair, IInv, TypeOK
<1>4. TypeOK'
  <2>1. poll' \in [pc : {"idle", "list", "insert", "advance"}, at : Nat, upto : Nat,
                   quotes : SUBSET Tickets, next : BOOLEAN]
    <3>1. poll \in [pc : {"idle", "list", "insert", "advance"}, at : Nat, upto : Nat,
                    quotes : SUBSET Tickets, next : BOOLEAN]
      BY DEF IInv, TypeOK
    <3>2. poll.at + 1 \in Nat
      BY <3>1
    <3>3. CASE poll' = [poll EXCEPT !.at = poll.at + 1]
      BY <3>1, <3>2, <3>3
    <3>4. CASE poll' = [poll EXCEPT !.pc = "advance"]
      BY <3>1, <3>4
    <3>. QED BY <1>1, <3>3, <3>4
  <2>. QED BY <2>1, <1>1, <1>2, <1>3 DEF IInv, TypeOK
<1>5. PageInv'
  <2>1. cursor \in Nat /\ poll.at \in Nat /\ poll.upto \in Nat /\ indexed \in Nat
    BY NumTicketsAssumption DEF IInv, TypeOK
  <2>2. 1..poll.at \subseteq events'
    BY <1>1, <2>1 DEF IInv, PageInv
  <2>3. /\ poll'.upto = poll.upto
        /\ poll'.pc \in {"insert", "advance"}
        /\ poll'.pc = "insert" => poll.at < poll.upto /\ poll'.at = poll.at + 1
        /\ poll'.pc = "advance" => ~(poll.at < poll.upto)
    BY <1>1 DEF IInv, TypeOK
  <2>4. cursor < poll.at /\ poll.at <= poll.upto /\ cursor < poll.upto
        /\ poll.upto <= indexed /\ sent \subseteq events /\ cursor <= indexed
    BY <1>1 DEF IInv, PageInv
  <2>5. poll'.pc = "advance" => poll.upto = poll.at
    BY <2>1, <2>3, <2>4
  <2>6. poll'.pc = "insert" => cursor < poll'.at /\ poll'.at <= poll.upto /\ poll'.at - 1 = poll.at
    BY <2>1, <2>3, <2>4
  <2>. QED BY <1>1, <2>2, <2>3, <2>4, <2>5, <2>6 DEF PageInv
<1>6. NothingSkipped'
  BY <1>1 DEF IInv, NothingSkipped
<1>7. BatchInv'
  BY <1>1 DEF IInv, BatchInv, Shown
<1>8. PostsInv'
  BY <1>1 DEF IInv, PostsInv, Recorded, ToRecord
<1>. QED BY <1>4, <1>5, <1>6, <1>7, <1>8 DEF IInv

LEMMA AdvanceCursorStep == IInv /\ AdvanceCursor => IInv'
<1>. SUFFICES ASSUME IInv, AdvanceCursor PROVE IInv'
  OBVIOUS
<1>1. /\ UNCHANGED <<indexed, quoted, events, valuation, sent, digest, posts, lapses,
                     faults>>
      /\ poll.pc = "advance" /\ cursor' \in {cursor, poll.upto}
      /\ poll' \in {IdlePoll, [IdlePoll EXCEPT !.pc = "list"]}
  BY DEF AdvanceCursor, explorerVars
<1>2. poll.upto \in 0..NumTickets
  BY <1>1, NumTicketsAssumption DEF IInv, TypeOK, PageInv
<1>3. poll' \in [pc : {"idle", "list"}, at : Nat, upto : Nat, quotes : SUBSET Tickets,
                 next : BOOLEAN]
  BY <1>1, IdleTypes
<1>4. TypeOK'
  BY <1>1, <1>2, <1>3 DEF IInv, TypeOK
<1>5. PageInv' /\ NothingSkipped'
  BY <1>1, <1>3 DEF IInv, PageInv, NothingSkipped
<1>6. BatchInv'
  BY <1>1 DEF IInv, BatchInv, Shown
<1>7. PostsInv'
  BY <1>1 DEF IInv, PostsInv, Recorded, ToRecord
<1>. QED BY <1>4, <1>5, <1>6, <1>7 DEF IInv

LEMMA PollAbortsStep == IInv /\ PollAborts => IInv'
<1>. SUFFICES ASSUME IInv, PollAborts PROVE IInv'
  OBVIOUS
<1>. USE DEF PollAborts, explorerVars, tableVars
<1>1. TypeOK'
  BY IdleTypes, FaultsAssumption DEF IInv, TypeOK
<1>2. PageInv' /\ NothingSkipped'
  BY IdleTypes DEF IInv, PageInv, NothingSkipped
<1>3. BatchInv'
  BY DEF IInv, BatchInv, Shown
<1>4. PostsInv'
  BY DEF IInv, PostsInv, Recorded, ToRecord
<1>. QED BY <1>1, <1>2, <1>3, <1>4 DEF IInv

DigestType ==
    [pc : {"idle", "refresh", "send", "mark"}, batch : SUBSET Tickets,
     todo : SUBSET Tickets, quote : [Tickets -> Tickets \union {NoQuote}],
     known : SUBSET Tickets, jobs : SUBSET JobType, job : JobType,
     took : SUBSET Channels]

LEMMA FetchBatchStep == IInv /\ FetchBatch => IInv'
<1>. SUFFICES ASSUME IInv, FetchBatch PROVE IInv'
  OBVIOUS
<1>1. PICK B \in SUBSET (events \ sent) :
        digest' = [IdleDigest EXCEPT
                      !.pc = "refresh", !.batch = B,
                      !.todo = {t \in B : valuation[t] = NoQuote},
                      !.quote = [t \in Tickets |-> IF t \in B THEN valuation[t]
                                                             ELSE NoQuote],
                      !.known = B \intersect quoted]
  BY DEF FetchBatch, FetchUnsent
<1>2. UNCHANGED <<indexed, quoted, cursor, events, valuation, sent, poll, posts, lapses,
                  faults>> /\ digest.pc = "idle"
  BY DEF FetchBatch, explorerVars, tableVars
<1>3. /\ digest'.pc = "refresh" /\ digest'.batch = B /\ digest'.jobs = {}
      /\ digest'.todo \subseteq B
  BY <1>1 DEF IdleDigest
<1>4. digest' \in DigestType
  <2>1. B \in SUBSET Tickets
    BY DEF IInv, TypeOK
  <2>2. [t \in Tickets |-> IF t \in B THEN valuation[t] ELSE NoQuote]
           \in [Tickets -> Tickets \union {NoQuote}]
    BY DEF IInv, TypeOK
  <2>. QED BY <1>1, <2>1, <2>2, IdleTypes DEF DigestType
<1>5. TypeOK'
  BY <1>2, <1>4 DEF IInv, TypeOK, DigestType
<1>6. PageInv' /\ NothingSkipped'
  BY <1>2 DEF IInv, PageInv, NothingSkipped
<1>7. BatchInv'
  BY <1>2, <1>3 DEF IInv, BatchInv
<1>8. PostsInv'
  BY <1>2, <1>3 DEF IInv, PostsInv, Recorded, ToRecord
<1>. QED BY <1>5, <1>6, <1>7, <1>8 DEF IInv

LEMMA RefreshValuationStep == IInv /\ RefreshValuation => IInv'
<1>. SUFFICES ASSUME IInv, RefreshValuation PROVE IInv'
  OBVIOUS
<1>. DEFINE fresh(t) == IF ByTxHash(t) \in quoted THEN ByTxHash(t) ELSE NoQuote
<1>1. PICK t \in digest.todo :
        Repair(t, fresh(t)) /\ digest' = [digest EXCEPT !.todo = @ \ {t}, !.quote[t] = fresh(t)]
  BY DEF RefreshValuation, Oldest
<1>2. UNCHANGED <<indexed, quoted, cursor, events, sent, poll, posts, lapses, faults>>
      /\ digest.pc = "refresh"
  BY DEF RefreshValuation, explorerVars
<1>3. digest \in DigestType /\ t \in Tickets
  BY DEF IInv, TypeOK, DigestType
<1>4. fresh(t) \in Tickets \union {NoQuote}
  BY DEF IInv, TypeOK
<1>. HIDE DEF fresh
<1>5. digest' = [digest EXCEPT !.todo = digest.todo \ {t},
                               !.quote = [digest.quote EXCEPT ![t] = fresh(t)]]
  BY <1>1, <1>3 DEF DigestType
<1>6. digest' \in DigestType
  <2>1. [digest.quote EXCEPT ![t] = fresh(t)] \in [Tickets -> Tickets \union {NoQuote}]
    BY <1>3, <1>4 DEF DigestType
  <2>2. digest.todo \ {t} \in SUBSET Tickets
    BY <1>3 DEF DigestType
  <2>. QED BY <1>3, <1>5, <2>1, <2>2 DEF DigestType
<1>7. /\ digest'.pc = "refresh" /\ digest'.batch = digest.batch
      /\ digest'.jobs = digest.jobs /\ digest'.todo \subseteq digest.todo
  BY <1>2, <1>3, <1>5 DEF DigestType
<1>8. TypeOK'
  <2>1. valuation' \in [Tickets -> Tickets \union {NoQuote}]
    BY <1>1, <1>3, <1>4 DEF Repair, IInv, TypeOK
  <2>. QED BY <1>2, <1>6, <2>1 DEF IInv, TypeOK, DigestType
<1>9. PageInv' /\ NothingSkipped'
  BY <1>2 DEF IInv, PageInv, NothingSkipped
<1>10. BatchInv'
  BY <1>2, <1>7 DEF IInv, BatchInv
<1>11. PostsInv'
  BY <1>2, <1>7 DEF IInv, PostsInv, Recorded, ToRecord
<1>. QED BY <1>8, <1>9, <1>10, <1>11 DEF IInv

LEMMA BuildJobsStep == IInv /\ BuildJobs => IInv'
<1>. SUFFICES ASSUME IInv, BuildJobs PROVE IInv'
  OBVIOUS
<1>1. UNCHANGED <<indexed, quoted, cursor, events, valuation, sent, poll, posts, lapses,
                  faults>> /\ digest.pc = "refresh"
  BY DEF BuildJobs, explorerVars, tableVars
<1>2. digest \in DigestType
  BY DEF IInv, TypeOK, DigestType
<1>3. /\ digest' \in DigestType /\ digest'.pc \in {"idle", "send"}
      /\ digest'.todo \subseteq digest'.batch
      /\ \A j \in digest'.jobs : j.ids \subseteq digest.batch
      /\ \A j, k \in digest'.jobs : j # k => j.ids \intersect k.ids = {}
  <2>1. PICK aiOf \in [Orchs -> SUBSET AiGateways] :
          digest' = IF Jobs(digest.batch, aiOf) = {} THEN IdleDigest
                    ELSE [digest EXCEPT !.pc = "send", !.jobs = Jobs(digest.batch, aiOf)]
    BY DEF BuildJobs
  <2>2. CASE digest' = IdleDigest
    BY <2>2, IdleTypes DEF DigestType
  <2>3. CASE digest' = [digest EXCEPT !.pc = "send", !.jobs = Jobs(digest.batch, aiOf)]
    <3>1. digest.batch \in SUBSET Tickets
      BY <1>2 DEF DigestType
    <3>2. /\ Jobs(digest.batch, aiOf) \subseteq JobType
          /\ \A j \in Jobs(digest.batch, aiOf) : j.ids \subseteq digest.batch
          /\ \A j, k \in Jobs(digest.batch, aiOf) : j # k => j.ids \intersect k.ids = {}
      BY <3>1, JobsPartition
    <3>3. digest'.todo \subseteq digest'.batch
      BY <1>2, <2>3 DEF IInv, BatchInv, DigestType
    <3>. QED BY <1>2, <2>3, <3>2, <3>3 DEF DigestType
  <2>. QED BY <2>1, <2>2, <2>3
<1>4. TypeOK'
  BY <1>1, <1>3 DEF IInv, TypeOK, DigestType
<1>5. PageInv' /\ NothingSkipped'
  BY <1>1 DEF IInv, PageInv, NothingSkipped
<1>6. BatchInv'
  BY <1>1, <1>3 DEF IInv, BatchInv
<1>7. PostsInv'
  BY <1>1, <1>3 DEF IInv, PostsInv, Recorded, ToRecord
<1>. QED BY <1>4, <1>5, <1>6, <1>7 DEF IInv

Counts == [Channels -> [Tickets -> Nat]]

\* Plus adds to the counters of the rows shown and to nothing else.
LEMMA PlusAdds ==
    ASSUME NEW counts \in Counts, NEW n \in [Channels -> Nat], NEW ids
    PROVE  /\ Plus(counts, n, ids) \in Counts
           /\ \A c \in Channels, t \in Tickets :
                 Plus(counts, n, ids)[c][t] =
                    IF t \in ids THEN counts[c][t] + n[c] ELSE counts[c][t]
<1>1. \A c \in Channels, t \in Tickets : counts[c][t] \in Nat /\ n[c] \in Nat
  BY DEF Counts
<1>. QED BY <1>1 DEF Plus, Counts

LEMMA OnceType ==
    ASSUME NEW C
    PROVE  /\ Once(C) \in [Channels -> Nat]
           /\ \A c \in Channels : Once(C)[c] = IF c \in C THEN 1 ELSE 0
BY DEF Once

LEMMA StraysType ==
    ASSUME NEW took, NEW n \in Strays(took)
    PROVE  n \in [Channels -> Nat]
<1>1. n \in [Channels -> 0..MaxAttempts]
  BY DEF Strays
<1>. QED BY <1>1, AttemptsAssumption

\* Of the rows, a send changes what was seen of those in its job only, and a channel
\* that took the payload shows all of them.
LEMMA ShownGrows ==
    ASSUME TypeOK, NEW ids \in SUBSET Tickets, NEW more,
           \A c \in Channels : more[c] \in Nat,
           \A c \in Channels, t \in Tickets :
              posts'[c][t] = IF t \in ids THEN posts[c][t] + more[c] ELSE posts[c][t]
    PROVE  /\ Shown' = Shown \union ids \/ Shown' = Shown
           /\ (\E c \in Channels : more[c] > 0) => Shown' = Shown \union ids
<1>1. \A c \in Channels, t \in Tickets : posts[c][t] \in Nat
  BY DEF TypeOK
<1>2. \A c \in Channels, t \in Tickets :
        (posts'[c][t] > 0) <=> (posts[c][t] > 0 \/ (t \in ids /\ more[c] > 0))
  BY <1>1
<1>3. CASE \E c \in Channels : more[c] > 0
  BY <1>2, <1>3 DEF Shown
<1>4. CASE ~\E c \in Channels : more[c] > 0
  BY <1>2, <1>4 DEF Shown
<1>. QED BY <1>3, <1>4

\* What a send leaves in the channels: n[c] messages without a 2xx, and one with it
\* where the payload was taken.
Delivers(j, took, n) ==
    /\ digest' = [digest EXCEPT !.pc = "mark", !.job = j, !.jobs = digest.jobs \ {j},
                                !.took = took]
    /\ posts' \in Counts /\ lapses' \in Counts /\ faults' \in {faults, faults + 1}
    /\ \A c \in Channels, t \in Tickets :
          /\ posts'[c][t] = IF t \in j.ids
                            THEN posts[c][t] + (n[c] + IF c \in took THEN 1 ELSE 0)
                            ELSE posts[c][t]
          /\ lapses'[c][t] = IF t \in j.ids THEN lapses[c][t] + n[c] ELSE lapses[c][t]

LEMMA DeliveredCounts ==
    ASSUME TypeOK, SendDelivered
    PROVE  \E j \in digest.jobs, took \in (SUBSET Channels) \ {{}}, n \in [Channels -> Nat] :
              Delivers(j, took, n)
<1>. DEFINE sending(j, took, n) ==
        /\ posts' = Plus(Plus(posts, n, j.ids), Once(took), j.ids)
        /\ lapses' = Plus(lapses, n, j.ids)
        /\ faults' \in {faults, faults + 1}
        /\ digest' = [digest EXCEPT !.pc = "mark", !.job = j, !.jobs = digest.jobs \ {j},
                                    !.took = took]
<1>0. PICK j \in digest.jobs, took \in (SUBSET Channels) \ {{}} :
        \E n \in Strays(took) : sending(j, took, n)
  BY DEF SendDelivered, Earliest
<1>1. PICK n \in Strays(took) : sending(j, took, n)
  BY <1>0
<1>2. n \in [Channels -> Nat] /\ posts \in Counts /\ lapses \in Counts
  BY StraysType DEF TypeOK, Counts
<1>. DEFINE mid == Plus(posts, n, j.ids)
<1>3. /\ mid \in Counts
      /\ \A c \in Channels, t \in Tickets :
            mid[c][t] = IF t \in j.ids THEN posts[c][t] + n[c] ELSE posts[c][t]
  BY <1>2, PlusAdds
<1>4. /\ lapses' \in Counts
      /\ \A c \in Channels, t \in Tickets :
            lapses'[c][t] = IF t \in j.ids THEN lapses[c][t] + n[c] ELSE lapses[c][t]
  BY <1>1, <1>2, PlusAdds
<1>. HIDE DEF mid
<1>5. posts' = Plus(mid, Once(took), j.ids)
  BY <1>1 DEF mid
<1>6. /\ posts' \in Counts
      /\ \A c \in Channels, t \in Tickets :
            posts'[c][t] = IF t \in j.ids THEN mid[c][t] + Once(took)[c] ELSE mid[c][t]
  BY <1>3, <1>5, OnceType, PlusAdds
<1>7. ASSUME NEW c \in Channels, NEW t \in Tickets
      PROVE  posts'[c][t] = IF t \in j.ids
                            THEN posts[c][t] + (n[c] + IF c \in took THEN 1 ELSE 0)
                            ELSE posts[c][t]
  <2>1. posts[c][t] \in Nat /\ n[c] \in Nat
    BY <1>2 DEF Counts
  <2>2. Once(took)[c] = IF c \in took THEN 1 ELSE 0
    BY OnceType
  <2>. QED BY <1>3, <1>6, <2>1, <2>2
<1>8. Delivers(j, took, n)
  BY <1>1, <1>4, <1>6, <1>7 DEF Delivers
<1>. QED BY <1>2, <1>8

LEMMA SendDeliveredStep == IInv /\ SendDelivered => IInv'
<1>. SUFFICES ASSUME IInv, SendDelivered PROVE IInv'
  OBVIOUS
<1>1. UNCHANGED <<indexed, quoted, cursor, events, valuation, sent, poll>>
      /\ digest.pc = "send" /\ faults' <= MaxFaults
  BY DEF SendDelivered, explorerVars, tableVars
<1>3. digest \in DigestType /\ TypeOK
  BY DEF IInv, TypeOK, DigestType
<1>0. PICK j \in digest.jobs, took \in (SUBSET Channels) \ {{}}, n \in [Channels -> Nat] :
        Delivers(j, took, n)
  BY <1>3, DeliveredCounts
<1>2. /\ took \in SUBSET Channels /\ took # {}
      /\ digest' = [digest EXCEPT !.pc = "mark", !.job = j,
                                  !.jobs = digest.jobs \ {j}, !.took = took]
      /\ posts' \in Counts /\ lapses' \in Counts /\ faults' \in {faults, faults + 1}
      /\ \A c \in Channels, t \in Tickets :
            /\ posts'[c][t] = IF t \in j.ids
                              THEN posts[c][t] + (n[c] + IF c \in took THEN 1 ELSE 0)
                              ELSE posts[c][t]
            /\ lapses'[c][t] = IF t \in j.ids THEN lapses[c][t] + n[c]
                                              ELSE lapses[c][t]
  BY <1>0 DEF Delivers
<1>4. j \in JobType /\ j.ids \in SUBSET Tickets
  BY <1>3 DEF DigestType, JobType
<1>5. /\ digest' \in DigestType /\ digest'.pc = "mark" /\ digest'.job = j
      /\ digest'.jobs = digest.jobs \ {j} /\ digest'.took = took
      /\ digest'.todo = digest.todo /\ digest'.batch = digest.batch
  BY <1>2, <1>3, <1>4 DEF DigestType
<1>6. TypeOK'
  <2>1. faults' \in 0..MaxFaults
    BY <1>1, <1>2, <1>3, FaultsAssumption DEF TypeOK
  <2>. QED BY <1>1, <1>2, <1>5, <2>1 DEF IInv, TypeOK, DigestType, Counts
<1>7. PageInv' /\ NothingSkipped'
  BY <1>1 DEF IInv, PageInv, NothingSkipped
<1>8. BatchInv'
  <2>1. j.ids \subseteq Shown'
    <3>. DEFINE more == [c \in Channels |-> n[c] + IF c \in took THEN 1 ELSE 0]
    <3>1. \A c \in Channels : more[c] \in Nat
      OBVIOUS
    <3>2. \E c \in Channels : more[c] > 0
      BY <1>2
    <3>3. \A c \in Channels, t \in Tickets :
            posts'[c][t] = IF t \in j.ids THEN posts[c][t] + more[c] ELSE posts[c][t]
      BY <1>2
    <3>. HIDE DEF more
    <3>4. Shown' = Shown \union j.ids
      BY <1>3, <1>4, <3>1, <3>2, <3>3, ShownGrows
    <3>. QED BY <3>4
  <2>. QED BY <1>1, <1>5, <2>1 DEF IInv, BatchInv
<1>9. PostsInv'
  <2>. SUFFICES ASSUME NEW c \in Channels, NEW t \in Tickets
                PROVE  posts'[c][t] <= lapses'[c][t] + Recorded(c, t)'
    BY DEF PostsInv
  <2>1. /\ posts'[c][t] = IF t \in j.ids
                          THEN posts[c][t] + (n[c] + IF c \in took THEN 1 ELSE 0)
                          ELSE posts[c][t]
        /\ lapses'[c][t] = IF t \in j.ids THEN lapses[c][t] + n[c] ELSE lapses[c][t]
    BY <1>2
  <2>6. posts[c][t] \in Nat /\ lapses[c][t] \in Nat /\ n[c] \in Nat
    BY <1>3 DEF TypeOK
  <2>2. Recorded(c, t) = IF t \in sent THEN 1 ELSE 0
    BY <1>1 DEF Recorded, ToRecord
  <2>3. Recorded(c, t)' = IF t \in sent \/ (c \in took /\ t \in j.ids) THEN 1 ELSE 0
    BY <1>1, <1>5 DEF Recorded, ToRecord
  <2>4. j.ids \intersect sent = {}
    BY DEF IInv, BatchInv
  <2>5. posts[c][t] <= lapses[c][t] + Recorded(c, t)
    BY DEF IInv, PostsInv
  <2>. QED BY <2>1, <2>2, <2>3, <2>4, <2>5, <2>6
<1>. QED BY <1>6, <1>7, <1>8, <1>9 DEF IInv

\* The iteration after a job is dealt with: back to sending, or over.
LEMMA ContinueType ==
    ASSUME NEW d \in DigestType
    PROVE  /\ Continue(d) \in DigestType /\ Continue(d).pc \in {"idle", "send"}
           /\ Continue(d).jobs \subseteq d.jobs
           /\ d.todo \subseteq d.batch => Continue(d).todo \subseteq Continue(d).batch
<1>1. NoJob \in JobType
  BY DEF NoJob, JobType
<1>2. CASE d.jobs = {}
  BY <1>2, IdleTypes DEF Continue, DigestType
<1>3. CASE d.jobs # {}
  BY <1>1, <1>3 DEF Continue, DigestType
<1>. QED BY <1>2, <1>3

LEMMA SendFailsStep == IInv /\ SendFails => IInv'
<1>. SUFFICES ASSUME IInv, SendFails PROVE IInv'
  OBVIOUS
<1>1. UNCHANGED <<indexed, quoted, cursor, events, valuation, sent, poll>>
      /\ digest.pc = "send" /\ faults < MaxFaults /\ faults' = faults + 1
  BY DEF SendFails, explorerVars, tableVars
<1>2. PICK j \in digest.jobs, n \in Strays({}) :
        /\ posts' = Plus(posts, n, j.ids)
        /\ lapses' = Plus(lapses, n, j.ids)
        /\ digest' = Continue([digest EXCEPT !.jobs = digest.jobs \ {j}])
  BY DEF SendFails, Earliest
<1>3. digest \in DigestType /\ TypeOK
  BY DEF IInv, TypeOK, DigestType
<1>4. j.ids \in SUBSET Tickets
  BY <1>3 DEF DigestType, JobType
<1>5. /\ digest' \in DigestType /\ digest'.pc \in {"idle", "send"}
      /\ digest'.jobs \subseteq digest.jobs /\ digest'.todo \subseteq digest'.batch
  <2>. DEFINE d == [digest EXCEPT !.jobs = digest.jobs \ {j}]
  <2>1. d \in DigestType /\ d.jobs \subseteq digest.jobs /\ d.todo \subseteq d.batch
    BY <1>3 DEF DigestType, IInv, BatchInv
  <2>2. digest' = Continue(d)
    BY <1>2
  <2>. HIDE DEF d
  <2>. QED BY <2>1, <2>2, ContinueType
<1>6. /\ posts' \in Counts /\ lapses' \in Counts /\ n \in [Channels -> Nat]
      /\ \A c \in Channels, t \in Tickets :
            /\ posts'[c][t] = IF t \in j.ids THEN posts[c][t] + n[c] ELSE posts[c][t]
            /\ lapses'[c][t] = IF t \in j.ids THEN lapses[c][t] + n[c] ELSE lapses[c][t]
  <2>1. n \in [Channels -> Nat] /\ posts \in Counts /\ lapses \in Counts
    BY <1>3, StraysType DEF TypeOK, Counts
  <2>2. /\ posts' \in Counts
        /\ \A c \in Channels, t \in Tickets :
              posts'[c][t] = IF t \in j.ids THEN posts[c][t] + n[c] ELSE posts[c][t]
    BY <1>2, <2>1, PlusAdds
  <2>3. /\ lapses' \in Counts
        /\ \A c \in Channels, t \in Tickets :
              lapses'[c][t] = IF t \in j.ids THEN lapses[c][t] + n[c] ELSE lapses[c][t]
    BY <1>2, <2>1, PlusAdds
  <2>. QED BY <2>1, <2>2, <2>3
<1>7. TypeOK'
  BY <1>1, <1>5, <1>6, FaultsAssumption DEF IInv, TypeOK, DigestType, Counts
<1>8. PageInv' /\ NothingSkipped'
  BY <1>1 DEF IInv, PageInv, NothingSkipped
<1>9. BatchInv'
  BY <1>1, <1>5 DEF IInv, BatchInv
<1>10. PostsInv'
  <2>. SUFFICES ASSUME NEW c \in Channels, NEW t \in Tickets
                PROVE  posts'[c][t] <= lapses'[c][t] + Recorded(c, t)'
    BY DEF PostsInv
  <2>1. /\ posts[c][t] \in Nat /\ lapses[c][t] \in Nat /\ n[c] \in Nat
        /\ posts[c][t] <= lapses[c][t] + Recorded(c, t)
    BY <1>6 DEF IInv, TypeOK, PostsInv
  <2>2. Recorded(c, t)' = Recorded(c, t) /\ Recorded(c, t) \in {0, 1}
    BY <1>1, <1>5 DEF Recorded, ToRecord
  <2>3. /\ posts'[c][t] = IF t \in j.ids THEN posts[c][t] + n[c] ELSE posts[c][t]
        /\ lapses'[c][t] = IF t \in j.ids THEN lapses[c][t] + n[c] ELSE lapses[c][t]
    BY <1>6
  <2>. QED BY <2>1, <2>2, <2>3
<1>. QED BY <1>7, <1>8, <1>9, <1>10 DEF IInv

LEMMA MarkSentStep == IInv /\ MarkSent => IInv'
<1>. SUFFICES ASSUME IInv, MarkSent PROVE IInv'
  OBVIOUS
<1>1. UNCHANGED <<indexed, quoted, cursor, events, valuation, poll, posts, lapses, faults>>
      /\ digest.pc = "mark" /\ sent' = sent \union digest.job.ids
      /\ digest' = Continue(digest)
  BY DEF MarkSent, explorerVars
<1>2. digest \in DigestType /\ digest.job.ids \subseteq Tickets
  BY DEF IInv, TypeOK, DigestType, JobType
<1>3. /\ digest' \in DigestType /\ digest'.pc \in {"idle", "send"}
      /\ digest'.jobs \subseteq digest.jobs /\ digest'.todo \subseteq digest'.batch
  BY <1>1, <1>2, ContinueType DEF IInv, BatchInv
<1>4. TypeOK'
  BY <1>1, <1>2, <1>3 DEF IInv, TypeOK, DigestType
<1>5. PageInv' /\ NothingSkipped'
  BY <1>1 DEF IInv, PageInv, NothingSkipped, BatchInv
<1>6. BatchInv'
  BY <1>1, <1>3 DEF IInv, BatchInv
<1>7. PostsInv'
  <2>. SUFFICES ASSUME NEW c \in Channels, NEW t \in Tickets
                PROVE  posts[c][t] <= lapses[c][t] + Recorded(c, t)'
    BY <1>1 DEF PostsInv
  <2>1. /\ posts[c][t] \in Nat /\ lapses[c][t] \in Nat
        /\ posts[c][t] <= lapses[c][t] + Recorded(c, t)
    BY DEF IInv, TypeOK, PostsInv
  <2>2. t \in sent \/ ToRecord(c, t) => t \in sent'
    BY <1>1 DEF ToRecord
  <2>3. Recorded(c, t) = IF t \in sent \/ ToRecord(c, t) THEN 1 ELSE 0
    BY DEF Recorded
  <2>4. Recorded(c, t)' \in {0, 1} /\ (t \in sent' => Recorded(c, t)' = 1)
    BY DEF Recorded
  <2>. QED BY <2>1, <2>2, <2>3, <2>4
<1>. QED BY <1>4, <1>5, <1>6, <1>7 DEF IInv

LEMMA DigestDropStep == IInv /\ (DigestAborts \/ Crash) => IInv'
<1>. SUFFICES ASSUME IInv, DigestAborts \/ Crash PROVE IInv'
  OBVIOUS
<1>1. /\ UNCHANGED <<indexed, quoted, cursor, events, valuation, sent, posts>>
      /\ digest' = IdleDigest /\ poll' \in {poll, IdlePoll}
      /\ LosePost /\ faults < MaxFaults /\ faults' = faults + 1
  BY DEF DigestAborts, Crash, explorerVars, tableVars
<1>2. lapses \in Counts /\ posts \in Counts
  BY DEF IInv, TypeOK, Counts
<1>3. /\ lapses' \in Counts
      /\ \A c \in Channels, t \in Tickets :
            lapses'[c][t] = IF ToRecord(c, t) THEN lapses[c][t] + 1 ELSE lapses[c][t]
  <2>1. CASE digest.pc = "mark"
    <3>1. lapses' = Plus(lapses, Once(digest.took), digest.job.ids)
      BY <1>1, <2>1 DEF LosePost
    <3>2. /\ lapses' \in Counts
          /\ \A c \in Channels, t \in Tickets :
                lapses'[c][t] = IF t \in digest.job.ids
                                THEN lapses[c][t] + Once(digest.took)[c] ELSE lapses[c][t]
      BY <1>2, <3>1, OnceType, PlusAdds
    <3>3. \A c \in Channels : Once(digest.took)[c] = IF c \in digest.took THEN 1 ELSE 0
      BY OnceType
    <3>4. \A c \in Channels, t \in Tickets : lapses[c][t] \in Nat
      BY <1>2 DEF Counts
    <3>. QED BY <2>1, <3>2, <3>3, <3>4 DEF ToRecord
  <2>2. CASE digest.pc # "mark"
    BY <1>1, <1>2, <2>2 DEF LosePost, ToRecord
  <2>. QED BY <2>1, <2>2
<1>4. TypeOK'
  <2>1. poll' \in [pc : {"idle", "list", "insert", "advance"}, at : Nat, upto : Nat,
                   quotes : SUBSET Tickets, next : BOOLEAN]
    BY <1>1, IdleTypes DEF IInv, TypeOK
  <2>. QED BY <1>1, <1>3, <2>1, IdleTypes, FaultsAssumption DEF IInv, TypeOK, Counts
<1>5. PageInv' /\ NothingSkipped'
  BY <1>1, IdleTypes DEF IInv, PageInv, NothingSkipped
<1>6. BatchInv'
  BY <1>1, IdleTypes DEF IInv, BatchInv
<1>7. PostsInv'
  <2>. SUFFICES ASSUME NEW c \in Channels, NEW t \in Tickets
                PROVE  posts'[c][t] <= lapses'[c][t] + Recorded(c, t)'
    BY DEF PostsInv
  <2>1. /\ posts[c][t] \in Nat /\ lapses[c][t] \in Nat
        /\ posts[c][t] <= lapses[c][t] + Recorded(c, t)
    BY <1>2 DEF IInv, PostsInv, Counts
  <2>2. Recorded(c, t)' = IF t \in sent THEN 1 ELSE 0
    BY <1>1, IdleTypes DEF Recorded, ToRecord
  <2>3. Recorded(c, t) = IF t \in sent \/ ToRecord(c, t) THEN 1 ELSE 0
    BY DEF Recorded
  <2>. QED BY <1>1, <1>3, <2>1, <2>2, <2>3
<1>. QED BY <1>4, <1>5, <1>6, <1>7 DEF IInv

LEMMA StepInv == IInv /\ [Next]_vars => IInv'
<1>. SUFFICES ASSUME IInv, [Next]_vars PROVE IInv'
  OBVIOUS
<1>1. CASE UNCHANGED vars
  <2>. USE <1>1 DEF vars
  <2>1. TypeOK' /\ PageInv' /\ NothingSkipped'
    BY DEF IInv, TypeOK, PageInv, NothingSkipped
  <2>2. BatchInv' /\ PostsInv'
    BY DEF IInv, BatchInv, PostsInv, Shown, Recorded, ToRecord
  <2>. QED BY <2>1, <2>2 DEF IInv
<1>2. CASE Next
  BY <1>2, ExplorerStep, PollTickStep, ListPageStep, InsertEventStep,
     AdvanceCursorStep, PollAbortsStep, FetchBatchStep, RefreshValuationStep,
     BuildJobsStep, SendDeliveredStep, SendFailsStep, MarkSentStep, DigestDropStep
     DEF Next, PollNext, DigestNext
<1>. QED BY <1>1, <1>2

LEMMA Invariance == Spec => []IInv
<1>. QED BY InitInv, StepInv, PTL DEF Spec

-----------------------------------------------------------------------------
(* The theorems.                                                           *)

\* The tables, the iterations in progress and the observed posts always have
\* the types TypeOK gives them.
THEOREM TypeCorrect == Spec => []TypeOK
<1>1. IInv => TypeOK
  BY DEF IInv
<1>. QED BY <1>1, Invariance, PTL

\* However event_poller is interrupted between the inserts of a page and the
\* save of its cursor, every ticket before the cursor is stored.
THEOREM CursorSafe == Spec => []NothingSkipped
<1>1. IInv => NothingSkipped
  BY DEF IInv
<1>. QED BY <1>1, Invariance, PTL

\* A channel shows a row at most once more than messages of it there went without
\* their success being recorded, retries inside a send included.
THEOREM DuplicatesBounded == Spec => []DuplicatesNeedLapse
<1>1. IInv => DuplicatesNeedLapse
  <2>. SUFFICES ASSUME IInv, NEW c \in Channels, NEW t \in Tickets
                PROVE  posts[c][t] <= 1 + lapses[c][t]
    BY DEF DuplicatesNeedLapse
  <2>1. /\ posts[c][t] \in Nat /\ lapses[c][t] \in Nat
        /\ posts[c][t] <= lapses[c][t] + Recorded(c, t)
    BY DEF IInv, TypeOK, PostsInv
  <2>2. Recorded(c, t) \in {0, 1}
    BY DEF Recorded
  <2>. QED BY <2>1, <2>2
<1>. QED BY <1>1, Invariance, PTL

\* Neither the poller's repair of a listed row nor the poster's refresh changes
\* the figures of a row that was marked sent, and no row is unmarked.
THEOREM SentRowsStay == Spec => SentRowsFrozen
<1>1. IInv /\ [Next]_vars =>
        [\A t \in sent : t \in sent' /\ valuation'[t] = valuation[t]]_vars
  <2>. SUFFICES ASSUME IInv, Next, NEW t \in sent
                PROVE  t \in sent' /\ valuation'[t] = valuation[t]
    BY DEF vars
  <2>1. ASSUME NEW u \in Tickets, NEW q, Repair(u, q) PROVE valuation'[t] = valuation[t]
    BY <2>1 DEF Repair, IInv, TypeOK
  <2>2. CASE InsertEvent
    <3>1. poll.at \in Tickets
      BY <2>2, NumTicketsAssumption DEF InsertEvent, IInv, TypeOK, PageInv, Tickets
    <3>. QED BY <2>1, <2>2, <3>1 DEF InsertEvent
  <2>3. CASE RefreshValuation
    <3>1. digest.todo \subseteq Tickets
      BY DEF IInv, TypeOK
    <3>. QED BY <2>1, <2>3, <3>1 DEF RefreshValuation, Oldest
  <2>4. CASE /\ ~InsertEvent /\ ~RefreshValuation
    BY <2>4 DEF Next, PollNext, DigestNext, IndexTicket, QuoteTicket, PollTick, ListPage,
       AdvanceCursor, PollAborts, FetchBatch, BuildJobs, SendDelivered, SendFails,
       MarkSent, DigestAborts, Crash, tableVars
  <2>. QED BY <2>2, <2>3, <2>4
<1>. QED BY <1>1, Invariance, PTL DEF Spec, SentRowsFrozen

\* The pipeline implements the outbox: a row is stored before it is shown, is
\* shown only while it is pending and is marked only after it was shown.
THEOREM ImplementsOutbox == Spec => DeliversAsOutbox
<1>1. Init => OB!Init
  <2>. SUFFICES ASSUME Init PROVE OB!Init
    OBVIOUS
  <2>1. Shown = {}
    BY DEF Init, Shown
  <2>. QED BY <2>1 DEF OB!Init, Init
<1>2. IInv /\ IInv' /\ [Next]_vars => [OB!Next]_OB!vars
  <2>. SUFFICES ASSUME IInv, IInv', [Next]_vars PROVE [OB!Next]_OB!vars
    OBVIOUS
  <2>. USE DEF OB!vars
  <2>1. posts' = posts => Shown' = Shown
    BY DEF Shown
  <2>2. CASE InsertEvent
    <3>1. events' = events \union {poll.at} /\ posts' = posts /\ sent' = sent
          /\ {poll.at} \in SUBSET Tickets
      BY <2>2 DEF InsertEvent, IInv, TypeOK
    <3>2. OB!Accept({poll.at})
      BY <3>1, <2>1 DEF OB!Accept
    <3>. QED BY <3>1, <3>2 DEF OB!Next
  <2>3. CASE SendDelivered \/ SendFails
    <3>1. UNCHANGED <<events, sent>>
      BY <2>3 DEF SendDelivered, SendFails, tableVars
    <3>3. TypeOK /\ \A j \in digest.jobs : j.ids \in SUBSET Tickets
                                           /\ j.ids \subseteq events \ sent
      BY DEF IInv, TypeOK, JobType, BatchInv
    <3>2. PICK j \in digest.jobs :
             \E more \in [Channels -> Nat] : \A c \in Channels, t \in Tickets :
                posts'[c][t] = IF t \in j.ids THEN posts[c][t] + more[c] ELSE posts[c][t]
      <4>1. CASE SendDelivered
        <5>1. PICK i \in digest.jobs, took \in (SUBSET Channels) \ {{}},
                   n \in [Channels -> Nat] : Delivers(i, took, n)
          BY <3>3, <4>1, DeliveredCounts
        <5>. DEFINE more == [c \in Channels |-> n[c] + IF c \in took THEN 1 ELSE 0]
        <5>2. more \in [Channels -> Nat]
          OBVIOUS
        <5>3. \A c \in Channels, t \in Tickets :
                posts'[c][t] = IF t \in i.ids THEN posts[c][t] + more[c] ELSE posts[c][t]
          BY <5>1 DEF Delivers
        <5>. HIDE DEF more
        <5>. QED BY <5>2, <5>3
      <4>2. CASE SendFails
        <5>1. PICK i \in digest.jobs, n \in Strays({}) : posts' = Plus(posts, n, i.ids)
          BY <4>2 DEF SendFails, Earliest
        <5>2. n \in [Channels -> Nat] /\ posts \in Counts
          BY <3>3, StraysType DEF TypeOK, Counts
        <5>3. \A c \in Channels, t \in Tickets :
                posts'[c][t] = IF t \in i.ids THEN posts[c][t] + n[c] ELSE posts[c][t]
          BY <5>1, <5>2, PlusAdds
        <5>. QED BY <5>2, <5>3
      <4>. QED BY <2>3, <4>1, <4>2
    <3>4. Shown' = Shown \union j.ids \/ Shown' = Shown
      <4>1. PICK more \in [Channels -> Nat] : \A c \in Channels, t \in Tickets :
                posts'[c][t] = IF t \in j.ids THEN posts[c][t] + more[c] ELSE posts[c][t]
        BY <3>2
      <4>2. \A c \in Channels : more[c] \in Nat
        OBVIOUS
      <4>. QED BY <3>3, <4>1, <4>2, ShownGrows
    <3>5. CASE Shown' = Shown \union j.ids
      <4>1. OB!Show(j.ids)
        BY <3>1, <3>3, <3>5 DEF OB!Show
      <4>. QED BY <3>3, <4>1 DEF OB!Next
    <3>. QED BY <3>1, <3>4, <3>5
  <2>4. CASE MarkSent
    <3>1. /\ digest.job.ids \in SUBSET Tickets /\ digest.job.ids \subseteq Shown \intersect events
          /\ sent' = sent \union digest.job.ids /\ events' = events /\ posts' = posts
      BY <2>4 DEF MarkSent, IInv, TypeOK, JobType, BatchInv
    <3>2. OB!Complete(digest.job.ids)
      BY <3>1, <2>1 DEF OB!Complete
    <3>. QED BY <3>1, <3>2 DEF OB!Next
  <2>5. CASE ~InsertEvent /\ ~SendDelivered /\ ~SendFails /\ ~MarkSent
    <3>1. UNCHANGED <<events, sent, posts>>
      BY <2>5 DEF Next, PollNext, DigestNext, IndexTicket, QuoteTicket, PollTick, ListPage,
         AdvanceCursor, PollAborts, FetchBatch, RefreshValuation, BuildJobs,
         DigestAborts, Crash, tableVars, vars
    <3>. QED BY <3>1, <2>1
  <2>. QED BY <2>2, <2>3, <2>4, <2>5
<1>. QED BY <1>1, <1>2, Invariance, PTL DEF Spec, OB!Spec, DeliversAsOutbox

-----------------------------------------------------------------------------
(* USD figures, when no two tickets come from one transaction.             *)

OneTicketPerTx == \A t, u \in Tickets : TxOf[t] = TxOf[u] => t = u

\* The lookup by transaction hash then finds the ticket it is asked about.
LEMMA ByTxHashIsOwn ==
    ASSUME OneTicketPerTx, NEW t \in Tickets
    PROVE  ByTxHash(t) = t
<1>1. t \in Tickets /\ TxOf[t] = TxOf[t] /\ \A w \in Tickets : TxOf[w] = TxOf[t] => t <= w
  <2>1. t <= t
    BY DEF Tickets
  <2>. QED BY <2>1 DEF OneTicketPerTx
<1>2. ByTxHash(t) \in Tickets /\ TxOf[ByTxHash(t)] = TxOf[t]
  BY <1>1 DEF ByTxHash
<1>. QED BY <1>2 DEF OneTicketPerTx

\* A row with a quote at fetch time either waits for its refresh or has USD
\* figures in the copy that is posted.
PriceInv ==
    /\ digest.known \subseteq quoted
    /\ digest.pc \in {"send", "mark"} => digest.todo = {}
    /\ \A t \in digest.known : t \in digest.todo \/ digest.quote[t] # NoQuote

LEMMA PriceStep == ASSUME OneTicketPerTx
                   PROVE  IInv /\ PriceInv /\ [Next]_vars => PriceInv'
<1>. SUFFICES ASSUME IInv, PriceInv, [Next]_vars PROVE PriceInv'
  OBVIOUS
<1>1. quoted \subseteq quoted'
  BY DEF Next, PollNext, DigestNext, IndexTicket, QuoteTicket, PollTick, ListPage, InsertEvent,
     AdvanceCursor, PollAborts, FetchBatch, RefreshValuation, BuildJobs, SendDelivered,
     SendFails, MarkSent, DigestAborts, Crash, explorerVars, vars
<1>2. digest \in DigestType
  BY DEF IInv, TypeOK, DigestType
<1>3. CASE digest' = digest
  BY <1>1, <1>3 DEF PriceInv
<1>4. CASE digest' = IdleDigest
  BY <1>4 DEF PriceInv, IdleDigest
<1>5. CASE FetchBatch
  <2>1. PICK B \in SUBSET Tickets :
          digest' = [IdleDigest EXCEPT
                      !.pc = "refresh", !.batch = B,
                      !.todo = {t \in B : valuation[t] = NoQuote},
                      !.quote = [t \in Tickets |-> IF t \in B THEN valuation[t]
                                                             ELSE NoQuote],
                      !.known = B \intersect quoted]
    BY <1>5 DEF FetchBatch, FetchUnsent, IInv, TypeOK
  <2>2. /\ digest'.pc = "refresh" /\ digest'.known = B \intersect quoted
        /\ digest'.todo = {t \in B : valuation[t] = NoQuote}
        /\ \A t \in B : digest'.quote[t] = valuation[t]
    BY <2>1 DEF IdleDigest
  <2>. QED BY <1>1, <2>2 DEF PriceInv
<1>6. CASE RefreshValuation
  <2>1. PICK u \in digest.todo :
          digest' = [digest EXCEPT !.todo = @ \ {u},
                        !.quote[u] = IF ByTxHash(u) \in quoted THEN ByTxHash(u) ELSE NoQuote]
    BY <1>6 DEF RefreshValuation, Oldest
  <2>2. u \in Tickets /\ ByTxHash(u) = u /\ u # NoQuote
    BY <1>2, ByTxHashIsOwn DEF DigestType, Tickets, NoQuote
  <2>3. /\ digest'.pc = "refresh" /\ digest'.known = digest.known
        /\ digest'.todo = digest.todo \ {u}
        /\ digest'.quote = [digest.quote EXCEPT ![u] = IF u \in quoted THEN u ELSE NoQuote]
    BY <1>2, <1>6, <2>1, <2>2 DEF DigestType, RefreshValuation
  <2>4. digest'.quote[u] = (IF u \in quoted THEN u ELSE NoQuote)
        /\ \A t \in Tickets : t # u => digest'.quote[t] = digest.quote[t]
    BY <1>2, <2>2, <2>3 DEF DigestType
  <2>5. digest.known \subseteq Tickets
    BY <1>2 DEF DigestType
  <2>. QED BY <1>1, <2>2, <2>3, <2>4, <2>5 DEF PriceInv
<1>7. CASE /\ digest' # digest /\ digest' # IdleDigest
           /\ BuildJobs \/ SendDelivered \/ SendFails \/ MarkSent
  <2>1. digest.pc \in {"send", "mark"} \/ digest.todo = {}
    BY <1>7 DEF BuildJobs, SendDelivered, SendFails, MarkSent
  <2>2. digest'.known = digest.known /\ digest'.todo = digest.todo
        /\ digest'.quote = digest.quote
    BY <1>2, <1>7 DEF BuildJobs, SendDelivered, SendFails, MarkSent, Continue, DigestType
  <2>. QED BY <1>1, <2>1, <2>2 DEF PriceInv
<1>8. \/ digest' = digest \/ digest' = IdleDigest \/ FetchBatch \/ RefreshValuation
      \/ BuildJobs \/ SendDelivered \/ SendFails \/ MarkSent
  BY DEF Next, PollNext, DigestNext, IndexTicket, QuoteTicket, PollTick, ListPage, InsertEvent,
     AdvanceCursor, PollAborts, DigestAborts, Crash, vars
<1>. QED BY <1>3, <1>4, <1>5, <1>6, <1>7, <1>8

\* digest_poster never posts a row as unpriced that the explorer had priced
\* when the iteration fetched it, as long as each transaction redeems one
\* ticket (the lookup is by transaction hash).
THEOREM KnownPricesPosted == ASSUME OneTicketPerTx
                             PROVE  Spec => []PostedWithKnownPrice
<1>1. Init => PriceInv
  BY DEF Init, PriceInv, IdleDigest
<1>2. PriceInv => PostedWithKnownPrice
  BY DEF PriceInv, PostedWithKnownPrice
<1>3. IInv /\ PriceInv /\ [Next]_vars => PriceInv'
  BY PriceStep
<1>. QED BY <1>1, <1>2, <1>3, Invariance, PTL DEF Spec
=============================================================================
