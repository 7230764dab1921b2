------------------------ MODULE DelegatorDigestProofs ------------------------
(***************************************************************************)
(* Theorems about DelegatorDigest, for every set of users, orchestrators,  *)
(* delegators and streams, every batch size and every bound.               *)
(***************************************************************************)
EXTENDS DelegatorDigest, TLAPS

-----------------------------------------------------------------------------
(* The inductive invariant.                                                *)

\* The chain is in the order of time.
ChainInv ==
    /\ \A e \in DOMAIN chain : chain[e].at < e
    /\ \A e, f \in DOMAIN chain : f <= e => chain[f].at <= chain[e].at

\* Stream k up to event n is stored, but for the events in S.
StoredUpTo(k, n, S) ==
    \A e \in DOMAIN chain : chain[e].name = k /\ e <= n => e \in stored \union S

\* What a cursor or a page has behind it is stored, and each stream is stored in its
\* order, so that no Bond is stored after a later one.
PollInv ==
    /\ \A k \in Streams : cursor[k] <= Len(chain) /\ StoredUpTo(k, cursor[k], {})
    /\ poll.upto <= Len(chain)
    /\ \A e \in poll.todo : e \in DOMAIN chain /\ chain[e].name = poll.k /\ e <= poll.upto
    /\ StoredUpTo(poll.k, poll.upto, poll.todo)
    /\ \A e \in stored : StoredUpTo(chain[e].name, e, {})

\* The batch is of stored events without a mark; those of the orchestrator in turn are
\* apart from those that are over and from those still to come.
BatchInv ==
    /\ digest.batch \subseteq stored \ sent /\ digest.done \subseteq digest.batch
    /\ \A e \in digest.bonds \union digest.fresh : e \in digest.batch /\ chain[e].name = 1
    /\ digest.pc = "idle" => digest.done = {}
    /\ digest.pc \in {"idle", "orch"} => digest.orch = {}
    /\ digest.orch \intersect digest.orchs = {}
    /\ \A e \in digest.done : OrchOf(e) \notin digest.orch \union digest.orchs

\* Who is still due is subscribed; in the digest, in its turn or yet to come.
DueInv ==
    /\ \A e \in stored : due[e] \subseteq Subscribers(OrchOf(e))
    /\ \A e \in InDigest : due[e] \subseteq digest.subs
    /\ \A e \in digest.done : due[e] = {}

\* Who was told about an event will not be told again: it is marked, or will be.
Settled(d) ==
    \/ d[2] \in sent \union digest.done
    \/ d[2] \in InDigest /\ d[1] \notin digest.subs

ToldInv == faults = 0 => resent = {} /\ \A d \in told : Settled(d)

\* No Bond that is older than a new delegator's is stored, now or later.
FirstBond(e) ==
    /\ e \in stored /\ chain[e].name = 1
    /\ \A f \in stored : chain[f].name = 1 /\ chain[f].pair = chain[e].pair
                            => chain[f].at >= chain[e].at

FreshInv == \A e \in toldNew \union digest.fresh : FirstBond(e)

IInv ==
    /\ TypeOK /\ ChainInv /\ PollInv /\ BatchInv /\ DueInv /\ MarkedMeansAttempted
    /\ ToldInv /\ FreshInv

-----------------------------------------------------------------------------
(* Lemmas about the operators.                                             *)

LEMMA PollTypes ==
    /\ NextStream \in Polls /\ NextStream.upto = 0 /\ NextStream.todo = {}
    /\ NewTick \in Polls /\ NewTick.upto = 0 /\ NewTick.todo = {}
<1>1. ASSUME NEW k \in Streams
      PROVE  ReadStream(k) \in Polls /\ ReadStream(k).upto = 0 /\ ReadStream(k).todo = {}
  BY DelegatorAssumption DEF ReadStream, Polls
<1>2. 1 \in Streams
  BY DelegatorAssumption
<1>. QED BY <1>1, <1>2 DEF NextStream, NewTick

LEMMA IdleTypes ==
    /\ IdleDigest \in Digests /\ IdleDigest.pc = "idle" /\ IdleDigest.batch = {}
    /\ IdleDigest.orchs = {} /\ IdleDigest.orch = {} /\ IdleDigest.subs = {}
    /\ IdleDigest.bonds = {} /\ IdleDigest.fresh = {} /\ IdleDigest.done = {}
BY DEF IdleDigest, NewDigest, Digests

\* Events of the chain have a pair, and are numbered from one.
LEMMA ChainTypes ==
    ASSUME TypeOK
    PROVE  /\ Len(chain) \in Nat /\ DOMAIN chain = 1..Len(chain) /\ DOMAIN chain \subseteq Ids
           /\ \A e \in DOMAIN chain : /\ e \in Nat /\ chain[e].name \in Streams
                                      /\ chain[e].pair \in Pairs /\ OrchOf(e) \in Orchs
                                      /\ chain[e].at \in Nat
<1>1. chain \in Seq(Events) /\ Len(chain) <= MaxEvents
  BY DEF TypeOK
<1>2. Len(chain) \in Nat /\ DOMAIN chain = 1..Len(chain) /\ DOMAIN chain \subseteq Ids
  BY <1>1, DelegatorAssumption DEF Ids
<1>3. ASSUME NEW e \in DOMAIN chain
      PROVE  /\ e \in Nat /\ chain[e].name \in Streams
             /\ chain[e].pair \in Pairs /\ OrchOf(e) \in Orchs
             /\ chain[e].at \in Nat
  <2>1. chain[e] \in Events
    BY <1>1, <1>2
  <2>2. chain[e].name \in Streams /\ chain[e].pair \in Pairs /\ chain[e].at \in 0..MaxEvents
    BY <2>1 DEF Events
  <2>. QED BY <1>2, <2>2, DelegatorAssumption DEF OrchOf, Pairs
<1>. QED BY <1>2, <1>3

LEMMA InitInv == Init => IInv
<1>. SUFFICES ASSUME Init PROVE IInv
  OBVIOUS
<1>1. TypeOK
  <2>1. chain \in Seq(Events) /\ Len(chain) = 0
    BY DEF Init
  <2>2. poll \in Polls /\ digest \in Digests
    BY PollTypes, IdleTypes DEF Init
  <2>3. cursor \in [Streams -> 0..MaxEvents] /\ due \in [Ids -> SUBSET Users]
    BY DelegatorAssumption DEF Init
  <2>4. Len(chain) <= MaxEvents /\ churn \in 0..MaxChurn /\ faults \in 0..MaxFaults
    BY <2>1, DelegatorAssumption DEF Init
  <2>5. /\ bonded \subseteq Pairs /\ booted \in BOOLEAN /\ rows \subseteq Users \X Orchs
        /\ stored = {} /\ sent = {} /\ history = {} /\ told = {} /\ resent = {} /\ toldNew = {}
    BY DelegatorAssumption DEF Init
  <2>. QED BY <2>1, <2>2, <2>3, <2>4, <2>5 DEF TypeOK
<1>2. DOMAIN chain = {} /\ Len(chain) = 0
  BY DEF Init
<1>3. ChainInv /\ PollInv
  BY <1>2, PollTypes DEF Init, ChainInv, PollInv, StoredUpTo
<1>4. BatchInv /\ DueInv /\ MarkedMeansAttempted /\ ToldInv /\ FreshInv
  BY IdleTypes DEF Init, BatchInv, DueInv, MarkedMeansAttempted, ToldInv, FreshInv, InDigest
<1>. QED BY <1>1, <1>3, <1>4 DEF IInv

-----------------------------------------------------------------------------
(* What a step leaves alone keeps its part of the invariant.               *)

LEMMA ChainFrame == ASSUME ChainInv, UNCHANGED chain PROVE ChainInv'
BY DEF ChainInv

LEMMA PollFrame ==
    ASSUME PollInv, UNCHANGED <<chain, cursor, stored, poll>> PROVE PollInv'
BY DEF PollInv, StoredUpTo

LEMMA DigestFrame ==
    ASSUME TypeOK, BatchInv, DueInv, MarkedMeansAttempted, ToldInv, faults' \in Nat,
           faults <= faults', UNCHANGED <<chain, rows, stored, sent, digest, told, resent, due>>
    PROVE  BatchInv' /\ DueInv' /\ MarkedMeansAttempted' /\ ToldInv'
<1>1. BatchInv' /\ DueInv' /\ MarkedMeansAttempted'
  BY DEF BatchInv, DueInv, MarkedMeansAttempted, InDigest, OrchOf, Subscribers
<1>2. faults \in Nat
  BY DelegatorAssumption DEF TypeOK
<1>3. ToldInv'
  BY <1>2 DEF ToldInv, Settled, InDigest, OrchOf
<1>. QED BY <1>1, <1>3

LEMMA FreshFrame ==
    ASSUME FreshInv, UNCHANGED <<chain, stored>>,
           toldNew' \union digest'.fresh \subseteq toldNew \union digest.fresh
    PROVE  FreshInv'
BY DEF FreshInv, FirstBond

\* Steps of the explorer, of the seed and of the poller that store nothing.
LEMMA QuietFrame ==
    ASSUME IInv, TypeOK', PollInv', faults <= faults',
           UNCHANGED <<chain, rows, stored, sent, digest, told, resent, toldNew, due>>
    PROVE  IInv'
<1>1. faults' \in Nat
  BY DelegatorAssumption DEF TypeOK
<1>2. BatchInv' /\ DueInv' /\ MarkedMeansAttempted' /\ ToldInv'
  BY <1>1, DigestFrame DEF IInv
<1>3. FreshInv'
  BY FreshFrame DEF IInv
<1>4. ChainInv'
  BY ChainFrame DEF IInv
<1>. QED BY <1>2, <1>3, <1>4 DEF IInv

\* Steps of the digest.
LEMMA DigestStepFrame ==
    ASSUME IInv, TypeOK', UNCHANGED <<chain, cursor, stored, poll>>,
           BatchInv', DueInv', MarkedMeansAttempted', ToldInv',
           toldNew' \union digest'.fresh \subseteq toldNew \union digest.fresh
    PROVE  IInv'
BY ChainFrame, PollFrame, FreshFrame DEF IInv

-----------------------------------------------------------------------------
(* The explorer, the seed and the commands.                                *)

LEMMA HappenStep == ASSUME NEW k \in Streams, NEW p \in Pairs PROVE IInv /\ Happen(k, p) => IInv'
<1>. SUFFICES ASSUME IInv, Happen(k, p) PROVE IInv'
  OBVIOUS
<1>1. /\ TypeOK /\ ChainInv /\ PollInv /\ BatchInv /\ DueInv /\ MarkedMeansAttempted /\ ToldInv
      /\ FreshInv /\ Len(chain) < MaxEvents /\ bonded' = bonded \union {p}
      /\ UNCHANGED <<booted, tableVars, poll, digest, ghostVars, churn, faults>>
  BY DEF IInv, Happen
<1>2. PICK at \in IF chain = <<>> THEN {0} ELSE {chain[Len(chain)].at, chain[Len(chain)].at + 1} :
            chain' = Append(chain, [name |-> k, pair |-> p, at |-> at])
  BY DEF Happen
<1>3. /\ Len(chain) \in Nat /\ DOMAIN chain = 1..Len(chain) /\ DOMAIN chain \subseteq Ids
      /\ \A e \in DOMAIN chain : e \in Nat /\ chain[e].at \in Nat
  BY <1>1, ChainTypes
<1>4. /\ at \in Nat /\ at <= Len(chain)
      /\ \A e \in DOMAIN chain : chain[e].at <= at
  <2>1. CASE chain = <<>>
    BY <1>2, <1>3, <2>1
  <2>2. CASE chain # <<>>
    <3>1. chain \in Seq(Events)
      BY <1>1 DEF TypeOK
    <3>2. Len(chain) \in DOMAIN chain
      BY <1>3, <2>2, <3>1
    <3>3. /\ chain[Len(chain)].at < Len(chain) /\ chain[Len(chain)].at \in Nat
          /\ \A e \in DOMAIN chain : chain[e].at <= chain[Len(chain)].at
      BY <1>1, <1>3, <3>2 DEF ChainInv
    <3>4. at = chain[Len(chain)].at \/ at = chain[Len(chain)].at + 1
      BY <1>2, <2>2
    <3>. QED BY <1>3, <3>3, <3>4
  <2>. QED BY <2>1, <2>2
<1>. DEFINE n == [name |-> k, pair |-> p, at |-> at]
<1>5. n \in Events /\ n.name = k /\ n.at = at
  BY <1>1, <1>3, <1>4, DelegatorAssumption DEF Events
<1>. HIDE DEF n
<1>6. /\ chain' \in Seq(Events) /\ Len(chain') = Len(chain) + 1
      /\ DOMAIN chain' = 1..Len(chain) + 1 /\ chain'[Len(chain) + 1] = n
      /\ \A e \in DOMAIN chain : chain'[e] = chain[e]
  <2>1. chain \in Seq(Events) /\ chain' = Append(chain, n)
    BY <1>1, <1>2 DEF TypeOK, n
  <2>. QED BY <1>3, <1>5, <2>1
<1>7. stored \subseteq DOMAIN chain /\ stored \subseteq DOMAIN chain' /\ stored' = stored
      /\ digest.batch \subseteq DOMAIN chain
  BY <1>1, <1>3, <1>6 DEF TypeOK, BatchInv, tableVars
<1>8. TypeOK'
  <2>1. Len(chain') <= MaxEvents
    BY <1>1, <1>3, <1>6, DelegatorAssumption
  <2>. QED BY <1>1, <1>6, <1>7, <2>1 DEF TypeOK, tableVars, ghostVars
<1>9. ChainInv'
  BY <1>1, <1>3, <1>4, <1>5, <1>6 DEF ChainInv
<1>10. PollInv'
  <2>1. ASSUME NEW name, NEW m \in Int, m <= Len(chain), NEW S, StoredUpTo(name, m, S)
        PROVE  StoredUpTo(name, m, S)'
    BY <1>3, <1>6, <1>7, <2>1 DEF StoredUpTo
  <2>2. /\ poll' = poll /\ cursor' = cursor /\ poll.upto \in Nat
        /\ \A j \in Streams : cursor[j] \in Nat
    BY <1>1, DelegatorAssumption DEF TypeOK, Polls, tableVars
  <2>3. \A j \in Streams : cursor'[j] <= Len(chain') /\ StoredUpTo(j, cursor[j], {})'
    BY <1>1, <1>3, <1>6, <2>1, <2>2 DEF PollInv
  <2>4. poll'.upto <= Len(chain') /\ StoredUpTo(poll.k, poll.upto, poll.todo)'
    BY <1>1, <1>3, <1>6, <2>1, <2>2 DEF PollInv
  <2>5. \A e \in poll'.todo : e \in DOMAIN chain' /\ chain'[e].name = poll'.k /\ e <= poll'.upto
    BY <1>1, <1>3, <1>6, <2>2 DEF PollInv
  <2>6. ASSUME NEW e \in stored, NEW f \in DOMAIN chain', chain'[f].name = chain'[e].name, f <= e
        PROVE  f \in stored
    <3>1. e \in DOMAIN chain /\ f \in DOMAIN chain
      BY <1>3, <1>6, <1>7, <2>6
    <3>. QED BY <1>1, <1>6, <2>6, <3>1 DEF PollInv, StoredUpTo
  <2>7. (\A e \in stored : StoredUpTo(chain[e].name, e, {}))'
    BY <1>7, <2>6 DEF StoredUpTo
  <2>. QED BY <2>2, <2>3, <2>4, <2>5, <2>7 DEF PollInv
<1>11. BatchInv' /\ DueInv' /\ MarkedMeansAttempted' /\ ToldInv' /\ FreshInv'
  <2>1. /\ \A e \in DOMAIN chain : OrchOf(e)' = OrchOf(e)
        /\ UNCHANGED <<rows, sent, stored, digest, told, resent, toldNew, due, faults>>
    BY <1>1, <1>6 DEF OrchOf, tableVars, ghostVars
  <2>2. InDigest' = InDigest
    BY <1>7, <2>1 DEF InDigest
  <2>3. BatchInv'
    BY <1>1, <1>6, <1>7, <2>1 DEF BatchInv
  <2>4. DueInv' /\ MarkedMeansAttempted'
    BY <1>1, <1>7, <2>1, <2>2 DEF DueInv, MarkedMeansAttempted, Subscribers
  <2>5. ToldInv'
    BY <1>1, <2>1, <2>2 DEF ToldInv, Settled
  <2>6. FreshInv'
    BY <1>1, <1>6, <1>7, <2>1 DEF FreshInv, FirstBond
  <2>. QED BY <2>3, <2>4, <2>5, <2>6
<1>. QED BY <1>8, <1>9, <1>10, <1>11 DEF IInv

LEMMA SeedAllStep == IInv /\ SeedAll => IInv'
<1>. SUFFICES ASSUME IInv, SeedAll PROVE IInv'
  OBVIOUS
<1>1. TypeOK /\ PollInv
  BY DEF IInv
<1>2. /\ booted' = TRUE /\ history' = history \union ListedPairs({r[2] : r \in rows})
      /\ UNCHANGED <<explorerVars, rows, cursor, stored, sent, poll, digest, ghostVars, churn,
                     faults>>
  BY DEF SeedAll
<1>3. TypeOK'
  <2>1. history' \subseteq Pairs
    BY <1>1, <1>2 DEF TypeOK, ListedPairs
  <2>. QED BY <1>1, <1>2, <2>1 DEF TypeOK, explorerVars, ghostVars
<1>4. faults <= faults'
  BY <1>1, <1>2, DelegatorAssumption DEF TypeOK
<1>. QED BY <1>1, <1>2, <1>3, <1>4, PollFrame, QuietFrame DEF explorerVars, ghostVars

LEMMA SubscribeStep ==
    ASSUME NEW u \in Users, NEW o \in Orchs PROVE IInv /\ Subscribe(u, o) => IInv'
<1>. SUFFICES ASSUME IInv, Subscribe(u, o) PROVE IInv'
  OBVIOUS
<1>1. TypeOK /\ BatchInv /\ DueInv /\ MarkedMeansAttempted /\ ToldInv
  BY DEF IInv
<1>2. /\ rows' = rows \union {<<u, o>>} /\ history' = history \union ListedPairs({o})
      /\ churn < MaxChurn /\ churn' = churn + 1
      /\ UNCHANGED <<explorerVars, booted, cursor, stored, sent, poll, digest, ghostVars, faults>>
  BY DEF Subscribe
<1>3. TypeOK'
  <2>1. history' \subseteq Pairs /\ rows' \subseteq Users \X Orchs /\ churn' \in 0..MaxChurn
    BY <1>1, <1>2, DelegatorAssumption DEF TypeOK, ListedPairs
  <2>. QED BY <1>1, <1>2, <2>1 DEF TypeOK, explorerVars, ghostVars
<1>4. BatchInv' /\ DueInv' /\ MarkedMeansAttempted' /\ ToldInv'
  <2>1. \A x \in Orchs : Subscribers(x) \subseteq Subscribers(x)'
    BY <1>2 DEF Subscribers
  <2>2. \A e \in stored : OrchOf(e) \in Orchs /\ OrchOf(e)' = OrchOf(e)
    BY <1>1, <1>2, ChainTypes DEF TypeOK, OrchOf, explorerVars
  <2>3. InDigest' = InDigest
    BY <1>2 DEF InDigest, OrchOf, explorerVars
  <2>4. DueInv'
    BY <1>1, <1>2, <2>1, <2>2, <2>3 DEF DueInv, ghostVars
  <2>5. BatchInv' /\ MarkedMeansAttempted'
    BY <1>1, <1>2 DEF BatchInv, MarkedMeansAttempted, OrchOf, explorerVars, ghostVars
  <2>6. ToldInv'
    BY <1>1, <1>2, <2>3 DEF ToldInv, Settled, ghostVars
  <2>. QED BY <2>4, <2>5, <2>6
<1>. QED BY <1>2, <1>3, <1>4, DigestStepFrame DEF explorerVars, ghostVars

LEMMA UnsubscribeStep ==
    ASSUME NEW u \in Users, NEW o \in Orchs PROVE IInv /\ Unsubscribe(u, o) => IInv'
<1>. SUFFICES ASSUME IInv, Unsubscribe(u, o) PROVE IInv'
  OBVIOUS
<1>1. TypeOK /\ BatchInv /\ DueInv /\ MarkedMeansAttempted /\ ToldInv
  BY DEF IInv
<1>2. /\ rows' = rows \ {<<u, o>>} /\ churn < MaxChurn /\ churn' = churn + 1
      /\ due' = [e \in Ids |-> IF e \in stored /\ OrchOf(e) = o THEN due[e] \ {u} ELSE due[e]]
      /\ UNCHANGED <<explorerVars, booted, cursor, stored, sent, history, poll, digest, told,
                     resent, toldNew, faults>>
  BY DEF Unsubscribe
<1>3. TypeOK'
  <2>1. rows' \subseteq Users \X Orchs /\ churn' \in 0..MaxChurn /\ due' \in [Ids -> SUBSET Users]
    BY <1>1, <1>2, DelegatorAssumption DEF TypeOK
  <2>. QED BY <1>1, <1>2, <2>1 DEF TypeOK, explorerVars
<1>4. BatchInv' /\ DueInv' /\ MarkedMeansAttempted' /\ ToldInv'
  <2>1. stored \subseteq Ids /\ sent \subseteq stored /\ digest.batch \subseteq stored
        /\ digest.done \subseteq stored
    BY <1>1, ChainTypes DEF TypeOK, BatchInv
  <2>2. \A e \in Ids : OrchOf(e)' = OrchOf(e) /\ due'[e] \subseteq due[e]
    BY <1>2 DEF OrchOf, explorerVars
  <2>3. InDigest' = InDigest /\ InDigest \subseteq stored
    BY <1>2, <2>1 DEF InDigest, OrchOf, explorerVars
  <2>4. DueInv'
    <3>1. ASSUME NEW e \in stored PROVE due'[e] \subseteq Subscribers(OrchOf(e))'
      <4>1. due[e] \subseteq Subscribers(OrchOf(e))
        BY <1>1 DEF DueInv
      <4>2. CASE OrchOf(e) = o
        BY <1>2, <2>1, <2>2, <4>1, <4>2 DEF Subscribers
      <4>3. CASE OrchOf(e) # o
        BY <1>2, <2>1, <2>2, <4>1, <4>3 DEF Subscribers
      <4>. QED BY <4>2, <4>3
    <3>2. \A e \in InDigest : due'[e] \subseteq digest.subs
      BY <1>1, <2>1, <2>2, <2>3 DEF DueInv
    <3>3. \A e \in digest.done : due'[e] = {}
      BY <1>1, <2>1, <2>2 DEF DueInv
    <3>. QED BY <1>2, <2>3, <3>1, <3>2, <3>3 DEF DueInv
  <2>5. BatchInv'
    BY <1>1, <1>2 DEF BatchInv, OrchOf, explorerVars
  <2>6. MarkedMeansAttempted'
    BY <1>1, <1>2, <2>1, <2>2 DEF MarkedMeansAttempted
  <2>7. ToldInv'
    BY <1>1, <1>2, <2>3 DEF ToldInv, Settled
  <2>. QED BY <2>4, <2>5, <2>6, <2>7
<1>. QED BY <1>2, <1>3, <1>4, DigestStepFrame DEF explorerVars

-----------------------------------------------------------------------------
(* The poller.                                                             *)

\* A tick that goes on to the next stream, or ends.
LEMMA NextStreamInv ==
    ASSUME TypeOK, PollInv, poll' \in Polls, poll'.upto = 0, poll'.todo = {},
           UNCHANGED <<chain, stored>>, cursor' \in [Streams -> 0..MaxEvents],
           \A k \in Streams : cursor'[k] <= Len(chain) /\ StoredUpTo(k, cursor'[k], {})
    PROVE  PollInv'
<1>1. Len(chain) \in Nat /\ DOMAIN chain = 1..Len(chain)
  BY ChainTypes
<1>2. \A k \in Streams : StoredUpTo(k, 0, {})'
  BY <1>1 DEF StoredUpTo
<1>3. poll'.k \in Streams
  BY DEF Polls
<1>. QED BY <1>1, <1>2, <1>3 DEF PollInv, StoredUpTo

LEMMA ListStep == IInv /\ List => IInv'
<1>. SUFFICES ASSUME IInv, List PROVE IInv'
  OBVIOUS
<1>. DEFINE page == {e \in DOMAIN chain : e > cursor[poll.k] /\ chain[e].name = poll.k}
            n == [poll EXCEPT !.pc = "insert", !.todo = page, !.upto = PageEnd]
<1>1. /\ TypeOK /\ PollInv /\ poll \in Polls
      /\ poll' = NextStream \/ poll' = n
      /\ UNCHANGED <<explorerVars, booted, tableVars, digest, ghostVars, churn, faults>>
  BY DEF IInv, TypeOK, List
<1>2. /\ Len(chain) \in Nat /\ DOMAIN chain = 1..Len(chain) /\ DOMAIN chain \subseteq Ids
      /\ PageEnd = Len(chain) /\ PageEnd \in 0..MaxEvents
  BY <1>1, ChainTypes, DelegatorAssumption DEF PageEnd, TypeOK
<1>3. poll.k \in Streams /\ cursor[poll.k] \in Nat /\ StoredUpTo(poll.k, cursor[poll.k], {})
  BY <1>1, DelegatorAssumption DEF TypeOK, Polls, PollInv
<1>4. page \in SUBSET Ids /\ StoredUpTo(poll.k, Len(chain), page)
  BY <1>2, <1>3 DEF StoredUpTo
<1>5. \A e \in page : e \in DOMAIN chain /\ chain[e].name = poll.k /\ e <= Len(chain)
  BY <1>2
<1>. HIDE DEF page
<1>6. n \in Polls /\ n.k = poll.k /\ n.todo = page /\ n.upto = Len(chain)
  BY <1>1, <1>2, <1>4 DEF Polls
<1>. HIDE DEF n
<1>7. TypeOK'
  BY <1>1, <1>6, PollTypes DEF TypeOK, explorerVars, tableVars, ghostVars
<1>8. PollInv'
  <2>1. CASE poll' = NextStream
    <3>1. cursor' = cursor /\ cursor \in [Streams -> 0..MaxEvents]
          /\ UNCHANGED <<chain, stored>>
      BY <1>1 DEF TypeOK, explorerVars, tableVars
    <3>2. \A k \in Streams : cursor'[k] <= Len(chain) /\ StoredUpTo(k, cursor'[k], {})
      BY <1>1, <3>1 DEF PollInv
    <3>. QED BY <1>1, <2>1, <3>1, <3>2, NextStreamInv, PollTypes
  <2>2. CASE poll' = n
    BY <1>1, <1>2, <1>4, <1>5, <1>6, <2>2 DEF PollInv, StoredUpTo, explorerVars, tableVars
  <2>. QED BY <1>1, <2>1, <2>2
<1>9. faults <= faults'
  BY <1>1, DelegatorAssumption DEF TypeOK
<1>. QED BY <1>1, <1>7, <1>8, <1>9, QuietFrame DEF explorerVars, tableVars, ghostVars

LEMMA EndPageStep == IInv /\ EndPage => IInv'
<1>. SUFFICES ASSUME IInv, EndPage PROVE IInv'
  OBVIOUS
<1>1. /\ TypeOK /\ PollInv /\ poll \in Polls /\ poll.todo = {} /\ poll' = NextStream
      /\ cursor' = cursor \/ cursor' = [cursor EXCEPT ![poll.k] = poll.upto]
      /\ UNCHANGED <<explorerVars, booted, rows, stored, sent, history, digest, ghostVars, churn,
                     faults>>
  BY DEF IInv, TypeOK, EndPage
<1>2. /\ poll.k \in Streams /\ poll.upto \in 0..MaxEvents /\ poll.upto <= Len(chain)
      /\ StoredUpTo(poll.k, poll.upto, {}) /\ cursor \in [Streams -> 0..MaxEvents]
  BY <1>1 DEF TypeOK, Polls, PollInv
<1>3. cursor' \in [Streams -> 0..MaxEvents]
  BY <1>1, <1>2
<1>4. \A k \in Streams : cursor'[k] <= Len(chain) /\ StoredUpTo(k, cursor'[k], {})
  <2>1. CASE cursor' = cursor
    BY <1>1, <2>1 DEF PollInv
  <2>2. CASE cursor' = [cursor EXCEPT ![poll.k] = poll.upto]
    <3>1. ASSUME NEW k \in Streams
          PROVE  cursor'[k] <= Len(chain) /\ StoredUpTo(k, cursor'[k], {})
      <4>1. CASE k = poll.k
        BY <1>2, <2>2, <4>1
      <4>2. CASE k # poll.k
        BY <1>1, <1>2, <2>2, <4>2 DEF PollInv
      <4>. QED BY <4>1, <4>2
    <3>. QED BY <3>1
  <2>. QED BY <1>1, <2>1, <2>2
<1>5. TypeOK'
  BY <1>1, <1>3, PollTypes DEF TypeOK, explorerVars, ghostVars
<1>6. PollInv'
  BY <1>1, <1>3, <1>4, NextStreamInv, PollTypes DEF explorerVars
<1>7. faults <= faults'
  BY <1>1, DelegatorAssumption DEF TypeOK
<1>. QED BY <1>1, <1>5, <1>6, <1>7, QuietFrame DEF explorerVars, ghostVars

LEMMA StreamFailsStep == IInv /\ StreamFails => IInv'
<1>. SUFFICES ASSUME IInv, StreamFails PROVE IInv'
  OBVIOUS
<1>1. /\ TypeOK /\ PollInv /\ poll' = NextStream /\ faults < MaxFaults /\ faults' = faults + 1
      /\ UNCHANGED <<explorerVars, booted, tableVars, digest, ghostVars, churn>>
  BY DEF IInv, StreamFails, Fault
<1>2. faults' \in 0..MaxFaults /\ faults <= faults'
  BY <1>1, DelegatorAssumption DEF TypeOK
<1>3. TypeOK'
  BY <1>1, <1>2, PollTypes DEF TypeOK, explorerVars, tableVars, ghostVars
<1>4. PollInv'
  <2>1. cursor' = cursor /\ cursor \in [Streams -> 0..MaxEvents] /\ UNCHANGED <<chain, stored>>
    BY <1>1 DEF TypeOK, explorerVars, tableVars
  <2>2. \A k \in Streams : cursor'[k] <= Len(chain) /\ StoredUpTo(k, cursor'[k], {})
    BY <1>1, <2>1 DEF PollInv
  <2>. QED BY <1>1, <2>1, <2>2, NextStreamInv, PollTypes
<1>. QED BY <1>1, <1>2, <1>3, <1>4, QuietFrame DEF explorerVars, tableVars, ghostVars

LEMMA InsertRowStep == ASSUME NEW e \in Ids PROVE IInv /\ InsertRow(e) => IInv'
<1>. SUFFICES ASSUME IInv, InsertRow(e) PROVE IInv'
  OBVIOUS
<1>. DEFINE n == [poll EXCEPT !.todo = @ \ {e}]
<1>1. /\ TypeOK /\ ChainInv /\ PollInv /\ BatchInv /\ DueInv /\ MarkedMeansAttempted /\ ToldInv
      /\ FreshInv /\ poll \in Polls /\ poll' = n /\ e \in poll.todo /\ \A f \in poll.todo : e <= f
      /\ stored' = stored \union {e}
      /\ due' = IF e \in stored THEN due ELSE [due EXCEPT ![e] = Subscribers(OrchOf(e))]
      /\ UNCHANGED <<explorerVars, booted, rows, cursor, sent, digest, told, resent, toldNew,
                     churn, faults>>
  BY DEF IInv, TypeOK, InsertRow
<1>2. /\ Len(chain) \in Nat /\ DOMAIN chain = 1..Len(chain) /\ DOMAIN chain \subseteq Ids
      /\ \A f \in DOMAIN chain : /\ f \in Nat /\ chain[f].name \in Streams /\ chain[f].pair \in Pairs
                                 /\ chain[f].at \in Nat
      /\ chain' = chain
  BY <1>1, ChainTypes DEF explorerVars
<1>3. e \in DOMAIN chain /\ chain[e].name = poll.k /\ e <= poll.upto /\ poll.upto \in Nat
  BY <1>1, DelegatorAssumption DEF PollInv, Polls
<1>4. n \in Polls /\ n.k = poll.k /\ n.todo = poll.todo \ {e} /\ n.upto = poll.upto
  BY <1>1 DEF Polls
<1>. HIDE DEF n
<1>5. stored \subseteq DOMAIN chain /\ sent \subseteq stored /\ due \in [Ids -> SUBSET Users]
      /\ digest.batch \subseteq stored /\ digest.done \subseteq stored /\ InDigest \subseteq stored
  BY <1>1 DEF TypeOK, BatchInv, InDigest
<1>6. \A f \in stored : due'[f] = due[f]
  BY <1>1, <1>2, <1>5
<1>7. TypeOK'
  <2>1. due' \in [Ids -> SUBSET Users]
    BY <1>1, <1>5 DEF Subscribers
  <2>2. history' \subseteq Pairs
    <3>1. history' = history \/ history' = history \union {chain[e].pair}
      BY DEF InsertRow
    <3>. QED BY <1>1, <1>2, <1>3, <3>1 DEF TypeOK
  <2>3. stored' \subseteq DOMAIN chain' /\ sent' \subseteq stored' /\ told' \subseteq Users \X stored'
        /\ toldNew' \subseteq stored'
    BY <1>1, <1>2, <1>3, <1>5 DEF TypeOK
  <2>. QED BY <1>1, <1>4, <2>1, <2>2, <2>3 DEF TypeOK, explorerVars
\* The events of the stream before e are stored: the page is worked off in its order.
<1>8. StoredUpTo(poll.k, e, {e})
  <2>1. ASSUME NEW f \in DOMAIN chain, chain[f].name = poll.k, f <= e, f # e PROVE f \in stored
    <3>1. f \notin poll.todo
      BY <1>1, <1>2, <1>3, <2>1
    <3>2. f <= poll.upto
      BY <1>2, <1>3, <2>1
    <3>. QED BY <1>1, <2>1, <3>1, <3>2 DEF PollInv, StoredUpTo
  <2>. QED BY <2>1 DEF StoredUpTo
<1>9. PollInv'
  <2>1. /\ \A k \in Streams : cursor[k] <= Len(chain) /\ StoredUpTo(k, cursor[k], {})'
        /\ cursor' = cursor
    BY <1>1, <1>2 DEF PollInv, StoredUpTo
  <2>2. StoredUpTo(poll.k, poll.upto, poll.todo)'
    BY <1>1, <1>2, <1>4 DEF PollInv, StoredUpTo
  <2>3. (\A f \in stored : StoredUpTo(chain[f].name, f, {}))'
    BY <1>1, <1>2, <1>3, <1>8 DEF PollInv, StoredUpTo
  <2>4. poll'.upto <= Len(chain')
        /\ \A f \in poll'.todo : f \in DOMAIN chain' /\ chain'[f].name = poll'.k /\ f <= poll'.upto
    BY <1>1, <1>2, <1>4 DEF PollInv
  <2>. QED BY <1>2, <2>1, <2>2, <2>3, <2>4 DEF PollInv
<1>10. BatchInv' /\ DueInv' /\ MarkedMeansAttempted' /\ ToldInv'
  <2>1. InDigest' = InDigest /\ \A f \in Ids : OrchOf(f)' = OrchOf(f)
    BY <1>1, <1>2 DEF InDigest, OrchOf
  <2>2. BatchInv'
    BY <1>1, <1>2, <1>5 DEF BatchInv, OrchOf
  <2>3. DueInv'
    <3>1. ASSUME NEW f \in stored' PROVE due'[f] \subseteq Subscribers(OrchOf(f))'
      <4>1. Subscribers(OrchOf(f))' = Subscribers(OrchOf(f))
        BY <1>1, <1>2 DEF Subscribers, OrchOf
      <4>2. CASE f \in stored
        BY <1>1, <1>6, <4>1, <4>2 DEF DueInv
      <4>3. CASE f \notin stored
        BY <1>1, <1>5, <4>1, <4>3
      <4>. QED BY <4>2, <4>3
    <3>2. (\A f \in InDigest : due[f] \subseteq digest.subs)'
      BY <1>1, <1>5, <1>6, <2>1 DEF DueInv
    <3>3. (\A f \in digest.done : due[f] = {})'
      BY <1>1, <1>5, <1>6 DEF DueInv
    <3>. QED BY <3>1, <3>2, <3>3 DEF DueInv
  <2>4. MarkedMeansAttempted'
    BY <1>1, <1>5, <1>6 DEF MarkedMeansAttempted
  <2>5. ToldInv'
    BY <1>1, <2>1 DEF ToldInv, Settled
  <2>. QED BY <2>2, <2>3, <2>4, <2>5
<1>11. FreshInv'
  <2>1. ASSUME NEW f, FirstBond(f) PROVE FirstBond(f)'
    <3>1. f \in stored /\ chain[f].name = 1 /\ f \in DOMAIN chain
      BY <1>5, <2>1 DEF FirstBond
    <3>2. ASSUME chain[e].name = 1, e \notin stored PROVE chain[e].at >= chain[f].at
      <4>1. ~(e <= f)
        BY <1>1, <1>3, <3>1, <3>2 DEF PollInv, StoredUpTo
      <4>2. f <= e
        BY <1>2, <1>3, <3>1, <4>1
      <4>. QED BY <1>1, <1>2, <1>3, <3>1, <4>2 DEF ChainInv
    <3>. QED BY <1>1, <1>2, <2>1, <3>1, <3>2 DEF FirstBond
  <2>. QED BY <1>1, <2>1 DEF FreshInv
<1>12. ChainInv'
  BY <1>1, <1>2, ChainFrame
<1>. QED BY <1>7, <1>9, <1>10, <1>11, <1>12 DEF IInv

-----------------------------------------------------------------------------
(* The digest.                                                             *)

LEMMA FetchUnsentStep == IInv /\ FetchUnsent => IInv'
<1>. SUFFICES ASSUME IInv, FetchUnsent PROVE IInv'
  OBVIOUS
<1>1. /\ TypeOK /\ BatchInv /\ DueInv /\ MarkedMeansAttempted /\ ToldInv /\ digest.pc = "idle"
      /\ UNCHANGED <<explorerVars, booted, tableVars, poll, ghostVars, churn, faults>>
  BY DEF IInv, FetchUnsent
<1>2. PICK B \in SUBSET (stored \ sent) : digest' = NewDigest("orch", B, {OrchOf(e) : e \in B})
  BY DEF FetchUnsent
<1>. DEFINE O == {OrchOf(e) : e \in B}
<1>3. B \in SUBSET Ids /\ O \in SUBSET Orchs
  BY <1>1, <1>2, ChainTypes DEF TypeOK
<1>. HIDE DEF O
<1>4. /\ digest' = NewDigest("orch", B, O) /\ digest' \in Digests /\ digest'.pc = "orch"
      /\ digest'.batch = B /\ digest'.orch = {} /\ digest'.bonds = {}
      /\ digest'.fresh = {} /\ digest'.done = {}
  <2>1. digest' = NewDigest("orch", B, O)
    BY <1>2 DEF O
  <2>. QED BY <1>3, <2>1 DEF NewDigest, Digests
<1>5. InDigest = {} /\ InDigest' = {} /\ digest.done = {}
  BY <1>1, <1>4 DEF InDigest, BatchInv
<1>6. TypeOK'
  BY <1>1, <1>4 DEF TypeOK, explorerVars, tableVars, ghostVars
<1>7. BatchInv'
  BY <1>1, <1>4 DEF BatchInv, tableVars
<1>8. DueInv' /\ MarkedMeansAttempted'
  BY <1>1, <1>4, <1>5 DEF DueInv, MarkedMeansAttempted, Subscribers, OrchOf, explorerVars, tableVars,
     ghostVars
<1>9. ToldInv'
  BY <1>1, <1>4, <1>5 DEF ToldInv, Settled, tableVars, ghostVars
<1>. QED BY <1>1, <1>4, <1>6, <1>7, <1>8, <1>9, DigestStepFrame DEF explorerVars, tableVars, ghostVars

LEMMA FindSubsStep == ASSUME NEW o \in Orchs PROVE IInv /\ FindSubs(o) => IInv'
<1>. SUFFICES ASSUME IInv, FindSubs(o) PROVE IInv'
  OBVIOUS
<1>. DEFINE events == {e \in digest.batch : OrchOf(e) = o}
            bonds == {e \in events : chain[e].name = 1}
            a == [digest EXCEPT !.orchs = @ \ {o}, !.done = @ \union events]
            b == [digest EXCEPT !.orchs = @ \ {o}, !.orch = {o}, !.pc = "label",
                                !.subs = Subscribers(o), !.bonds = bonds]
<1>1. /\ TypeOK /\ BatchInv /\ DueInv /\ MarkedMeansAttempted /\ ToldInv /\ digest.pc = "orch"
      /\ o \in digest.orchs /\ digest \in Digests
      /\ (Subscribers(o) = {} /\ digest' = a) \/ digest' = b
      /\ UNCHANGED <<explorerVars, booted, tableVars, poll, ghostVars, churn, faults>>
  BY DEF IInv, TypeOK, FindSubs
<1>2. /\ events \subseteq digest.batch /\ bonds \subseteq events /\ digest.orch = {}
      /\ \A e \in bonds : chain[e].name = 1
      /\ \A e \in events : OrchOf(e) = o
      /\ InDigest = {}
  BY <1>1 DEF BatchInv, InDigest
<1>3. a \in Digests /\ a.orchs = digest.orchs \ {o} /\ a.done = digest.done \union events
      /\ a.pc = "orch" /\ a.batch = digest.batch /\ a.orch = {} /\ a.subs = digest.subs
      /\ a.bonds = digest.bonds /\ a.fresh = digest.fresh
  BY <1>1, <1>2 DEF Digests
<1>4. b \in Digests /\ b.orchs = digest.orchs \ {o} /\ b.done = digest.done
      /\ b.pc = "label" /\ b.batch = digest.batch /\ b.orch = {o} /\ b.subs = Subscribers(o)
      /\ b.bonds = bonds /\ b.fresh = digest.fresh
  BY <1>1, <1>2 DEF Digests, Subscribers
<1>5. \A e \in digest.batch : OrchOf(e) = o <=> e \in events
  OBVIOUS
<1>. HIDE DEF a, b, events, bonds
<1>6. TypeOK'
  BY <1>1, <1>3, <1>4 DEF TypeOK, explorerVars, tableVars, ghostVars
<1>7. /\ \A e \in Ids : OrchOf(e)' = OrchOf(e)
      /\ \A x \in Orchs : Subscribers(x)' = Subscribers(x)
      /\ stored \subseteq Ids /\ digest.batch \subseteq stored /\ digest.done \subseteq digest.batch
      /\ UNCHANGED <<chain, stored, sent, told, resent, toldNew, due, faults>>
  BY <1>1, ChainTypes DEF OrchOf, Subscribers, explorerVars, tableVars, ghostVars, TypeOK, BatchInv
<1>8. CASE Subscribers(o) = {} /\ digest' = a
  <2>1. InDigest' = {}
    BY <1>3, <1>8 DEF InDigest
  <2>2. BatchInv'
    BY <1>1, <1>2, <1>3, <1>7, <1>8 DEF BatchInv
  <2>3. \A e \in events : due[e] = {}
    BY <1>1, <1>2, <1>7, <1>8 DEF DueInv
  <2>4. DueInv' /\ MarkedMeansAttempted'
    BY <1>1, <1>3, <1>7, <1>8, <2>1, <2>3, ChainTypes DEF DueInv, MarkedMeansAttempted, TypeOK
  <2>5. ToldInv'
    BY <1>1, <1>2, <1>3, <1>7, <1>8 DEF ToldInv, Settled
  <2>. QED BY <1>3, <1>6, <1>8, <1>1, <1>7, <2>2, <2>4, <2>5, DigestStepFrame DEF tableVars
<1>9. CASE digest' = b
  <2>1. InDigest' = events
    BY <1>2, <1>4, <1>5, <1>7, <1>9 DEF InDigest
  <2>2. BatchInv'
    BY <1>1, <1>2, <1>4, <1>7, <1>9 DEF BatchInv
  <2>3. \A e \in events : due[e] \subseteq Subscribers(o)
    BY <1>1, <1>2, <1>7 DEF DueInv
  <2>4. DueInv' /\ MarkedMeansAttempted'
    BY <1>1, <1>4, <1>7, <1>9, <2>1, <2>3, ChainTypes DEF DueInv, MarkedMeansAttempted, TypeOK
  <2>5. ToldInv'
    BY <1>1, <1>2, <1>4, <1>7, <1>9 DEF ToldInv, Settled
  <2>. QED BY <1>4, <1>6, <1>9, <1>1, <1>7, <2>2, <2>4, <2>5, DigestStepFrame DEF tableVars
<1>. QED BY <1>1, <1>8, <1>9

\* A step of the digest that touches neither who is in turn nor what is done.
LEMMA SameTurnFrame ==
    ASSUME IInv, digest' \in Digests, faults' \in 0..MaxFaults, faults <= faults',
           digest'.pc \in {"label", "send"}, digest.pc \in {"label", "send"},
           digest'.batch = digest.batch, digest'.orchs = digest.orchs, digest'.orch = digest.orch,
           digest'.subs = digest.subs, digest'.done = digest.done,
           \A e \in digest'.bonds \union digest'.fresh : e \in digest.bonds \union digest.fresh,
           digest'.fresh \subseteq digest.fresh \union {e \in stored : FirstBond(e)},
           UNCHANGED <<explorerVars, booted, tableVars, poll, ghostVars, churn>>
    PROVE  IInv'
<1>1. /\ TypeOK /\ ChainInv /\ PollInv /\ BatchInv /\ DueInv /\ MarkedMeansAttempted /\ ToldInv
      /\ FreshInv
  BY DEF IInv
<1>2. TypeOK'
  BY <1>1 DEF TypeOK, explorerVars, tableVars, ghostVars
<1>3. InDigest' = InDigest
  BY DEF InDigest, OrchOf, explorerVars
<1>4. BatchInv'
  BY <1>1 DEF BatchInv, OrchOf, explorerVars, tableVars
<1>5. DueInv' /\ MarkedMeansAttempted'
  BY <1>1, <1>3 DEF DueInv, MarkedMeansAttempted, Subscribers, OrchOf, explorerVars, tableVars,
     ghostVars
<1>6. ToldInv'
  <2>1. faults' = 0 => faults = 0
    BY <1>1, DelegatorAssumption DEF TypeOK
  <2>. QED BY <1>1, <1>3, <2>1 DEF ToldInv, Settled, tableVars, ghostVars
<1>7. FreshInv'
  BY <1>1 DEF FreshInv, FirstBond, explorerVars, tableVars, ghostVars
<1>8. ChainInv' /\ PollInv'
  BY <1>1, ChainFrame, PollFrame DEF explorerVars, tableVars
<1>. QED BY <1>2, <1>4, <1>5, <1>6, <1>7, <1>8 DEF IInv

LEMMA LabelStep == ASSUME NEW e \in Ids PROVE IInv /\ Label(e) => IInv'
<1>. SUFFICES ASSUME IInv, Label(e) PROVE IInv'
  OBVIOUS
<1>. DEFINE n == [digest EXCEPT !.bonds = @ \ {e},
                                !.fresh = IF Prior(e) = {} THEN @ \union {e} ELSE @]
<1>1. /\ TypeOK /\ BatchInv /\ digest \in Digests /\ digest.pc = "label" /\ e \in digest.bonds
      /\ digest' = n
      /\ UNCHANGED <<explorerVars, booted, tableVars, poll, ghostVars, churn, faults>>
  BY DEF IInv, TypeOK, Label
<1>2. /\ n \in Digests /\ n.pc = digest.pc /\ n.batch = digest.batch /\ n.orchs = digest.orchs
      /\ n.orch = digest.orch /\ n.subs = digest.subs /\ n.done = digest.done
      /\ n.bonds = digest.bonds \ {e}
      /\ n.fresh = IF Prior(e) = {} THEN digest.fresh \union {e} ELSE digest.fresh
  BY <1>1 DEF Digests
<1>. HIDE DEF n
\* What count_prior_delegator_events finds decides, also about what is stored later.
<1>3. Prior(e) = {} => FirstBond(e)
  <2>1. e \in stored /\ chain[e].name = 1 /\ stored \subseteq DOMAIN chain
    BY <1>1 DEF BatchInv, TypeOK
  <2>2. \A f \in stored : chain[f].at \in Int /\ chain[e].at \in Int
    BY <1>1, <2>1, ChainTypes
  <2>. QED BY <2>1, <2>2 DEF Prior, FirstBond
<1>4. faults' \in 0..MaxFaults /\ faults <= faults'
  BY <1>1, DelegatorAssumption DEF TypeOK
<1>5. digest' \in Digests /\ digest'.pc = "label"
  BY <1>1, <1>2
<1>8. \A f \in digest'.bonds \union digest'.fresh : f \in digest.bonds \union digest.fresh
  BY <1>1, <1>2
<1>6. /\ digest'.batch = digest.batch /\ digest'.orchs = digest.orchs /\ digest'.orch = digest.orch
      /\ digest'.subs = digest.subs /\ digest'.done = digest.done
  BY <1>1, <1>2
<1>7. digest'.fresh \subseteq digest.fresh \union {f \in stored : FirstBond(f)}
  <2>1. FirstBond(e) => e \in stored
    BY DEF FirstBond
  <2>. QED BY <1>1, <1>2, <1>3, <2>1
<1>. QED BY <1>1, <1>4, <1>5, <1>6, <1>7, <1>8, SameTurnFrame

LEMMA GetProfileStep == IInv /\ GetProfile => IInv'
<1>. SUFFICES ASSUME IInv, GetProfile PROVE IInv'
  OBVIOUS
<1>. DEFINE n == [digest EXCEPT !.pc = "send"]
<1>1. /\ TypeOK /\ digest \in Digests /\ digest.pc = "label" /\ digest' = n
      /\ UNCHANGED <<explorerVars, booted, tableVars, poll, ghostVars, churn, faults>>
  BY DEF IInv, TypeOK, GetProfile
<1>2. /\ n \in Digests /\ n.pc = "send" /\ n.batch = digest.batch /\ n.orchs = digest.orchs
      /\ n.orch = digest.orch /\ n.subs = digest.subs /\ n.done = digest.done
      /\ n.bonds = digest.bonds /\ n.fresh = digest.fresh
  BY <1>1 DEF Digests
<1>. HIDE DEF n
<1>3. faults' \in 0..MaxFaults /\ faults <= faults'
  BY <1>1, DelegatorAssumption DEF TypeOK
<1>4. digest' \in Digests /\ digest'.pc = "send" /\ digest'.bonds = digest.bonds
  BY <1>1, <1>2
<1>5. /\ digest'.batch = digest.batch /\ digest'.orchs = digest.orchs /\ digest'.orch = digest.orch
      /\ digest'.subs = digest.subs /\ digest'.done = digest.done /\ digest'.fresh = digest.fresh
  BY <1>1, <1>2
<1>. QED BY <1>1, <1>3, <1>4, <1>5, SameTurnFrame

LEMMA SendDmStep ==
    ASSUME NEW u \in Users, NEW ok \in BOOLEAN PROVE IInv /\ SendDm(u, ok) => IInv'
<1>. SUFFICES ASSUME IInv, SendDm(u, ok) PROVE IInv'
  OBVIOUS
<1>. DEFINE n == [digest EXCEPT !.subs = @ \ {u}]
            dms == IF ok THEN {u} \X InDigest ELSE {}
<1>1. /\ TypeOK /\ BatchInv /\ DueInv /\ MarkedMeansAttempted /\ ToldInv /\ FreshInv
      /\ digest.pc = "send" /\ u \in digest.subs /\ digest \in Digests /\ digest' = n
      /\ told' = told \union dms /\ resent' = resent \union (dms \intersect told)
      /\ toldNew' \subseteq toldNew \union digest.fresh
      /\ due' = [e \in Ids |-> IF e \in InDigest THEN due[e] \ {u} ELSE due[e]]
      /\ UNCHANGED <<explorerVars, booted, tableVars, poll, churn, faults>>
  BY DEF IInv, TypeOK, SendDm
<1>2. /\ n \in Digests /\ n.pc = "send" /\ n.batch = digest.batch /\ n.orchs = digest.orchs
      /\ n.orch = digest.orch /\ n.subs = digest.subs \ {u} /\ n.done = digest.done
      /\ n.bonds = digest.bonds /\ n.fresh = digest.fresh
  BY <1>1 DEF Digests
<1>. HIDE DEF n
<1>3. /\ stored \subseteq Ids /\ InDigest \subseteq digest.batch /\ InDigest \subseteq stored
      /\ digest.batch \subseteq stored \ sent /\ digest.done \subseteq digest.batch
      /\ dms \subseteq Users \X stored /\ \A d \in dms : d[1] = u /\ d[2] \in InDigest
      /\ InDigest' = InDigest
  BY <1>1, <1>2, ChainTypes DEF InDigest, BatchInv, TypeOK, OrchOf, explorerVars
<1>. HIDE DEF dms
<1>4. TypeOK'
  <2>1. due' \in [Ids -> SUBSET Users]
    BY <1>1 DEF TypeOK
  <2>2. resent' \subseteq told' /\ told' \subseteq Users \X stored
    BY <1>1, <1>3 DEF TypeOK
  <2>3. toldNew' \subseteq stored
    BY <1>1 DEF TypeOK, FreshInv, FirstBond
  <2>. QED BY <1>1, <1>2, <2>1, <2>2, <2>3 DEF TypeOK, explorerVars, tableVars
<1>5. BatchInv'
  BY <1>1, <1>2 DEF BatchInv, OrchOf, explorerVars, tableVars
<1>6. DueInv' /\ MarkedMeansAttempted'
  <2>1. /\ \A e \in Ids : due'[e] \subseteq due[e]
        /\ \A e \in InDigest : due'[e] = due[e] \ {u}
    BY <1>1, <1>3
  <2>2. \A e \in Ids : OrchOf(e)' = OrchOf(e) /\ Subscribers(OrchOf(e))' = Subscribers(OrchOf(e))
    BY <1>1 DEF OrchOf, Subscribers, explorerVars, tableVars
  <2>3. (\A e \in stored : due[e] \subseteq Subscribers(OrchOf(e)))'
    BY <1>1, <1>3, <2>1, <2>2 DEF DueInv, tableVars
  <2>4. (\A e \in InDigest : due[e] \subseteq digest.subs)'
    BY <1>1, <1>2, <1>3, <2>1 DEF DueInv
  <2>5. (\A e \in digest.done : due[e] = {})'
    BY <1>1, <1>2, <1>3, <2>1 DEF DueInv
  <2>6. MarkedMeansAttempted'
    BY <1>1, <1>3, <2>1 DEF MarkedMeansAttempted, tableVars, TypeOK
  <2>. QED BY <2>3, <2>4, <2>5, <2>6 DEF DueInv
<1>7. ToldInv'
  <2>. SUFFICES ASSUME faults = 0 PROVE resent' = {} /\ \A d \in told' : Settled(d)'
    BY <1>1 DEF ToldInv
  <2>1. resent = {} /\ \A d \in told : Settled(d)
    BY <1>1 DEF ToldInv
  <2>2. \A e \in digest.done : e \notin InDigest
    BY <1>1 DEF BatchInv, InDigest
  <2>3. \A d \in dms : d \notin told
    BY <1>1, <1>3, <2>1, <2>2 DEF Settled
  <2>4. \A d \in told' : Settled(d)'
    BY <1>1, <1>2, <1>3, <2>1 DEF Settled, tableVars
  <2>. QED BY <1>1, <2>1, <2>3, <2>4
<1>8. toldNew' \union digest'.fresh \subseteq toldNew \union digest.fresh
  BY <1>1, <1>2
<1>. QED BY <1>1, <1>4, <1>5, <1>6, <1>7, <1>8, DigestStepFrame DEF explorerVars, tableVars

\* The end of an iteration by a fault: nothing is marked.
LEMMA AbortFrame ==
    ASSUME IInv, digest' = IdleDigest, faults < MaxFaults, faults' = faults + 1, TypeOK',
           PollInv', \A e \in Ids : due'[e] \subseteq due[e],
           UNCHANGED <<chain, rows, stored, sent, told, resent, toldNew>>
    PROVE  IInv'
<1>1. /\ TypeOK /\ ChainInv /\ BatchInv /\ DueInv /\ MarkedMeansAttempted /\ FreshInv
      /\ stored \subseteq Ids /\ sent \subseteq Ids
  BY ChainTypes DEF IInv, TypeOK
<1>2. InDigest' = {}
  BY IdleTypes DEF InDigest
<1>3. BatchInv'
  BY IdleTypes DEF BatchInv
<1>4. DueInv' /\ MarkedMeansAttempted'
  BY <1>1, <1>2, IdleTypes DEF DueInv, MarkedMeansAttempted, Subscribers, OrchOf
<1>5. ToldInv'
  <2>1. faults' # 0
    BY <1>1, DelegatorAssumption DEF TypeOK
  <2>. QED BY <2>1 DEF ToldInv
<1>6. FreshInv' /\ ChainInv'
  BY <1>1, IdleTypes, FreshFrame, ChainFrame
<1>. QED BY <1>3, <1>4, <1>5, <1>6 DEF IInv

LEMMA CountingFailsStep == ASSUME NEW u \in Users PROVE IInv /\ CountingFails(u) => IInv'
<1>. SUFFICES ASSUME IInv, CountingFails(u) PROVE IInv'
  OBVIOUS
<1>1. /\ TypeOK /\ PollInv /\ digest' = IdleDigest /\ faults < MaxFaults /\ faults' = faults + 1
      /\ due' = [e \in Ids |-> IF e \in InDigest THEN due[e] \ {u} ELSE due[e]]
      /\ UNCHANGED <<explorerVars, booted, tableVars, poll, told, resent, toldNew, churn>>
  BY DEF IInv, CountingFails, Fault
<1>2. due' \in [Ids -> SUBSET Users] /\ (\A e \in Ids : due'[e] \subseteq due[e])
      /\ faults' \in 0..MaxFaults
  BY <1>1, DelegatorAssumption DEF TypeOK
<1>3. TypeOK'
  BY <1>1, <1>2, IdleTypes DEF TypeOK, explorerVars, tableVars
<1>4. PollInv'
  BY <1>1, PollFrame DEF explorerVars, tableVars
<1>. QED BY <1>1, <1>2, <1>3, <1>4, AbortFrame DEF explorerVars, tableVars

LEMMA DigestFailsStep == IInv /\ (DigestFails \/ Crash) => IInv'
<1>. SUFFICES ASSUME IInv, DigestFails \/ Crash PROVE IInv'
  OBVIOUS
<1>1. /\ TypeOK /\ PollInv /\ digest' = IdleDigest /\ faults < MaxFaults /\ faults' = faults + 1
      /\ UNCHANGED <<explorerVars, tableVars, ghostVars, churn>>
      /\ \/ UNCHANGED <<booted, poll>>
         \/ booted' = FALSE /\ poll' = NewTick
  BY DEF IInv, DigestFails, Crash, Fault
<1>2. faults' \in 0..MaxFaults
  BY <1>1, DelegatorAssumption DEF TypeOK
<1>3. TypeOK'
  BY <1>1, <1>2, IdleTypes, PollTypes DEF TypeOK, explorerVars, tableVars, ghostVars
<1>4. PollInv'
  <2>1. UNCHANGED <<chain, cursor, stored>> /\ cursor \in [Streams -> 0..MaxEvents]
    BY <1>1 DEF explorerVars, tableVars, TypeOK
  <2>2. CASE poll' = NewTick
    BY <1>1, <2>1, <2>2, NextStreamInv, PollTypes DEF PollInv
  <2>3. CASE UNCHANGED poll
    BY <1>1, <2>1, <2>3, PollFrame
  <2>. QED BY <1>1, <2>2, <2>3
<1>. QED BY <1>1, <1>3, <1>4, AbortFrame DEF explorerVars, tableVars, ghostVars

LEMMA OrchDoneStep == IInv /\ OrchDone => IInv'
<1>. SUFFICES ASSUME IInv, OrchDone PROVE IInv'
  OBVIOUS
<1>. DEFINE n == [digest EXCEPT !.pc = "orch", !.orch = {}, !.fresh = {},
                                !.done = @ \union InDigest]
<1>1. /\ TypeOK /\ BatchInv /\ DueInv /\ MarkedMeansAttempted /\ ToldInv
      /\ digest.pc = "send" /\ digest.subs = {} /\ digest \in Digests /\ digest' = n
      /\ UNCHANGED <<explorerVars, booted, tableVars, poll, ghostVars, churn, faults>>
  BY DEF IInv, TypeOK, OrchDone
<1>2. /\ InDigest \subseteq digest.batch /\ InDigest \subseteq Ids
      /\ \A e \in InDigest : OrchOf(e) \in digest.orch
  BY <1>1 DEF InDigest, Digests
<1>3. /\ n \in Digests /\ n.pc = "orch" /\ n.batch = digest.batch /\ n.orchs = digest.orchs
      /\ n.orch = {} /\ n.subs = {} /\ n.done = digest.done \union InDigest
      /\ n.bonds = digest.bonds /\ n.fresh = {}
  BY <1>1, <1>2 DEF Digests
<1>. HIDE DEF n
<1>4. TypeOK'
  BY <1>1, <1>3 DEF TypeOK, explorerVars, tableVars, ghostVars
<1>5. InDigest' = {} /\ \A e \in Ids : OrchOf(e)' = OrchOf(e)
  BY <1>1, <1>3 DEF InDigest, OrchOf, explorerVars
<1>6. BatchInv'
  BY <1>1, <1>2, <1>3, <1>5 DEF BatchInv, OrchOf, explorerVars, tableVars
<1>7. DueInv' /\ MarkedMeansAttempted'
  <2>1. \A e \in InDigest : due[e] = {}
    BY <1>1 DEF DueInv
  <2>. QED BY <1>1, <1>3, <1>5, <2>1 DEF DueInv, MarkedMeansAttempted, Subscribers, OrchOf,
              explorerVars, tableVars, ghostVars
<1>8. ToldInv'
  BY <1>1, <1>3 DEF ToldInv, Settled, tableVars, ghostVars
<1>. QED BY <1>1, <1>3, <1>4, <1>6, <1>7, <1>8, DigestStepFrame DEF explorerVars, tableVars, ghostVars

LEMMA MarkSentStep == IInv /\ MarkSent => IInv'
<1>. SUFFICES ASSUME IInv, MarkSent PROVE IInv'
  OBVIOUS
<1>1. /\ TypeOK /\ BatchInv /\ DueInv /\ MarkedMeansAttempted /\ ToldInv
      /\ digest.pc = "orch" /\ sent' = sent \union digest.done /\ digest' = IdleDigest
      /\ UNCHANGED <<explorerVars, booted, rows, cursor, stored, history, poll, ghostVars, churn,
                     faults>>
  BY DEF IInv, MarkSent, Marked
<1>2. sent' \subseteq stored /\ InDigest = {}
  BY <1>1 DEF TypeOK, BatchInv, InDigest
<1>3. TypeOK'
  BY <1>1, <1>2, IdleTypes DEF TypeOK, explorerVars, ghostVars
<1>4. InDigest' = {}
  BY <1>1, IdleTypes DEF InDigest
<1>5. BatchInv'
  BY <1>1, IdleTypes DEF BatchInv
<1>6. DueInv' /\ MarkedMeansAttempted'
  BY <1>1, <1>4, IdleTypes DEF DueInv, MarkedMeansAttempted, Subscribers, OrchOf, explorerVars,
     ghostVars
<1>7. ToldInv'
  BY <1>1, <1>2, IdleTypes DEF ToldInv, Settled, ghostVars
<1>. QED BY <1>1, <1>3, <1>5, <1>6, <1>7, IdleTypes, DigestStepFrame DEF explorerVars, ghostVars

LEMMA NextInv == IInv /\ [Next]_vars => IInv'
<1>. SUFFICES ASSUME IInv, [Next]_vars PROVE IInv'
  OBVIOUS
<1>1. CASE UNCHANGED vars
  <2>1. TypeOK' /\ PollInv'
    BY <1>1, PollFrame DEF vars, IInv, TypeOK
  <2>2. faults <= faults'
    BY <1>1, DelegatorAssumption DEF vars, IInv, TypeOK
  <2>. QED BY <1>1, <2>1, <2>2, QuietFrame DEF vars
<1>2. CASE Next
  BY <1>2, HappenStep, SeedAllStep, SubscribeStep, UnsubscribeStep, ListStep, EndPageStep,
     StreamFailsStep, InsertRowStep, FetchUnsentStep, FindSubsStep, LabelStep, GetProfileStep,
     SendDmStep, CountingFailsStep, OrchDoneStep, MarkSentStep, DigestFailsStep DEF Next
<1>. QED BY <1>1, <1>2

LEMMA Invariance == Spec => []IInv
BY InitInv, NextInv, PTL DEF Spec

-----------------------------------------------------------------------------
(* The theorems.                                                           *)

\* Every variable keeps its type: what is marked and told was stored, and happened.
THEOREM Types == Spec => []TypeOK
<1>1. IInv => TypeOK
  BY DEF IInv
<1>. QED BY <1>1, Invariance, PTL

\* The marks of subscriber_digest_poster agree with its DMs: an event is marked only
\* after every subscriber's turn, and nothing is told again without a fault.
THEOREM MarksTellTheTruth == Spec => []MarksMatchDms
<1>1. IInv => MarksMatchDms
  BY DEF IInv, MarksMatchDms, RedeliveryNeedsFault, ToldInv
<1>. QED BY <1>1, Invariance, PTL

\* At most one Bond of a pair is told as a new delegator: delegator_poller stores the
\* Bonds in their order, so that count_prior_delegator_events misses no earlier one.
THEOREM NewOnce == Spec => []OneNewPerPair
<1>1. IInv => OneNewPerPair
  <2>. SUFFICES ASSUME IInv, NEW e \in toldNew, NEW f \in toldNew, chain[e].pair = chain[f].pair
                PROVE  chain[e].at = chain[f].at
    BY DEF OneNewPerPair
  <2>1. FirstBond(e) /\ FirstBond(f)
    BY DEF IInv, FreshInv
  <2>2. chain[e].at \in Nat /\ chain[f].at \in Nat
    BY <2>1, ChainTypes DEF IInv, FirstBond, TypeOK
  <2>. QED BY <2>1, <2>2 DEF FirstBond
<1>. QED BY <1>1, Invariance, PTL
=============================================================================
