-------------------------- MODULE RewardWatchProofs --------------------------
(***************************************************************************)
(* Theorems about RewardWatch, for every set of orchestrators and          *)
(* subscribers, ladder, length of a round, pruning window and bound on     *)
(* rounds and faults.                                                      *)
(***************************************************************************)
EXTENDS RewardWatch, TLAPS

-----------------------------------------------------------------------------
(* The inductive invariant.                                                *)

\* The tick in progress is about the round it read at its start, which is not
\* ahead of the protocol. A round whose missed pass runs is past the cursor, what a
\* fan-out is about is still to be told, and a digest that was posted is not recorded.
TickInv ==
    /\ round >= 1 /\ tick.round <= round /\ (tick.pc # "idle" => tick.round >= 1)
    /\ tick.pc \in {"loop", "dm"} => tick.pass \in {"missed", "ladder"}
    /\ tick.pc \in {"loop", "dm"} /\ tick.pass = "missed" =>
            missedCursor \in Rounds /\ missedCursor < tick.round - 1
    /\ tick.pc = "dm" => \E o \in Orchs : tick.orch = {o} /\ NeedsNotice(o)
    /\ tick.pc \in {"digest", "posted"} => tick.pass = "ladder"
    /\ tick.pc = "posted" => digestCursor < tick.round

\* Rewards that were recorded as seen were seen, by the tick that alerts too.
ResolvedInv ==
    \A p \in resolved :
        /\ p[2] \in rewarded[p[1]]
        /\ tick.pass = "ladder" /\ p[1] = tick.round => p[2] \in tick.rewarded

\* User u is through with the fan-out in progress about orchestrator o and round r.
Reached(r, o, u, pass) ==
    tick.pc = "dm" /\ tick.pass = pass /\ o \in tick.orch /\ About(tick) = r /\ u \notin tick.subs

One(b) == IF b THEN 1 ELSE 0

\* Each alert, digest and missed-reward DM is accounted for by what the tables
\* record, by the fan-out or post in progress, or by a lapse.
LadderInv ==
    \A r \in Rounds, o \in Orchs, u \in Users :
        r + 1 >= round =>
            ladderDms[r][o][u] <= alerts[r][o] + lapses[r] + One(Reached(r, o, u, "ladder"))

MissedDone(r, o) == <<r, o>> \in notified \/ (missedCursor \in Rounds /\ r <= missedCursor)

MissedInv ==
    \A r \in Rounds, o \in Orchs, u \in Users :
        missedDms[r][o][u] <= lapses[r] + One(MissedDone(r, o) \/ Reached(r, o, u, "missed"))

DigestDone(r) == r <= digestCursor \/ (tick.pc = "posted" /\ tick.round = r)

DigestInv == \A r \in Rounds : digests[r] <= lapses[r] + One(DigestDone(r))

IInv == TypeOK /\ TickInv /\ ResolvedInv /\ LadderInv /\ MissedInv /\ DigestInv

-----------------------------------------------------------------------------
(* Lemmas about the operators.                                             *)

\* A rung is a number.
LEMMA DueTypes == \A pct \in Nat : DueAlerts(pct) \in Nat
BY PctAssumption DEF DueAlerts

LEMMA TickTypes ==
    /\ IdleTick \in Ticks /\ IdleTick.pc = "idle" /\ IdleTick.pass = "none" /\ IdleTick.round = 0
    /\ \A r \in Rounds, due \in Nat, lock \in BOOLEAN :
            /\ NewTick("closed", r, due, lock) \in Ticks
            /\ NewTick("closed", r, due, lock).pc = "closed"
            /\ NewTick("closed", r, due, lock).pass = "none"
            /\ NewTick("closed", r, due, lock).round = r
<1>1. 0 \in Rounds
  BY BoundsAssumption DEF Rounds
<1>2. ASSUME NEW pc \in {"idle", "closed"}, NEW r \in Rounds, NEW due \in Nat,
             NEW lock \in BOOLEAN
      PROVE  /\ NewTick(pc, r, due, lock) \in Ticks /\ NewTick(pc, r, due, lock).pc = pc
             /\ NewTick(pc, r, due, lock).pass = "none" /\ NewTick(pc, r, due, lock).round = r
  <2>1. NewTick(pc, r, due, lock) \in Ticks
    BY DEF NewTick, Ticks
  <2>2. /\ NewTick(pc, r, due, lock).pc = pc /\ NewTick(pc, r, due, lock).pass = "none"
        /\ NewTick(pc, r, due, lock).round = r
    BY DEF NewTick
  <2>. QED BY <2>1, <2>2
<1>3. IdleTick \in Ticks /\ IdleTick.pc = "idle" /\ IdleTick.pass = "none" /\ IdleTick.round = 0
  <2>1. NewTick("idle", 0, 0, FALSE) \in Ticks
    BY <1>1 DEF NewTick, Ticks
  <2>2. /\ NewTick("idle", 0, 0, FALSE).pc = "idle" /\ NewTick("idle", 0, 0, FALSE).pass = "none"
        /\ NewTick("idle", 0, 0, FALSE).round = 0
    BY DEF NewTick
  <2>. QED BY <2>1, <2>2 DEF IdleTick
<1>. QED BY <1>2, <1>3

\* A DM is counted for its round, its orchestrator and its user, nowhere else.
CountedOnce(next, dms, r, O, u) ==
    \A s \in Rounds, o \in Orchs, v \in Users :
        next[s][o][v] = IF s = r /\ o \in O /\ v = u THEN dms[s][o][v] + 1 ELSE dms[s][o][v]

LEMMA CountedTypes ==
    ASSUME NEW dms \in [Rounds -> [Orchs -> [Users -> Nat]]], NEW r \in Rounds,
           NEW O \in SUBSET Orchs, NEW u \in Users
    PROVE  /\ Counted(dms, r, O, u) \in [Rounds -> [Orchs -> [Users -> Nat]]]
           /\ CountedOnce(Counted(dms, r, O, u), dms, r, O, u)
<1>. DEFINE f == [o \in Orchs |-> IF o \in O THEN [dms[r][o] EXCEPT ![u] = dms[r][o][u] + 1]
                                 ELSE dms[r][o]]
<1>1. f \in [Orchs -> [Users -> Nat]]
  OBVIOUS
<1>2. \A o \in Orchs, v \in Users : f[o][v] = IF o \in O /\ v = u THEN dms[r][o][v] + 1
                                             ELSE dms[r][o][v]
  OBVIOUS
<1>3. Counted(dms, r, O, u) = [dms EXCEPT ![r] = f]
  BY DEF Counted
<1>. HIDE DEF f
<1>4. Counted(dms, r, O, u) \in [Rounds -> [Orchs -> [Users -> Nat]]]
  BY <1>1, <1>3
<1>5. ASSUME NEW s \in Rounds, NEW o \in Orchs, NEW v \in Users
      PROVE  Counted(dms, r, O, u)[s][o][v]
                = IF s = r /\ o \in O /\ v = u THEN dms[s][o][v] + 1 ELSE dms[s][o][v]
  <2>1. CASE s = r
    BY <1>2, <1>3, <2>1
  <2>2. CASE s # r
    BY <1>3, <2>2
  <2>. QED BY <2>1, <2>2
<1>. QED BY <1>4, <1>5 DEF CountedOnce

-----------------------------------------------------------------------------
(* The invariant holds initially and every action preserves it.            *)

LEMMA InitInv == Init => IInv
<1>. SUFFICES ASSUME Init PROVE IInv
  OBVIOUS
<1>1. 0 \in Rounds /\ 1 \in Rounds
  BY BoundsAssumption DEF Rounds
<1>2. TypeOK
  <2>1. alerts \in [Rounds -> [Orchs -> Nat]] /\ rewarded \in [Rounds -> SUBSET Orchs]
        /\ digests \in [Rounds -> Nat] /\ lapses \in [Rounds -> Nat]
    BY DEF Init
  <2>2. ladderDms \in [Rounds -> [Orchs -> [Users -> Nat]]]
        /\ missedDms \in [Rounds -> [Orchs -> [Users -> Nat]]]
    BY DEF Init, NoDms
  <2>3. round \in Rounds /\ elapsed \in 0..MaxElapsed /\ boundary \in Rounds
        /\ missedCursor \in Rounds \union {NoCursor} /\ digestCursor \in Rounds
        /\ faults \in 0..MaxFaults
    BY <1>1, PctAssumption, BoundsAssumption, CursorAssumption DEF Init
  <2>4. tick \in Ticks
    BY TickTypes DEF Init
  <2>. QED BY <2>1, <2>2, <2>3, <2>4 DEF Init, TypeOK
<1>3. TickInv /\ ResolvedInv
  BY TickTypes DEF Init, TickInv, ResolvedInv
<1>4. LadderInv /\ MissedInv /\ DigestInv
  <2>1. ASSUME NEW r \in Rounds, NEW o \in Orchs, NEW u \in Users
        PROVE  ladderDms[r][o][u] = 0 /\ missedDms[r][o][u] = 0 /\ alerts[r][o] = 0
    BY DEF Init, NoDms
  <2>2. \A r \in Rounds : lapses[r] = 0 /\ digests[r] = 0
    BY DEF Init
  <2>3. LadderInv
    BY <2>1, <2>2 DEF LadderInv, One
  <2>4. MissedInv
    BY <2>1, <2>2 DEF MissedInv, One
  <2>5. DigestInv
    BY <2>2 DEF DigestInv, One
  <2>. QED BY <2>3, <2>4, <2>5
<1>. QED BY <1>2, <1>3, <1>4 DEF IInv

\* A step that sends nothing keeps every DM and digest accounted for, if what was
\* recorded stays so and a fan-out or post that it ends is recorded or a lapse.
LapsesKept == \A r \in Rounds : lapses[r] <= lapses'[r]

LadderKept ==
    /\ round <= round'
    /\ \A r \in Rounds, o \in Orchs : r + 1 >= round => alerts[r][o] <= alerts'[r][o]
    /\ \A r \in Rounds, o \in Orchs, u \in Users :
            r + 1 >= round /\ Reached(r, o, u, "ladder") =>
                \/ Reached(r, o, u, "ladder")' \/ alerts[r][o] < alerts'[r][o]
                \/ lapses[r] < lapses'[r]

MissedKept ==
    \A r \in Rounds, o \in Orchs, u \in Users :
        MissedDone(r, o) \/ Reached(r, o, u, "missed") =>
            \/ MissedDone(r, o)' \/ Reached(r, o, u, "missed")' \/ lapses[r] < lapses'[r]

DigestKept == \A r \in Rounds : DigestDone(r) => DigestDone(r)' \/ lapses[r] < lapses'[r]

LEMMA LadderCovered ==
    ASSUME TypeOK, LadderInv, TypeOK', UNCHANGED ladderDms, LapsesKept, LadderKept
    PROVE  LadderInv'
<1>1. ASSUME NEW r \in Rounds, NEW o \in Orchs, NEW u \in Users, r + 1 >= round'
      PROVE  ladderDms'[r][o][u] <= alerts'[r][o] + lapses'[r] + One(Reached(r, o, u, "ladder")')
  <2>1. r + 1 >= round
    <3>1. round \in Int /\ round' \in Int /\ r \in Int
      BY DEF TypeOK, Rounds
    <3>2. round <= round'
      BY DEF LadderKept
    <3>. QED BY <1>1, <3>1, <3>2
  <2>2. ladderDms[r][o][u] <= alerts[r][o] + lapses[r] + One(Reached(r, o, u, "ladder"))
    BY <2>1 DEF LadderInv
  <2>3. /\ alerts[r][o] \in Nat /\ alerts'[r][o] \in Nat /\ lapses[r] \in Nat /\ lapses'[r] \in Nat
        /\ ladderDms[r][o][u] \in Nat
    BY DEF TypeOK
  <2>4. alerts[r][o] <= alerts'[r][o] /\ lapses[r] <= lapses'[r]
    BY <2>1 DEF LadderKept, LapsesKept
  <2>5. Reached(r, o, u, "ladder") =>
            \/ Reached(r, o, u, "ladder")' \/ alerts[r][o] < alerts'[r][o]
            \/ lapses[r] < lapses'[r]
    BY <2>1 DEF LadderKept
  <2>. QED BY <2>2, <2>3, <2>4, <2>5 DEF One
<1>. QED BY <1>1 DEF LadderInv, One

LEMMA MissedCovered ==
    ASSUME TypeOK, MissedInv, TypeOK', UNCHANGED missedDms, LapsesKept, MissedKept
    PROVE  MissedInv'
<1>1. ASSUME NEW r \in Rounds, NEW o \in Orchs, NEW u \in Users
      PROVE  missedDms'[r][o][u]
                <= lapses'[r] + One((MissedDone(r, o) \/ Reached(r, o, u, "missed"))')
  <2>1. missedDms[r][o][u] <= lapses[r] + One(MissedDone(r, o) \/ Reached(r, o, u, "missed"))
    BY DEF MissedInv
  <2>2. lapses[r] \in Nat /\ lapses'[r] \in Nat /\ missedDms[r][o][u] \in Nat
        /\ lapses[r] <= lapses'[r]
    BY DEF TypeOK, LapsesKept
  <2>. QED BY <2>1, <2>2 DEF MissedKept, One
<1>. QED BY <1>1 DEF MissedInv, One

LEMMA DigestCovered ==
    ASSUME TypeOK, DigestInv, TypeOK', UNCHANGED digests, LapsesKept, DigestKept
    PROVE  DigestInv'
<1>1. ASSUME NEW r \in Rounds PROVE digests'[r] <= lapses'[r] + One(DigestDone(r)')
  <2>1. digests[r] <= lapses[r] + One(DigestDone(r))
    BY DEF DigestInv
  <2>2. lapses[r] \in Nat /\ lapses'[r] \in Nat /\ digests[r] \in Nat /\ lapses[r] <= lapses'[r]
    BY DEF TypeOK, LapsesKept
  <2>. QED BY <2>1, <2>2 DEF DigestKept, One
<1>. QED BY <1>1 DEF DigestInv, One

\* Steps of the protocol and of the explorer.
LEMMA ProtocolFrame ==
    ASSUME IInv, TypeOK', round <= round', \A r \in Rounds : rewarded[r] \subseteq rewarded'[r],
           UNCHANGED <<tableVars, tick, discordVars, lapses>>
    PROVE  IInv'
<1>1. TypeOK /\ TickInv /\ ResolvedInv /\ LadderInv /\ MissedInv /\ DigestInv
  BY DEF IInv
<1>2. round \in Int /\ round' \in Int /\ tick.round \in Int
  BY <1>1 DEF TypeOK, Ticks, Rounds
<1>3. \A o \in Orchs : NeedsNotice(o)' = NeedsNotice(o)
  BY DEF NeedsNotice, About, tableVars
<1>4. TickInv'
  BY <1>1, <1>2, <1>3 DEF TickInv, tableVars
<1>5. ResolvedInv'
  BY <1>1 DEF ResolvedInv, TypeOK, tableVars
<1>6. LapsesKept /\ LadderKept /\ MissedKept /\ DigestKept
  BY <1>1 DEF LapsesKept, LadderKept, MissedKept, DigestKept, MissedDone, DigestDone, Reached, About,
              tableVars, TypeOK
<1>. QED BY <1>1, <1>4, <1>5, <1>6, LadderCovered, MissedCovered, DigestCovered
         DEF IInv, discordVars

LEMMA ProtocolStep ==
    /\ IInv /\ (Elapse \/ NewRound \/ IndexBoundary) => IInv'
    /\ \A r \in Rounds, o \in Orchs : IInv /\ IndexReward(r, o) => IInv'
<1>1. ASSUME IInv, Elapse \/ NewRound \/ IndexBoundary PROVE IInv'
  <2>1. TypeOK /\ round \in Nat
    BY <1>1 DEF IInv, TypeOK, Rounds
  <2>2. UNCHANGED <<tableVars, tick, discordVars, lapses, rewarded, skipped, faults>>
    BY <1>1 DEF Elapse, NewRound, IndexBoundary
  <2>3. round' \in Rounds /\ elapsed' \in 0..MaxElapsed /\ boundary' \in Rounds /\ round <= round'
        /\ active' \subseteq Orchs
    <3>1. CASE Elapse
      BY <2>1, <3>1, PctAssumption DEF Elapse, TypeOK
    <3>2. CASE NewRound
      BY <2>1, <3>2, PctAssumption, BoundsAssumption DEF NewRound, TypeOK, Rounds
    <3>3. CASE IndexBoundary
      BY <2>1, <3>3, BoundsAssumption DEF IndexBoundary, TypeOK, Rounds
    <3>. QED BY <1>1, <3>1, <3>2, <3>3
  <2>4. TypeOK'
    BY <2>1, <2>2, <2>3 DEF TypeOK, tableVars, discordVars
  <2>. QED BY <1>1, <2>2, <2>3, <2>4, ProtocolFrame
<1>2. ASSUME IInv, NEW r \in Rounds, NEW o \in Orchs, IndexReward(r, o) PROVE IInv'
  <2>1. TypeOK /\ round \in Nat
    BY <1>2 DEF IInv, TypeOK, Rounds
  <2>2. UNCHANGED <<round, elapsed, active, boundary, tableVars, tick, discordVars, lapses,
                    skipped, faults>>
    BY <1>2 DEF IndexReward
  <2>3. rewarded' \in [Rounds -> SUBSET Orchs]
        /\ \A s \in Rounds : rewarded[s] \subseteq rewarded'[s]
    BY <1>2, <2>1 DEF IndexReward, TypeOK
  <2>4. TypeOK'
    BY <2>1, <2>2, <2>3 DEF TypeOK, tableVars, discordVars
  <2>. QED BY <1>2, <2>1, <2>2, <2>3, <2>4, ProtocolFrame
<1>. QED BY <1>1, <1>2

\* Steps of the tick between two fan-outs that send nothing and mark rewards at most.
LEMMA MarkFrame ==
    ASSUME IInv, tick' \in Ticks, tick.pc \notin {"dm", "posted"}, TickInv', ResolvedInv',
           resolved' \subseteq Rounds \X Orchs, skipped' \subseteq Rounds \X Orchs,
           faults' \in 0..MaxFaults,
           UNCHANGED <<protocolVars, alerts, notified, missedCursor, digestCursor, discordVars,
                       lapses>>
    PROVE  IInv'
<1>1. TypeOK /\ LadderInv /\ MissedInv /\ DigestInv
  BY DEF IInv
<1>2. TypeOK'
  BY <1>1 DEF TypeOK, protocolVars, discordVars
<1>3. round' = round /\ round \in Nat
  BY <1>1 DEF protocolVars, TypeOK, Rounds
<1>4. LapsesKept /\ LadderKept /\ MissedKept /\ DigestKept
  <2>1. /\ \A r \in Rounds, o \in Orchs, u \in Users :
                ~Reached(r, o, u, "ladder") /\ ~Reached(r, o, u, "missed")
        /\ \A r \in Rounds : DigestDone(r) => DigestDone(r)'
        /\ \A r \in Rounds, o \in Orchs : MissedDone(r, o) => MissedDone(r, o)'
    BY DEF Reached, DigestDone, MissedDone
  <2>2. /\ \A r \in Rounds, o \in Orchs : alerts[r][o] \in Nat /\ alerts'[r][o] = alerts[r][o]
        /\ \A r \in Rounds : lapses[r] \in Nat /\ lapses'[r] = lapses[r]
    BY <1>1 DEF TypeOK
  <2>. QED BY <1>3, <2>1, <2>2 DEF LapsesKept, LadderKept, MissedKept, DigestKept
<1>. QED BY <1>1, <1>2, <1>4, LadderCovered, MissedCovered, DigestCovered DEF IInv, discordVars

LEMMA TickFrame ==
    ASSUME IInv, tick' \in Ticks, tick.pc \notin {"dm", "posted"}, TickInv',
           tick'.pass = "ladder" => /\ tick.pass = "ladder" /\ tick'.round = tick.round
                                    /\ tick'.rewarded = tick.rewarded,
           skipped' \subseteq Rounds \X Orchs, faults' \in 0..MaxFaults,
           UNCHANGED <<protocolVars, tableVars, discordVars, lapses>>
    PROVE  IInv'
<1>1. ResolvedInv'
  BY DEF IInv, ResolvedInv, protocolVars, tableVars
<1>2. resolved' \subseteq Rounds \X Orchs
  BY DEF IInv, TypeOK, tableVars
<1>. QED BY <1>1, <1>2, MarkFrame DEF tableVars

LEMMA StartTickStep == IInv /\ StartTick => IInv'
<1>. SUFFICES ASSUME IInv, StartTick PROVE IInv'
  OBVIOUS
<1>. DEFINE lock == elapsed >= DigestPct
            n == NewTick("closed", round, DueAlerts(elapsed), lock)
<1>1. /\ TypeOK /\ TickInv /\ tick.pc = "idle" /\ tick' = n
      /\ UNCHANGED <<protocolVars, tableVars, discordVars, lapses, skipped, faults>>
  BY DEF IInv, StartTick
<1>2. round \in Rounds /\ DueAlerts(elapsed) \in Nat /\ lock \in BOOLEAN
  <2>1. elapsed \in Nat
    BY <1>1, PctAssumption DEF TypeOK
  <2>. QED BY <1>1, <2>1, DueTypes DEF TypeOK
<1>. HIDE DEF lock
<1>3. n \in Ticks /\ n.pc = "closed" /\ n.pass = "none" /\ n.round = round
  BY <1>2, TickTypes
<1>. HIDE DEF n
<1>4. TickInv'
  <2>1. round \in Int
    BY <1>2 DEF Rounds
  <2>. QED BY <1>1, <1>3, <2>1 DEF TickInv, protocolVars
<1>5. skipped' \subseteq Rounds \X Orchs /\ faults' \in 0..MaxFaults
  BY <1>1 DEF TypeOK
<1>. QED BY <1>1, <1>3, <1>4, <1>5, TickFrame

LEMMA ClosedRoundStep == IInv /\ ClosedRound => IInv'
<1>. SUFFICES ASSUME IInv, ClosedRound PROVE IInv'
  OBVIOUS
<1>. DEFINE prev == tick.round - 1
            a == [tick EXCEPT !.pc = "list"]
            b == [tick EXCEPT !.pc = "loop", !.pass = "missed", !.rewarded = rewarded[prev],
                              !.todo = Subscribed]
<1>1. /\ TypeOK /\ TickInv /\ tick.pc = "closed" /\ tick \in Ticks
      /\ UNCHANGED <<protocolVars, tableVars, discordVars, lapses, skipped, faults>>
  BY DEF IInv, TypeOK, ClosedRound
<1>2. prev \in Rounds /\ tick.round \in Nat /\ rewarded[prev] \in SUBSET Orchs
  <2>1. tick.round >= 1 /\ tick.round \in Rounds
    BY <1>1 DEF TickInv, Ticks
  <2>2. prev \in Rounds /\ tick.round \in Nat
    BY <2>1, BoundsAssumption DEF Rounds
  <2>. QED BY <1>1, <2>2 DEF TypeOK
<1>3. Subscribed \in SUBSET Orchs
  BY DEF Subscribed
<1>6. tick' = a \/ (tick' = b /\ missedCursor \in Rounds /\ missedCursor < prev)
  <2>1. CASE missedCursor = NoCursor
    BY <1>2, <2>1 DEF ClosedRound, Rounds
  <2>2. CASE missedCursor # NoCursor
    <3>1. missedCursor \in Rounds
      BY <1>1, <2>2 DEF TypeOK
    <3>2. ~(missedCursor >= prev) => missedCursor < prev
      BY <1>2, <3>1 DEF Rounds
    <3>3. tick' = a \/ (tick' = b /\ ~(missedCursor >= prev))
      BY <2>2 DEF ClosedRound
    <3>. QED BY <3>1, <3>2, <3>3
  <2>. QED BY <2>1, <2>2
<1>. HIDE DEF prev
<1>4. a \in Ticks /\ a.pc = "list" /\ a.pass = tick.pass /\ a.round = tick.round
      /\ a.rewarded = tick.rewarded
  BY <1>1 DEF Ticks
<1>5. b \in Ticks /\ b.pc = "loop" /\ b.pass = "missed" /\ b.round = tick.round
  BY <1>1, <1>2, <1>3 DEF Ticks
<1>. HIDE DEF a, b
<1>7. TickInv'
  BY <1>1, <1>2, <1>4, <1>5, <1>6 DEF TickInv, protocolVars, tableVars, prev
<1>8. skipped' \subseteq Rounds \X Orchs /\ faults' \in 0..MaxFaults
  BY <1>1 DEF TypeOK
<1>. QED BY <1>1, <1>4, <1>5, <1>6, <1>7, <1>8, TickFrame

LEMMA VisitOrchStep == ASSUME NEW o \in Orchs PROVE IInv /\ VisitOrch(o) => IInv'
<1>. SUFFICES ASSUME IInv, VisitOrch(o) PROVE IInv'
  OBVIOUS
<1>. DEFINE profiles == IF NeedsNotice(o) THEN Profiles(o) ELSE tick.profiles
            a == [tick EXCEPT !.todo = @ \ {o},
                              !.profiles = IF NeedsNotice(o) THEN Profiles(o) ELSE @]
            b(S) == [a EXCEPT !.pc = "dm", !.orch = {o}, !.subs = S]
<1>1. /\ TypeOK /\ TickInv /\ tick.pc = "loop" /\ tick \in Ticks
      /\ UNCHANGED <<protocolVars, tableVars, discordVars, lapses, skipped, faults>>
  BY DEF IInv, TypeOK, VisitOrch
<1>2. \/ tick' = a
      \/ NeedsNotice(o) /\ \E S \in SUBSET SubsOf[o] : tick' = b(S)
  <2>1. CASE NeedsNotice(o) /\ <<o, TRUE>> \in Profiles(o)
    <3>1. \E S \in SUBSET SubsOf[o] : tick' = b(S)
      BY <2>1, Zenon DEF VisitOrch
    <3>. QED BY <2>1, <3>1
  <2>2. CASE ~(NeedsNotice(o) /\ <<o, TRUE>> \in Profiles(o))
    <3>1. tick' = a
      BY <2>2, Zenon DEF VisitOrch
    <3>. QED BY <3>1
  <2>. QED BY <2>1, <2>2
<1>3. profiles \in SUBSET (Orchs \X BOOLEAN)
  <2>. DEFINE isActive == o \in active
  <2>1. isActive \in BOOLEAN
    OBVIOUS
  <2>2. Profiles(o) \in {tick.profiles, tick.profiles \union {<<o, isActive>>}}
    BY Zenon DEF Profiles
  <2>3. tick.profiles \in SUBSET (Orchs \X BOOLEAN)
    BY <1>1 DEF Ticks
  <2>. HIDE DEF isActive
  <2>4. <<o, isActive>> \in Orchs \X BOOLEAN
    BY <2>1
  <2>. QED BY <2>2, <2>3, <2>4
<1>4. /\ a \in Ticks /\ a.pc = "loop" /\ a.pass = tick.pass /\ a.round = tick.round
      /\ a.due = tick.due /\ a.rewarded = tick.rewarded
  <2>1. a = [tick EXCEPT !.todo = tick.todo \ {o}, !.profiles = profiles]
    OBVIOUS
  <2>. HIDE DEF profiles, a
  <2>. QED BY <1>1, <1>3, <2>1 DEF Ticks
<1>. HIDE DEF a
<1>5. ASSUME NEW S \in SUBSET SubsOf[o]
      PROVE  /\ b(S) \in Ticks /\ b(S).pc = "dm" /\ b(S).pass = tick.pass /\ b(S).orch = {o}
             /\ b(S).round = tick.round /\ b(S).due = tick.due /\ b(S).rewarded = tick.rewarded
  <2>1. S \in SUBSET Users
    BY SubsAssumption
  <2>. QED BY <1>4, <2>1 DEF Ticks
<1>. HIDE DEF b
<1>6. /\ tick' \in Ticks /\ tick'.pc \in {"loop", "dm"} /\ tick'.pass = tick.pass
      /\ tick'.round = tick.round /\ tick'.due = tick.due /\ tick'.rewarded = tick.rewarded
      /\ tick'.pc = "dm" => NeedsNotice(o) /\ tick'.orch = {o}
  BY <1>2, <1>4, <1>5
<1>7. NeedsNotice(o)' = NeedsNotice(o)
  BY <1>1, <1>6 DEF NeedsNotice, About, tableVars
<1>8. TickInv'
  BY <1>1, <1>6, <1>7 DEF TickInv, protocolVars, tableVars
<1>9. skipped' \subseteq Rounds \X Orchs /\ faults' \in 0..MaxFaults
  BY <1>1 DEF TypeOK
<1>. QED BY <1>1, <1>6, <1>8, <1>9, TickFrame

LEMMA ProfileFailsStep == ASSUME NEW o \in Orchs PROVE IInv /\ ProfileFails(o) => IInv'
<1>. SUFFICES ASSUME IInv, ProfileFails(o) PROVE IInv'
  OBVIOUS
<1>. DEFINE n == [tick EXCEPT !.todo = @ \ {o}]
<1>1. /\ TypeOK /\ TickInv /\ tick.pc = "loop" /\ tick \in Ticks /\ tick' = n
      /\ faults < MaxFaults /\ faults' = faults + 1
      /\ UNCHANGED <<protocolVars, tableVars, discordVars, lapses>>
  BY DEF IInv, TypeOK, ProfileFails
<1>2. /\ n \in Ticks /\ n.pc = "loop" /\ n.pass = tick.pass /\ n.round = tick.round
      /\ n.rewarded = tick.rewarded
  BY <1>1 DEF Ticks
<1>. HIDE DEF n
<1>3. TickInv'
  BY <1>1, <1>2 DEF TickInv, protocolVars, tableVars
<1>4. faults' \in 0..MaxFaults
  BY <1>1, BoundsAssumption DEF TypeOK
<1>5. skipped' \subseteq Rounds \X Orchs
  <2>1. tick.pass = "missed" => About(tick) \in Rounds
    <3>1. tick.round >= 1 /\ tick.round \in Rounds
      BY <1>1 DEF TickInv, Ticks
    <3>. QED BY <3>1, BoundsAssumption DEF About, Rounds
  <2>. QED BY <1>1, <2>1 DEF ProfileFails, TypeOK
<1>. QED BY <1>1, <1>2, <1>3, <1>4, <1>5, TickFrame

LEMMA EndLadderStep == IInv /\ EndLadder => IInv'
<1>. SUFFICES ASSUME IInv, EndLadder PROVE IInv'
  OBVIOUS
<1>. DEFINE n == [tick EXCEPT !.pc = "digest"]
<1>1. /\ TypeOK /\ TickInv /\ tick.pc = "loop" /\ tick.pass = "ladder" /\ tick \in Ticks
      /\ tick' = n \/ tick' = IdleTick
      /\ UNCHANGED <<protocolVars, tableVars, discordVars, lapses, skipped, faults>>
  BY DEF IInv, TypeOK, EndLadder, AfterLadder
<1>2. /\ n \in Ticks /\ n.pc = "digest" /\ n.pass = tick.pass /\ n.round = tick.round
      /\ n.rewarded = tick.rewarded
  BY <1>1 DEF Ticks
<1>. HIDE DEF n
<1>3. round >= 0
  BY <1>1 DEF TypeOK, Rounds
<1>4. TickInv'
  BY <1>1, <1>2, <1>3, TickTypes DEF TickInv, protocolVars, tableVars
<1>5. skipped' \subseteq Rounds \X Orchs /\ faults' \in 0..MaxFaults
  BY <1>1 DEF TypeOK
<1>. QED BY <1>1, <1>2, <1>4, <1>5, TickTypes, TickFrame

LEMMA ListRewardedStep == IInv /\ ListRewarded => IInv'
<1>. SUFFICES ASSUME IInv, ListRewarded PROVE IInv'
  OBVIOUS
<1>. DEFINE seen == rewarded[tick.round]
            t == [tick EXCEPT !.pass = "ladder", !.rewarded = seen, !.todo = Subscribed]
            a == [t EXCEPT !.pc = "loop"]
            b == [t EXCEPT !.pc = "digest"]
<1>1. /\ TypeOK /\ TickInv /\ ResolvedInv /\ tick.pc = "list" /\ tick \in Ticks
      /\ tick.round \in Rounds
      /\ resolved' = resolved \union {<<tick.round, o>> : o \in seen \intersect Subscribed}
      /\ UNCHANGED <<protocolVars, alerts, notified, missedCursor, digestCursor, discordVars,
                     lapses, skipped, faults>>
  BY DEF IInv, TypeOK, ListRewarded, Ticks
<1>2. tick' = a \/ tick' = b \/ tick' = IdleTick
  BY Zenon DEF ListRewarded, AfterLadder
<1>3. seen \in SUBSET Orchs /\ Subscribed \in SUBSET Orchs
  BY <1>1 DEF TypeOK, Subscribed
<1>. HIDE DEF seen
<1>4. t \in Ticks /\ t.pass = "ladder" /\ t.round = tick.round /\ t.rewarded = seen
  BY <1>1, <1>3 DEF Ticks
<1>. HIDE DEF t
<1>5. /\ a \in Ticks /\ a.pc = "loop" /\ a.pass = "ladder" /\ a.round = tick.round
      /\ a.rewarded = seen
  BY <1>4 DEF Ticks
<1>6. /\ b \in Ticks /\ b.pc = "digest" /\ b.pass = "ladder" /\ b.round = tick.round
      /\ b.rewarded = seen
  BY <1>4 DEF Ticks
<1>. HIDE DEF a, b
<1>7. /\ tick' \in Ticks
      /\ \/ /\ tick'.pc \in {"loop", "digest"} /\ tick'.pass = "ladder"
            /\ tick'.round = tick.round /\ tick'.rewarded = seen
         \/ tick'.pc = "idle" /\ tick'.pass = "none" /\ tick'.round = 0
  BY <1>2, <1>5, <1>6, TickTypes
<1>8. TickInv'
  <2>1. round \in Int /\ round' = round
    BY <1>1 DEF TypeOK, Rounds, protocolVars
  <2>. QED BY <1>1, <1>7, <2>1 DEF TickInv
<1>9. ResolvedInv' /\ resolved' \subseteq Rounds \X Orchs
  <2>1. rewarded' = rewarded /\ resolved \subseteq Rounds \X Orchs
    BY <1>1 DEF protocolVars, TypeOK
  <2>2. ASSUME NEW p \in resolved'
        PROVE  p \in Rounds \X Orchs /\ p[2] \in rewarded[p[1]]
    <3>1. CASE p \in resolved
      BY <1>1, <2>1, <3>1 DEF ResolvedInv
    <3>2. CASE p \notin resolved
      <4>1. PICK o \in seen \intersect Subscribed : p = <<tick.round, o>>
        BY <1>1, <3>2
      <4>. QED BY <1>1, <1>3, <4>1 DEF seen
    <3>. QED BY <3>1, <3>2
  <2>3. ResolvedInv'
    BY <1>7, <2>1, <2>2 DEF ResolvedInv, seen
  <2>. QED BY <2>2, <2>3
<1>10. skipped' \subseteq Rounds \X Orchs /\ faults' \in 0..MaxFaults
  BY <1>1 DEF TypeOK
<1>. QED BY <1>1, <1>7, <1>8, <1>9, <1>10, MarkFrame

\* The round a fan-out or digest is about.
LEMMA AboutTypes ==
    ASSUME TypeOK, TickInv, tick.pc # "idle"
    PROVE  /\ About(tick) \in Rounds /\ tick.round \in Rounds
           /\ tick.pass # "missed" => About(tick) = tick.round
           /\ tick.pass = "missed" => About(tick) = tick.round - 1
<1>1. tick.round >= 1 /\ tick.round \in Rounds
  BY DEF TickInv, TypeOK, Ticks
<1>. QED BY <1>1, BoundsAssumption DEF About, Rounds

LEMMA SendDmStep ==
    ASSUME NEW u \in Users, NEW delivered \in BOOLEAN
    PROVE  IInv /\ SendDm(u, delivered) => IInv'
<1>. SUFFICES ASSUME IInv, SendDm(u, delivered) PROVE IInv'
  OBVIOUS
<1>. DEFINE n == [tick EXCEPT !.subs = @ \ {u}]
            about == About(tick)
            orch == tick.orch
<1>1. /\ TypeOK /\ TickInv /\ ResolvedInv /\ LadderInv /\ MissedInv /\ DigestInv
      /\ tick.pc = "dm" /\ u \in tick.subs /\ tick \in Ticks /\ tick' = n
      /\ UNCHANGED <<protocolVars, tableVars, digests, lapses, skipped, faults>>
  BY DEF IInv, TypeOK, SendDm
<1>2. /\ n \in Ticks /\ n.pc = "dm" /\ n.pass = tick.pass /\ n.round = tick.round
      /\ n.due = tick.due /\ n.rewarded = tick.rewarded /\ n.orch = tick.orch
      /\ n.subs = tick.subs \ {u}
  BY <1>1 DEF Ticks
<1>. HIDE DEF n
<1>3. about \in Rounds /\ tick.pass \in {"missed", "ladder"} /\ orch \in SUBSET Orchs
  BY <1>1, AboutTypes DEF TickInv, Ticks
<1>4. About(tick)' = about /\ (\A o \in Orchs : NeedsNotice(o)' = NeedsNotice(o))
  BY <1>1, <1>2 DEF NeedsNotice, About, tableVars
<1>5. TickInv' /\ ResolvedInv'
  BY <1>1, <1>2, <1>4 DEF TickInv, ResolvedInv, protocolVars, tableVars
\* What the step does to the two counters.
<1>6. /\ missedDms' = IF delivered /\ tick.pass = "missed"
                      THEN Counted(missedDms, about, orch, u) ELSE missedDms
      /\ ladderDms' = IF delivered /\ tick.pass # "missed"
                      THEN Counted(ladderDms, about, orch, u) ELSE ladderDms
  BY Zenon DEF SendDm
<1>. HIDE DEF about, orch
<1>13. ASSUME NEW dms \in [Rounds -> [Orchs -> [Users -> Nat]]]
       PROVE  Counted(dms, about, orch, u) \in [Rounds -> [Orchs -> [Users -> Nat]]]
  BY <1>3, CountedTypes, Zenon
<1>14. ASSUME NEW dms \in [Rounds -> [Orchs -> [Users -> Nat]]]
       PROVE  CountedOnce(Counted(dms, about, orch, u), dms, about, orch, u)
  BY <1>3, CountedTypes, Zenon
<1>7. /\ ladderDms' \in [Rounds -> [Orchs -> [Users -> Nat]]]
      /\ missedDms' \in [Rounds -> [Orchs -> [Users -> Nat]]]
  <2>1. /\ ladderDms \in [Rounds -> [Orchs -> [Users -> Nat]]]
        /\ missedDms \in [Rounds -> [Orchs -> [Users -> Nat]]]
    BY <1>1 DEF TypeOK
  <2>2. /\ Counted(ladderDms, about, orch, u) \in [Rounds -> [Orchs -> [Users -> Nat]]]
        /\ Counted(missedDms, about, orch, u) \in [Rounds -> [Orchs -> [Users -> Nat]]]
    BY <2>1, <1>13, Zenon
  <2>. QED BY <2>1, <2>2, <1>6
<1>8. TypeOK'
  BY <1>1, <1>2, <1>7 DEF TypeOK, protocolVars, tableVars
<1>9. ASSUME NEW r \in Rounds, NEW o \in Orchs, NEW v \in Users, NEW pass \in {"missed", "ladder"}
      PROVE  /\ Reached(r, o, v, pass) => Reached(r, o, v, pass)'
             /\ tick.pass = pass /\ o \in orch /\ about = r /\ v = u
                    => ~Reached(r, o, v, pass) /\ Reached(r, o, v, pass)'
  BY <1>1, <1>2, <1>4 DEF Reached, about, orch
<1>10. LadderInv'
  <2>1. ASSUME NEW r \in Rounds, NEW o \in Orchs, NEW v \in Users, r + 1 >= round'
        PROVE  ladderDms'[r][o][v] <= alerts'[r][o] + lapses'[r] + One(Reached(r, o, v, "ladder")')
    <3>1. ladderDms[r][o][v] <= alerts[r][o] + lapses[r] + One(Reached(r, o, v, "ladder"))
      BY <1>1, <2>1 DEF LadderInv, protocolVars
    <3>2. ladderDms'[r][o][v] = ladderDms[r][o][v] \/
            /\ ladderDms'[r][o][v] = ladderDms[r][o][v] + 1
            /\ tick.pass = "ladder" /\ o \in orch /\ about = r /\ v = u
      <4>1. CASE delivered /\ tick.pass # "missed"
        <5>1. ladderDms'[r][o][v] = IF r = about /\ o \in orch /\ v = u THEN ladderDms[r][o][v] + 1
                                                                      ELSE ladderDms[r][o][v]
          <6>1. ladderDms \in [Rounds -> [Orchs -> [Users -> Nat]]]
            BY <1>1 DEF TypeOK
          <6>2. ladderDms' = Counted(ladderDms, about, orch, u)
            BY <1>6, <4>1
          <6>3. CountedOnce(ladderDms', ladderDms, about, orch, u)
            BY <1>14, <6>1, <6>2, Zenon
          <6>. QED BY <6>3 DEF CountedOnce
        <5>2. ladderDms[r][o][v] \in Nat
          BY <1>1 DEF TypeOK
        <5>. QED BY <1>3, <4>1, <5>1, <5>2 DEF One
      <4>2. CASE ~(delivered /\ tick.pass # "missed")
        BY <1>6, <4>2
      <4>. QED BY <4>1, <4>2
    <3>3. alerts[r][o] \in Nat /\ lapses[r] \in Nat /\ ladderDms[r][o][v] \in Nat
          /\ alerts' = alerts /\ lapses' = lapses
      BY <1>1 DEF TypeOK, tableVars
    <3>4. /\ Reached(r, o, v, "ladder") => Reached(r, o, v, "ladder")'
          /\ tick.pass = "ladder" /\ o \in orch /\ about = r /\ v = u
                    => ~Reached(r, o, v, "ladder") /\ Reached(r, o, v, "ladder")'
      BY <1>9
    <3>. QED BY <3>1, <3>2, <3>3, <3>4 DEF One
  <2>. QED BY <2>1 DEF LadderInv, One
<1>11. MissedInv'
  <2>1. ASSUME NEW r \in Rounds, NEW o \in Orchs, NEW v \in Users
        PROVE  missedDms'[r][o][v]
                  <= lapses'[r] + One((MissedDone(r, o) \/ Reached(r, o, v, "missed"))')
    <3>1. missedDms[r][o][v] <= lapses[r] + One(MissedDone(r, o) \/ Reached(r, o, v, "missed"))
      BY <1>1 DEF MissedInv
    <3>2. missedDms'[r][o][v] = missedDms[r][o][v] \/
            /\ missedDms'[r][o][v] = missedDms[r][o][v] + 1
            /\ tick.pass = "missed" /\ o \in orch /\ about = r /\ v = u
      <4>1. CASE delivered /\ tick.pass = "missed"
        <5>1. missedDms'[r][o][v] = IF r = about /\ o \in orch /\ v = u THEN missedDms[r][o][v] + 1
                                                                      ELSE missedDms[r][o][v]
          <6>1. missedDms \in [Rounds -> [Orchs -> [Users -> Nat]]]
            BY <1>1 DEF TypeOK
          <6>2. missedDms' = Counted(missedDms, about, orch, u)
            BY <1>6, <4>1
          <6>3. CountedOnce(missedDms', missedDms, about, orch, u)
            BY <1>14, <6>1, <6>2, Zenon
          <6>. QED BY <6>3 DEF CountedOnce
        <5>2. missedDms[r][o][v] \in Nat
          BY <1>1 DEF TypeOK
        <5>. QED BY <4>1, <5>1, <5>2 DEF One
      <4>2. CASE ~(delivered /\ tick.pass = "missed")
        BY <1>6, <4>2
      <4>. QED BY <4>1, <4>2
    <3>3. lapses[r] \in Nat /\ missedDms[r][o][v] \in Nat /\ lapses' = lapses
          /\ MissedDone(r, o)' = MissedDone(r, o)
      BY <1>1 DEF TypeOK, tableVars, MissedDone
    <3>4. /\ Reached(r, o, v, "missed") => Reached(r, o, v, "missed")'
          /\ tick.pass = "missed" /\ o \in orch /\ about = r /\ v = u
                    => ~Reached(r, o, v, "missed") /\ Reached(r, o, v, "missed")'
      BY <1>9
    \* The DM being sent is not a repetition: the orchestrator is not done.
    <3>5. tick.pass = "missed" /\ o \in orch /\ about = r => ~MissedDone(r, o)
      <4>1. ASSUME tick.pass = "missed", o \in orch, about = r PROVE ~MissedDone(r, o)
        <5>1. NeedsNotice(o)
          BY <1>1, <4>1 DEF TickInv, orch
        <5>2. missedCursor \in Rounds /\ missedCursor < tick.round - 1 /\ r = tick.round - 1
          BY <1>1, <4>1, AboutTypes DEF TickInv, about
        <5>3. missedCursor \in Int /\ tick.round \in Int
          BY <1>1, <5>2 DEF Ticks, Rounds
        <5>. QED BY <4>1, <5>1, <5>2, <5>3 DEF MissedDone, NeedsNotice, about
      <4>. QED BY <4>1
    <3>. QED BY <3>1, <3>2, <3>3, <3>4, <3>5 DEF One
  <2>. QED BY <2>1 DEF MissedInv, One
<1>12. DigestInv'
  <2>1. LapsesKept /\ DigestKept
    BY <1>1, <1>2 DEF LapsesKept, DigestKept, DigestDone, TypeOK, tableVars
  <2>. QED BY <1>1, <1>8, <2>1, DigestCovered
<1>. QED BY <1>5, <1>8, <1>10, <1>11, <1>12 DEF IInv

LEMMA RecordNoticeStep == IInv /\ RecordNotice => IInv'
<1>. SUFFICES ASSUME IInv, RecordNotice PROVE IInv'
  OBVIOUS
<1>. DEFINE n == [tick EXCEPT !.pc = "loop", !.orch = {}]
<1>1. /\ TypeOK /\ TickInv /\ ResolvedInv /\ LadderInv /\ MissedInv /\ DigestInv
      /\ tick.pc = "dm" /\ tick.subs = {} /\ tick \in Ticks /\ tick' = n
      /\ UNCHANGED <<protocolVars, resolved, missedCursor, digestCursor, discordVars, lapses,
                     skipped, faults>>
  BY DEF IInv, TypeOK, RecordNotice
<1>2. /\ n \in Ticks /\ n.pc = "loop" /\ n.pass = tick.pass /\ n.round = tick.round
      /\ n.rewarded = tick.rewarded
  BY <1>1 DEF Ticks
<1>. HIDE DEF n
<1>3. PICK x \in Orchs : tick.orch = {x} /\ NeedsNotice(x)
  BY <1>1 DEF TickInv
<1>4. /\ About(tick) \in Rounds /\ tick.round \in Rounds /\ tick.due \in Nat
      /\ tick.pass # "missed" => About(tick) = tick.round
  BY <1>1, AboutTypes DEF Ticks
<1>5. IF tick.pass = "missed"
      THEN notified' = notified \union {<<About(tick), x>>} /\ alerts' = alerts
      ELSE alerts' = [alerts EXCEPT ![tick.round][x] = tick.due] /\ notified' = notified
  BY <1>3 DEF RecordNotice
<1>6. /\ notified' \subseteq Rounds \X Orchs /\ notified \subseteq notified'
      /\ tick.pass = "missed" => <<About(tick), x>> \in notified'
  BY <1>1, <1>4, <1>5 DEF TypeOK
<1>7. /\ alerts' \in [Rounds -> [Orchs -> Nat]]
      /\ \A r \in Rounds, o \in Orchs : alerts[r][o] <= alerts'[r][o]
      /\ tick.pass # "missed" => alerts[tick.round][x] < alerts'[tick.round][x]
  <2>1. CASE tick.pass = "missed"
    BY <1>1, <1>5, <2>1 DEF TypeOK
  <2>2. CASE tick.pass # "missed"
    <3>1. alerts[tick.round][x] < tick.due
      BY <1>3, <2>2 DEF NeedsNotice
    <3>2. alerts' = [alerts EXCEPT ![tick.round] = [alerts[tick.round] EXCEPT ![x] = tick.due]]
      BY <1>5, <2>2
    <3>3. alerts \in [Rounds -> [Orchs -> Nat]]
      BY <1>1 DEF TypeOK
    <3>. QED BY <1>4, <2>2, <3>1, <3>2, <3>3
  <2>. QED BY <2>1, <2>2
<1>8. TypeOK'
  BY <1>1, <1>2, <1>6, <1>7 DEF TypeOK, protocolVars, discordVars
<1>9. TickInv' /\ ResolvedInv'
  BY <1>1, <1>2 DEF TickInv, ResolvedInv, protocolVars
<1>10. LapsesKept /\ DigestKept
  BY <1>1 DEF LapsesKept, DigestKept, DigestDone, TypeOK
<1>11. LadderKept
  <2>1. round \in Int /\ round' = round
    BY <1>1 DEF TypeOK, Rounds, protocolVars
  <2>2. ASSUME NEW r \in Rounds, NEW o \in Orchs, NEW u \in Users, Reached(r, o, u, "ladder")
        PROVE  alerts[r][o] < alerts'[r][o]
    BY <1>3, <1>4, <1>7, <2>2 DEF Reached
  <2>. QED BY <1>7, <2>1, <2>2 DEF LadderKept
<1>12. MissedKept
  <2>1. ASSUME NEW r \in Rounds, NEW o \in Orchs, NEW u \in Users, Reached(r, o, u, "missed")
        PROVE  <<r, o>> \in notified'
    BY <1>3, <1>6, <2>1 DEF Reached
  <2>. QED BY <1>1, <1>6, <2>1 DEF MissedKept, MissedDone
<1>. QED BY <1>1, <1>8, <1>9, <1>10, <1>11, <1>12, LadderCovered, MissedCovered, DigestCovered
         DEF IInv, discordVars

LEMMA EndMissedPassStep == IInv /\ EndMissedPass => IInv'
<1>. SUFFICES ASSUME IInv, EndMissedPass PROVE IInv'
  OBVIOUS
<1>. DEFINE oldest == tick.round - KeepRounds
            n == [tick EXCEPT !.pc = "list"]
<1>1. /\ TypeOK /\ TickInv /\ ResolvedInv /\ LadderInv /\ MissedInv /\ DigestInv
      /\ tick.pc = "loop" /\ tick.pass = "missed" /\ tick \in Ticks /\ tick' = n
      /\ missedCursor' = About(tick)
      /\ alerts' = [r \in Rounds |-> IF r < oldest THEN [o \in Orchs |-> 0] ELSE alerts[r]]
      /\ resolved' = {p \in resolved : p[1] >= oldest}
      /\ notified' = {p \in notified : p[1] >= oldest}
      /\ UNCHANGED <<protocolVars, digestCursor, discordVars, lapses, skipped, faults>>
  BY DEF IInv, TypeOK, EndMissedPass
<1>2. /\ n \in Ticks /\ n.pc = "list" /\ n.pass = "missed" /\ n.round = tick.round
  BY <1>1 DEF Ticks
<1>. HIDE DEF n
<1>3. /\ About(tick) \in Rounds /\ tick.round \in Rounds /\ About(tick) = tick.round - 1
      /\ tick.round \in Int /\ round \in Int /\ tick.round <= round
      /\ missedCursor \in Rounds /\ missedCursor < tick.round - 1
  <2>1. /\ About(tick) \in Rounds /\ tick.round \in Rounds /\ About(tick) = tick.round - 1
    BY <1>1, AboutTypes
  <2>2. round \in Rounds /\ tick.round <= round
        /\ missedCursor \in Rounds /\ missedCursor < tick.round - 1
    BY <1>1 DEF TypeOK, TickInv
  <2>. QED BY <2>1, <2>2 DEF Rounds
<1>4. oldest \in Int /\ oldest <= tick.round - 1
  BY <1>3, BoundsAssumption
<1>5. TypeOK'
  <2>1. alerts' \in [Rounds -> [Orchs -> Nat]]
    BY <1>1 DEF TypeOK
  <2>2. /\ resolved' \subseteq Rounds \X Orchs /\ notified' \subseteq Rounds \X Orchs
        /\ missedCursor' \in Rounds \union {NoCursor}
    BY <1>1, <1>3 DEF TypeOK
  <2>. QED BY <1>1, <1>2, <2>1, <2>2 DEF TypeOK, protocolVars, discordVars
<1>6. TickInv' /\ ResolvedInv'
  BY <1>1, <1>2, <1>3 DEF TickInv, ResolvedInv, protocolVars
<1>7. LapsesKept /\ DigestKept
  BY <1>1, <1>2 DEF LapsesKept, DigestKept, DigestDone, TypeOK
<1>8. LadderKept
  <2>1. round' = round
    BY <1>1 DEF protocolVars
  \* Only rounds older than the closed one are pruned.
  <2>2. ASSUME NEW r \in Rounds, NEW o \in Orchs, r + 1 >= round
        PROVE  alerts'[r][o] = alerts[r][o] /\ alerts[r][o] \in Nat
    <3>1. r \in Int
      BY DEF Rounds
    <3>2. ~(r < oldest)
      BY <1>3, <1>4, <2>2, <3>1
    <3>. QED BY <1>1, <3>2 DEF TypeOK
  <2>. QED BY <1>1, <1>3, <2>1, <2>2 DEF LadderKept, Reached
<1>9. MissedKept
  <2>1. ASSUME NEW r \in Rounds, NEW o \in Orchs, MissedDone(r, o)
        PROVE  MissedDone(r, o)'
    <3>1. r \in Int /\ missedCursor \in Int
      BY <1>3 DEF Rounds
    <3>2. CASE r <= missedCursor
      BY <1>1, <1>3, <3>1, <3>2 DEF MissedDone
    <3>3. CASE ~(r <= missedCursor)
      <4>1. <<r, o>> \in notified
        BY <2>1, <3>3 DEF MissedDone
      <4>2. CASE r >= oldest
        BY <1>1, <4>1, <4>2 DEF MissedDone
      <4>3. CASE ~(r >= oldest)
        BY <1>1, <1>3, <1>4, <3>1, <4>3 DEF MissedDone
      <4>. QED BY <4>2, <4>3
    <3>. QED BY <3>2, <3>3
  <2>. QED BY <1>1, <2>1 DEF MissedKept, Reached
<1>. QED BY <1>1, <1>5, <1>6, <1>7, <1>8, <1>9, LadderCovered, MissedCovered, DigestCovered
         DEF IInv, discordVars

LEMMA PostDigestStep == IInv /\ PostDigest => IInv'
<1>. SUFFICES ASSUME IInv, PostDigest PROVE IInv'
  OBVIOUS
<1>. DEFINE n == [tick EXCEPT !.pc = "posted"]
<1>1. /\ TypeOK /\ TickInv /\ ResolvedInv /\ LadderInv /\ MissedInv /\ DigestInv
      /\ tick.pc = "digest" /\ tick.pass = "ladder" /\ tick \in Ticks /\ tick.round \in Rounds
      /\ UNCHANGED <<protocolVars, alerts, resolved, notified, missedCursor, ladderDms, missedDms,
                     lapses, skipped, faults>>
  BY DEF IInv, TypeOK, PostDigest, TickInv, Ticks
<1>2. \/ tick' = IdleTick /\ UNCHANGED <<digestCursor, digests>>
      \/ /\ tick' = IdleTick /\ digestCursor' = tick.round /\ UNCHANGED digests
         /\ ~(digestCursor >= tick.round)
      \/ /\ digests' = [digests EXCEPT ![tick.round] = @ + 1] /\ tick' = n
         /\ digestCursor' = digestCursor /\ ~(digestCursor >= tick.round)
  BY DEF PostDigest
<1>3. /\ n \in Ticks /\ n.pc = "posted" /\ n.pass = "ladder" /\ n.round = tick.round
      /\ n.rewarded = tick.rewarded
  BY <1>1 DEF Ticks
<1>. HIDE DEF n
<1>4. digestCursor \in Int /\ tick.round \in Int /\ round \in Int /\ round >= 1
      /\ tick.round <= round
  BY <1>1 DEF TypeOK, TickInv, Rounds
<1>5. TypeOK'
  <2>1. digests' \in [Rounds -> Nat] /\ digestCursor' \in Rounds /\ tick' \in Ticks
    <3>1. digests \in [Rounds -> Nat] /\ digestCursor \in Rounds
      BY <1>1 DEF TypeOK
    <3>2. digests' \in [Rounds -> Nat]
      BY <1>1, <1>2, <3>1
    <3>. QED BY <1>1, <1>2, <1>3, <3>1, <3>2, TickTypes
  <2>. QED BY <1>1, <2>1 DEF TypeOK, protocolVars
<1>6. TickInv' /\ ResolvedInv'
  <2>1. TickInv'
    BY <1>1, <1>2, <1>3, <1>4, TickTypes DEF TickInv, protocolVars
  <2>2. ResolvedInv'
    BY <1>1, <1>2, <1>3, TickTypes DEF ResolvedInv, protocolVars
  <2>. QED BY <2>1, <2>2
<1>7. LapsesKept /\ LadderKept /\ MissedKept
  <2>1. /\ \A r \in Rounds, o \in Orchs, u \in Users :
                ~Reached(r, o, u, "ladder") /\ ~Reached(r, o, u, "missed")
        /\ \A r \in Rounds, o \in Orchs : MissedDone(r, o) => MissedDone(r, o)'
    BY <1>1 DEF Reached, MissedDone
  <2>2. /\ \A r \in Rounds, o \in Orchs : alerts[r][o] \in Nat /\ alerts'[r][o] = alerts[r][o]
        /\ \A r \in Rounds : lapses[r] \in Nat /\ lapses'[r] = lapses[r]
    BY <1>1 DEF TypeOK
  <2>3. round' = round
    BY <1>1 DEF protocolVars
  <2>. QED BY <1>4, <2>1, <2>2, <2>3 DEF LapsesKept, LadderKept, MissedKept
<1>8. DigestInv'
  <2>1. CASE UNCHANGED digests
    <3>1. DigestKept
      <4>1. \A r \in Rounds : DigestDone(r) => r <= digestCursor
        BY <1>1 DEF DigestDone
      <4>2. digestCursor <= digestCursor'
        BY <1>2, <1>4
      <4>3. \A r \in Rounds : r \in Int
        BY DEF Rounds
      <4>4. digestCursor' \in Int
        BY <1>5 DEF TypeOK, Rounds
      <4>. QED BY <1>4, <4>1, <4>2, <4>3, <4>4 DEF DigestKept, DigestDone
    <3>. QED BY <1>1, <1>5, <1>7, <2>1, <3>1, DigestCovered
  <2>2. CASE /\ digests' = [digests EXCEPT ![tick.round] = @ + 1] /\ tick' = n
             /\ digestCursor' = digestCursor /\ ~(digestCursor >= tick.round)
    <3>1. ASSUME NEW r \in Rounds PROVE digests'[r] <= lapses'[r] + One(DigestDone(r)')
      <4>1. digests[r] <= lapses[r] + One(DigestDone(r))
        BY <1>1 DEF DigestInv
      <4>2. lapses[r] \in Nat /\ lapses' = lapses /\ digests[r] \in Nat /\ r \in Int
        <5>1. lapses[r] \in Nat /\ digests[r] \in Nat
          BY <1>1 DEF TypeOK
        <5>. QED BY <1>1, <5>1 DEF Rounds
      <4>3. CASE r = tick.round
        <5>1. ~DigestDone(r)
          BY <1>1, <1>4, <2>2, <4>3 DEF DigestDone
        <5>2. DigestDone(r)'
          BY <1>3, <2>2, <4>3 DEF DigestDone
        <5>3. digests'[r] = digests[r] + 1
          BY <1>1, <2>2, <4>3 DEF TypeOK
        <5>. QED BY <4>1, <4>2, <5>1, <5>2, <5>3 DEF One
      <4>4. CASE r # tick.round
        <5>1. DigestDone(r) => DigestDone(r)'
          BY <1>1, <2>2 DEF DigestDone
        <5>2. digests'[r] = digests[r]
          BY <1>1, <2>2, <4>4 DEF TypeOK
        <5>. QED BY <4>1, <4>2, <5>1, <5>2 DEF One
      <4>. QED BY <4>3, <4>4
    <3>. QED BY <3>1 DEF DigestInv, One
  <2>. QED BY <1>2, <2>1, <2>2
<1>. QED BY <1>1, <1>5, <1>6, <1>7, <1>8, LadderCovered, MissedCovered DEF IInv

LEMMA RecordDigestStep == IInv /\ RecordDigest => IInv'
<1>. SUFFICES ASSUME IInv, RecordDigest PROVE IInv'
  OBVIOUS
<1>1. /\ TypeOK /\ TickInv /\ ResolvedInv /\ LadderInv /\ MissedInv /\ DigestInv
      /\ tick.pc = "posted" /\ tick.round \in Rounds /\ tick' = IdleTick
      /\ digestCursor' = tick.round /\ digestCursor < tick.round
      /\ UNCHANGED <<protocolVars, alerts, resolved, notified, missedCursor, discordVars,
                     lapses, skipped, faults>>
  BY DEF IInv, TypeOK, RecordDigest, TickInv, Ticks
<1>2. digestCursor \in Int /\ tick.round \in Int /\ round \in Int /\ round >= 1
  BY <1>1 DEF TypeOK, TickInv, Rounds
<1>3. TypeOK'
  BY <1>1, TickTypes DEF TypeOK, protocolVars, discordVars
<1>4. TickInv' /\ ResolvedInv'
  <2>1. TickInv'
    BY <1>1, <1>2, TickTypes DEF TickInv, protocolVars
  <2>2. ResolvedInv'
    BY <1>1, TickTypes DEF ResolvedInv, protocolVars
  <2>. QED BY <2>1, <2>2
<1>5. LapsesKept /\ LadderKept /\ MissedKept
  <2>1. /\ \A r \in Rounds, o \in Orchs, u \in Users :
                ~Reached(r, o, u, "ladder") /\ ~Reached(r, o, u, "missed")
        /\ \A r \in Rounds, o \in Orchs : MissedDone(r, o) => MissedDone(r, o)'
    BY <1>1 DEF Reached, MissedDone
  <2>2. /\ \A r \in Rounds, o \in Orchs : alerts[r][o] \in Nat /\ alerts'[r][o] = alerts[r][o]
        /\ \A r \in Rounds : lapses[r] \in Nat /\ lapses'[r] = lapses[r]
    BY <1>1 DEF TypeOK
  <2>3. round' = round
    BY <1>1 DEF protocolVars
  <2>. QED BY <1>2, <2>1, <2>2, <2>3 DEF LapsesKept, LadderKept, MissedKept
<1>6. DigestKept
  <2>1. \A r \in Rounds : r \in Int
    BY DEF Rounds
  <2>. QED BY <1>1, <1>2, <2>1 DEF DigestKept, DigestDone
<1>. QED BY <1>1, <1>3, <1>4, <1>5, <1>6, LadderCovered, MissedCovered, DigestCovered
         DEF IInv, discordVars

\* A post repeated inside one send: the digest more is a lapse more.
LEMMA RepostDigestStep == IInv /\ RepostDigest => IInv'
<1>. SUFFICES ASSUME IInv, RepostDigest PROVE IInv'
  OBVIOUS
<1>1. /\ TypeOK /\ TickInv /\ ResolvedInv /\ LadderInv /\ MissedInv /\ DigestInv
      /\ tick.pc = "posted" /\ tick.round \in Rounds
      /\ digests' = [digests EXCEPT ![tick.round] = @ + 1]
      /\ lapses' = [lapses EXCEPT ![tick.round] = @ + 1]
      /\ faults < MaxFaults /\ faults' = faults + 1
      /\ UNCHANGED <<protocolVars, tableVars, tick, ladderDms, missedDms, skipped>>
  BY DEF IInv, TypeOK, RepostDigest, Ticks
<1>2. digests \in [Rounds -> Nat] /\ lapses \in [Rounds -> Nat] /\ round \in Int
  BY <1>1 DEF TypeOK, Rounds
<1>3. /\ digests' \in [Rounds -> Nat] /\ lapses' \in [Rounds -> Nat]
      /\ \A r \in Rounds :
            /\ digests'[r] = IF r = tick.round THEN digests[r] + 1 ELSE digests[r]
            /\ lapses'[r] = IF r = tick.round THEN lapses[r] + 1 ELSE lapses[r]
  BY <1>1, <1>2
<1>4. TypeOK'
  <2>1. faults' \in 0..MaxFaults
    BY <1>1, BoundsAssumption DEF TypeOK
  <2>. QED BY <1>1, <1>3, <2>1 DEF TypeOK, protocolVars, tableVars
<1>5. TickInv' /\ ResolvedInv'
  <2>1. \A o \in Orchs : NeedsNotice(o)' = NeedsNotice(o)
    BY <1>1 DEF NeedsNotice, About, tableVars
  <2>2. TickInv'
    BY <1>1, <2>1 DEF TickInv, tableVars, protocolVars
  <2>3. ResolvedInv'
    BY <1>1 DEF ResolvedInv, tableVars, protocolVars
  <2>. QED BY <2>2, <2>3
<1>6. LapsesKept /\ LadderKept /\ MissedKept
  <2>1. \A r \in Rounds, o \in Orchs, u \in Users :
            ~Reached(r, o, u, "ladder") /\ ~Reached(r, o, u, "missed")
    BY <1>1 DEF Reached
  <2>2. \A r \in Rounds, o \in Orchs : MissedDone(r, o) => MissedDone(r, o)'
    BY <1>1 DEF MissedDone, tableVars
  <2>3. /\ \A r \in Rounds, o \in Orchs : alerts[r][o] \in Nat /\ alerts'[r][o] = alerts[r][o]
        /\ round' = round
    BY <1>1 DEF TypeOK, tableVars, protocolVars
  <2>4. \A r \in Rounds : lapses[r] \in Nat /\ lapses[r] <= lapses'[r]
    BY <1>2, <1>3
  <2>. QED BY <1>2, <2>1, <2>2, <2>3, <2>4 DEF LapsesKept, LadderKept, MissedKept
<1>7. DigestInv'
  <2>1. ASSUME NEW r \in Rounds PROVE digests'[r] <= lapses'[r] + One(DigestDone(r)')
    <3>1. digests[r] <= lapses[r] + One(DigestDone(r))
      BY <1>1 DEF DigestInv
    <3>2. DigestDone(r)' <=> DigestDone(r)
      BY <1>1 DEF DigestDone, tableVars
    <3>3. digests[r] \in Nat /\ lapses[r] \in Nat
      BY <1>2
    <3>. QED BY <1>3, <3>1, <3>2, <3>3 DEF One
  <2>. QED BY <2>1 DEF DigestInv, One
<1>. QED BY <1>1, <1>4, <1>5, <1>6, <1>7, LadderCovered, MissedCovered DEF IInv

\* A tick cut short: a failed call or the end of the process. What it had sent and
\* not recorded becomes a lapse.
LEMMA CutStep == IInv /\ (CallFails \/ Crash) => IInv'
<1>. SUFFICES ASSUME IInv, CallFails \/ Crash PROVE IInv'
  OBVIOUS
<1>. DEFINE n == [tick EXCEPT !.pc = "list", !.orch = {}, !.subs = {}]
<1>1. /\ TypeOK /\ TickInv /\ ResolvedInv /\ LadderInv /\ MissedInv /\ DigestInv
      /\ tick.pc # "idle" /\ tick \in Ticks /\ tick.round \in Rounds
      /\ faults < MaxFaults /\ faults' = faults + 1 /\ PartialWrites /\ CountLapse
      /\ UNCHANGED <<protocolVars, alerts, notified, digestCursor, discordVars, skipped>>
  BY DEF IInv, TypeOK, CallFails, Crash, PartialWrites, Ticks
<1>2. \/ tick' = IdleTick
      \/ tick' = n /\ (tick.pc = "closed" \/ (tick.pass = "missed" /\ tick.pc \in {"loop", "dm"}))
  BY DEF CallFails, Crash
<1>3. /\ n \in Ticks /\ n.pc = "list" /\ n.pass = tick.pass /\ n.round = tick.round
      /\ n.rewarded = tick.rewarded
  BY <1>1 DEF Ticks
<1>. HIDE DEF n
<1>4. /\ About(tick) \in Rounds
      /\ tick.pass # "missed" => About(tick) = tick.round
      /\ tick.pass = "missed" => About(tick) = tick.round - 1
  BY <1>1, AboutTypes
<1>5. /\ round \in Int /\ round >= 1 /\ tick.round \in Int /\ tick.round <= round
      /\ tick.round >= 1 /\ \A r \in Rounds : r \in Int
  BY <1>1 DEF TypeOK, TickInv, Rounds
<1>6. /\ resolved' \subseteq Rounds \X Orchs
      /\ \A p \in resolved' : p \in resolved \/ (tick.pc = "list" /\ p[1] = tick.round
                                                /\ p[2] \in rewarded[p[1]])
  <2>1. rewarded[tick.round] \in SUBSET Orchs /\ resolved \subseteq Rounds \X Orchs
    BY <1>1 DEF TypeOK
  <2>2. CASE tick.pc = "list"
    <3>1. PICK S \in SUBSET (rewarded[tick.round] \intersect Subscribed) :
                resolved' = resolved \union ({tick.round} \X S)
      BY <1>1, <2>2 DEF PartialWrites
    <3>. QED BY <1>1, <2>1, <2>2, <3>1
  <2>3. CASE tick.pc # "list"
    BY <1>1, <2>1, <2>3 DEF PartialWrites
  <2>. QED BY <2>2, <2>3
<1>7. \/ missedCursor' = missedCursor
      \/ /\ missedCursor' = About(tick) /\ missedCursor \in Rounds
         /\ missedCursor < About(tick)
  <2>1. \/ missedCursor' = missedCursor
        \/ tick.pc = "loop" /\ tick.pass = "missed" /\ missedCursor' = About(tick)
    BY <1>1 DEF PartialWrites
  <2>2. tick.pc = "loop" /\ tick.pass = "missed"
            => missedCursor \in Rounds /\ missedCursor < About(tick)
    BY <1>1, <1>4 DEF TickInv
  <2>. QED BY <2>1, <2>2
<1>8. /\ lapses' \in [Rounds -> Nat] /\ LapsesKept
      /\ tick.pc \in {"dm", "posted"} => lapses[About(tick)] < lapses'[About(tick)]
  BY <1>1, <1>4 DEF CountLapse, LapsesKept, TypeOK
<1>9. TypeOK'
  <2>1. /\ tick' \in Ticks /\ faults' \in 0..MaxFaults
        /\ missedCursor' \in Rounds \union {NoCursor}
    BY <1>1, <1>2, <1>3, <1>4, <1>7, TickTypes, BoundsAssumption DEF TypeOK
  <2>. QED BY <1>1, <1>6, <1>8, <2>1 DEF TypeOK, protocolVars, discordVars
<1>10. TickInv'
  BY <1>1, <1>2, <1>3, <1>5, TickTypes DEF TickInv, protocolVars
<1>11. ResolvedInv'
  <2>1. rewarded' = rewarded
    BY <1>1 DEF protocolVars
  <2>2. ASSUME NEW p \in resolved'
        PROVE  /\ p[2] \in rewarded[p[1]]
               /\ tick'.pass = "ladder" /\ p[1] = tick'.round => p[2] \in tick'.rewarded
    <3>1. CASE tick' = IdleTick
      BY <1>1, <1>6, <3>1, TickTypes DEF ResolvedInv
    <3>2. CASE tick' # IdleTick
      BY <1>1, <1>2, <1>3, <1>6, <3>2 DEF ResolvedInv
    <3>. QED BY <3>1, <3>2
  <2>. QED BY <2>1, <2>2 DEF ResolvedInv
<1>12. LadderKept
  <2>1. round' = round /\ alerts' = alerts
    BY <1>1 DEF protocolVars
  <2>2. \A r \in Rounds, o \in Orchs, u \in Users :
            Reached(r, o, u, "ladder") => lapses[r] < lapses'[r]
    BY <1>8 DEF Reached
  <2>3. \A r \in Rounds, o \in Orchs : alerts[r][o] \in Nat
    BY <1>1 DEF TypeOK
  <2>. QED BY <1>5, <2>1, <2>2, <2>3 DEF LadderKept
<1>13. MissedKept
  <2>1. \A r \in Rounds, o \in Orchs, u \in Users :
            Reached(r, o, u, "missed") => lapses[r] < lapses'[r]
    BY <1>8 DEF Reached
  <2>2. ASSUME NEW r \in Rounds, NEW o \in Orchs, MissedDone(r, o)
        PROVE  MissedDone(r, o)'
    <3>1. notified' = notified
      BY <1>1
    <3>2. CASE missedCursor' = missedCursor
      BY <2>2, <3>1, <3>2 DEF MissedDone
    <3>3. CASE /\ missedCursor' = About(tick) /\ missedCursor \in Rounds
               /\ missedCursor < About(tick)
      BY <1>4, <1>5, <2>2, <3>1, <3>3 DEF MissedDone
    <3>. QED BY <1>7, <3>2, <3>3
  <2>. QED BY <2>1, <2>2 DEF MissedKept
<1>14. DigestKept
  <2>1. tick.pc = "posted" => lapses[tick.round] < lapses'[tick.round]
    BY <1>1, <1>4, <1>8 DEF TickInv
  <2>. QED BY <1>1, <2>1 DEF DigestKept, DigestDone
<1>. QED BY <1>1, <1>8, <1>9, <1>10, <1>11, <1>12, <1>13, <1>14, LadderCovered, MissedCovered,
            DigestCovered DEF IInv, discordVars

LEMMA NextInv == IInv /\ [Next]_vars => IInv'
<1>. SUFFICES ASSUME IInv, [Next]_vars PROVE IInv'
  OBVIOUS
<1>1. CASE UNCHANGED vars
  BY <1>1, ProtocolFrame DEF vars, IInv, TypeOK, tableVars, discordVars, Rounds
<1>2. CASE Next
  BY <1>2, ProtocolStep, StartTickStep, ClosedRoundStep, ListRewardedStep, VisitOrchStep,
     ProfileFailsStep, SendDmStep, RecordNoticeStep, EndMissedPassStep, EndLadderStep,
     PostDigestStep, RecordDigestStep, RepostDigestStep, CutStep DEF Next, TickNext
<1>. QED BY <1>1, <1>2

LEMMA Invariance == Spec => []IInv
BY InitInv, NextInv, PTL DEF Spec

-----------------------------------------------------------------------------
(* The theorems.                                                           *)

\* Every variable keeps its type.
THEOREM Types == Spec => []TypeOK
<1>1. IInv => TypeOK
  BY DEF IInv
<1>. QED BY <1>1, Invariance, PTL

\* No alert, digest or missed-reward DM is repeated by a later tick, whatever became
\* of the tick that sent it: reward_watch_poller records each rung, round and digest
\* once it is sent, and reads those records before it sends.
THEOREM NeverToldTwice == Spec => []NothingToldTwice
<1>1. IInv => OneAlertPerRung
  <2>. SUFFICES ASSUME IInv, NEW r \in Rounds, NEW o \in Orchs, NEW u \in Users, r + 1 >= round
                PROVE  ladderDms[r][o][u] <= alerts[r][o] + lapses[r] + Sending(r, o, "ladder")
    BY DEF OneAlertPerRung
  <2>1. ladderDms[r][o][u] <= alerts[r][o] + lapses[r] + One(Reached(r, o, u, "ladder"))
    BY DEF IInv, LadderInv
  <2>2. ladderDms[r][o][u] \in Nat /\ alerts[r][o] \in Nat /\ lapses[r] \in Nat
    BY DEF IInv, TypeOK
  <2>3. Reached(r, o, u, "ladder") => Sending(r, o, "ladder") = 1
    BY DEF Reached, Sending
  <2>4. Sending(r, o, "ladder") \in {0, 1}
    BY DEF Sending
  <2>. QED BY <2>1, <2>2, <2>3, <2>4 DEF One
<1>2. IInv => OneDigestPerRound
  <2>. SUFFICES ASSUME IInv, NEW r \in Rounds PROVE digests[r] <= 1 + lapses[r]
    BY DEF OneDigestPerRound
  <2>1. digests[r] <= lapses[r] + One(DigestDone(r))
    BY DEF IInv, DigestInv
  <2>2. digests[r] \in Nat /\ lapses[r] \in Nat
    BY DEF IInv, TypeOK
  <2>. QED BY <2>1, <2>2 DEF One
<1>3. IInv => OneMissedDm
  <2>. SUFFICES ASSUME IInv, NEW r \in Rounds, NEW o \in Orchs, NEW u \in Users
                PROVE  missedDms[r][o][u] <= 1 + lapses[r]
    BY DEF OneMissedDm
  <2>1. missedDms[r][o][u] <= lapses[r] + One(MissedDone(r, o) \/ Reached(r, o, u, "missed"))
    BY DEF IInv, MissedInv
  <2>2. missedDms[r][o][u] \in Nat /\ lapses[r] \in Nat
    BY DEF IInv, TypeOK
  <2>. QED BY <2>1, <2>2 DEF One
<1>4. IInv => NothingToldTwice
  BY <1>1, <1>2, <1>3 DEF NothingToldTwice
<1>. QED BY <1>4, Invariance, PTL

\* The rungs recorded for the rounds still watched never go down: set_alerts_sent
\* only raises them, and prune_before stays clear of the watched rounds.
THEOREM RungsStay == Spec => RungsNeverRegress
<1>1. ASSUME IInv, [Next]_vars, NEW r \in Rounds, NEW o \in Orchs, r + 1 >= round
      PROVE  alerts'[r][o] >= alerts[r][o]
  <2>1. TypeOK /\ TickInv /\ alerts[r][o] \in Nat /\ r \in Int
    <3>1. TypeOK /\ TickInv /\ alerts[r][o] \in Nat
      BY <1>1 DEF IInv, TypeOK
    <3>. QED BY <3>1 DEF Rounds
  <2>2. CASE UNCHANGED alerts
    BY <2>1, <2>2
  <2>3. CASE RecordNotice
    <3>1. PICK x \in Orchs : tick.orch = {x} /\ NeedsNotice(x)
      BY <2>1, <2>3 DEF TickInv, RecordNotice
    <3>2. tick.round \in Rounds /\ tick.due \in Nat
      BY <2>1 DEF TypeOK, Ticks
    <3>3. CASE tick.pass = "missed"
      BY <2>1, <2>3, <3>1, <3>3 DEF RecordNotice
    <3>4. CASE tick.pass # "missed"
      <4>1. alerts' = [alerts EXCEPT ![tick.round] = [alerts[tick.round] EXCEPT ![x] = tick.due]]
        BY <2>3, <3>1, <3>4 DEF RecordNotice
      <4>2. alerts[tick.round][x] < tick.due
        BY <3>1, <3>4 DEF NeedsNotice
      <4>3. alerts \in [Rounds -> [Orchs -> Nat]]
        BY <2>1 DEF TypeOK
      <4>. QED BY <2>1, <3>2, <4>1, <4>2, <4>3
    <3>. QED BY <3>3, <3>4
  <2>4. CASE EndMissedPass
    <3>1. tick.round \in Int /\ round \in Int /\ tick.round <= round
      BY <2>1 DEF TypeOK, TickInv, Ticks, Rounds
    <3>2. ~(r < tick.round - KeepRounds)
      BY <1>1, <2>1, <3>1, BoundsAssumption
    <3>. QED BY <2>1, <2>4, <3>2 DEF EndMissedPass
  <2>5. UNCHANGED alerts \/ RecordNotice \/ EndMissedPass
    BY <1>1, Zenon DEF Next, TickNext, vars, Elapse, NewRound, IndexBoundary, IndexReward, StartTick,
       ClosedRound, ListRewarded, VisitOrch, ProfileFails, SendDm, EndLadder, PostDigest,
       RecordDigest, RepostDigest, CallFails, Crash, PartialWrites, tableVars
  <2>. QED BY <2>2, <2>3, <2>4, <2>5
<1>2. IInv /\ [Next]_vars =>
        [\A r \in Rounds, o \in Orchs : r + 1 >= round => alerts'[r][o] >= alerts[r][o]]_vars
  BY <1>1
<1>. QED BY <1>2, Invariance, PTL DEF Spec, RungsNeverRegress

\* Once a reward call is recorded, no further ladder alert of that round goes out
\* about it: the tick that alerts took its list after the record was made.
THEOREM RewardedStaysQuiet == Spec => ResolvedStaysQuiet
<1>1. ASSUME IInv, [Next]_vars, NEW p \in resolved
      PROVE  ladderDms'[p[1]][p[2]] = ladderDms[p[1]][p[2]]
  <2>1. TypeOK /\ TickInv /\ ResolvedInv /\ p \in Rounds \X Orchs
    BY <1>1 DEF IInv, TypeOK
  <2>2. CASE UNCHANGED ladderDms
    BY <2>2
  <2>3. ASSUME NEW u \in Users, NEW delivered \in BOOLEAN, SendDm(u, delivered)
        PROVE  ladderDms'[p[1]][p[2]] = ladderDms[p[1]][p[2]]
    <3>1. CASE ~delivered \/ tick.pass = "missed"
      BY <2>3, <3>1 DEF SendDm
    <3>2. CASE delivered /\ tick.pass # "missed"
      <4>1. PICK x \in Orchs : tick.orch = {x} /\ NeedsNotice(x)
        BY <2>1, <2>3 DEF TickInv, SendDm
      <4>2. tick.pass = "ladder" /\ tick.round \in Rounds /\ About(tick) = tick.round
        BY <2>1, <2>3, <3>2 DEF TickInv, SendDm, TypeOK, Ticks, About
      <4>3. ~(p[1] = tick.round /\ p[2] = x)
        BY <2>1, <4>1, <4>2 DEF ResolvedInv, NeedsNotice
      <4>4. ladderDms' = Counted(ladderDms, tick.round, tick.orch, u)
        BY <2>3, <3>2, <4>2 DEF SendDm
      <4>5. ladderDms \in [Rounds -> [Orchs -> [Users -> Nat]]]
        BY <2>1 DEF TypeOK
      <4>. QED BY <2>1, <4>1, <4>2, <4>3, <4>4, <4>5 DEF Counted
    <3>. QED BY <3>1, <3>2
  <2>4. UNCHANGED ladderDms \/ \E u \in Users : \E delivered \in BOOLEAN : SendDm(u, delivered)
    BY <1>1, Zenon DEF Next, TickNext, vars, Elapse, NewRound, IndexBoundary, IndexReward, StartTick,
       ClosedRound, ListRewarded, VisitOrch, ProfileFails, RecordNotice, EndMissedPass, EndLadder,
       PostDigest, RecordDigest, RepostDigest, CallFails, Crash, discordVars
  <2>. QED BY <2>2, <2>3, <2>4
<1>2. IInv /\ [Next]_vars =>
        [\A p \in resolved : ladderDms'[p[1]][p[2]] = ladderDms[p[1]][p[2]]]_vars
  BY <1>1
<1>. QED BY <1>2, Invariance, PTL DEF Spec, ResolvedStaysQuiet
=============================================================================
