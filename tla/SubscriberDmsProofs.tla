------------------------- MODULE SubscriberDmsProofs -------------------------
(***************************************************************************)
(* Theorems about SubscriberDms, for every set of users, orchestrators,    *)
(* pollers and events, every cap, threshold and batch size, any number of  *)
(* commands in flight and every bound.                                     *)
(***************************************************************************)
EXTENDS SubscriberDms, FiniteSetTheorems, TLAPS

Works ==
    [pc : {"idle", "next", "profile", "dm", "clear", "count", "flag"},
     batch : SUBSET AllEvents, event : SUBSET AllEvents,
     todo : SUBSET Users, seen : SUBSET Users, user : SUBSET Users]

Cmds == [pc : {"none", "lookup"}, row : SUBSET (Users \X Orchs)]

-----------------------------------------------------------------------------
(* Lemmas about the operators.                                             *)

LEMMA EventTypes ==
    /\ AllEvents \subseteq Nat
    /\ \A p \in Pollers : Events[p] \subseteq AllEvents
    /\ \A e \in AllEvents : EventOrch[e] \in Orchs
  BY EventsAssumption DEF AllEvents

\* A user never has more commands in flight than there are interactions.
LEMMA InFlightType ==
    ASSUME NEW c, NEW u
    PROVE  LET S == {i \in Interactions : \E o \in Orchs : <<u, o>> \in c[i].row} IN
           /\ IsFiniteSet(S) /\ Cardinality(S) \in Nat
           /\ Cardinality(S) \in 0..Cardinality(Interactions)
<1> DEFINE S == {i \in Interactions : \E o \in Orchs : <<u, o>> \in c[i].row}
<1>1. IsFiniteSet(S) /\ Cardinality(S) <= Cardinality(Interactions)
  BY LimitsAssumption, FS_Subset
<1>2. Cardinality(S) \in Nat /\ Cardinality(Interactions) \in Nat
  BY <1>1, LimitsAssumption, FS_CardinalityType
<1> QED BY <1>1, <1>2

-----------------------------------------------------------------------------
(* Types.                                                                  *)

LEMMA IdleTypes == Idle \in Works /\ NoCmd \in Cmds
  BY DEF Idle, NoCmd, Works, Cmds

LEMMA InitTypes == Init => TypeOK
  BY IdleTypes, DmBoundsAssumption, InFlightType, LimitsAssumption, FS_CardinalityType
  DEF Init, TypeOK, Works, Cmds

LEMMA CommandTypes == TypeOK /\ CommandNext => TypeOK'
<1> SUFFICES ASSUME TypeOK, CommandNext PROVE TypeOK'
  OBVIOUS
<1>1. ASSUME NEW i \in Interactions, NEW u \in Users, NEW o \in Orchs, BeginSubscribe(i, u, o)
      PROVE TypeOK'
  <2>1. [pc |-> "lookup", row |-> {<<u, o>>}] \in Cmds
    BY DEF Cmds
  <2>2. cmd' \in [Interactions -> Cmds]
    BY <1>1, <2>1 DEF BeginSubscribe, TypeOK, Cmds
  <2>3. peak' \in 0..Cardinality(Interactions)
    <3>1. InFlight(u)' \in 0..Cardinality(Interactions)
      BY InFlightType DEF InFlight
    <3> QED BY <1>1, <3>1 DEF BeginSubscribe, TypeOK
  <2> QED BY <1>1, <2>2, <2>3, DmBoundsAssumption
      DEF BeginSubscribe, TypeOK, Cmds, tableVars, streamVars
<1>2. ASSUME NEW i \in Interactions, Insert(i) \/ Refuse(i) PROVE TypeOK'
  <2>1. cmd' \in [Interactions -> Cmds]
    BY <1>2, IdleTypes DEF Insert, Refuse, TypeOK, Cmds
  <2>2. cmd[i].row \subseteq Users \X Orchs
    BY DEF TypeOK
  <2> QED BY <1>2, <2>1, <2>2
      DEF Insert, Refuse, TypeOK, Cmds, tableVars, streamVars, bounds
<1>3. ASSUME NEW u \in Users, NEW o \in Orchs, Unsubscribe(u, o) PROVE TypeOK'
  <2>1. failures' \in [Users -> [Orchs -> Nat]]
    BY <1>3 DEF Unsubscribe, TypeOK
  <2> QED BY <1>3, <2>1, DmBoundsAssumption DEF Unsubscribe, TypeOK, streamVars
<1> QED BY <1>1, <1>2, <1>3 DEF CommandNext

\* A dispatch is typed after each of its steps.
LEMMA WorkTypes ==
    ASSUME TypeOK, NEW p \in Pollers
    PROVE  /\ \A w \in Works : [work EXCEPT ![p] = w] \in [Pollers -> Works]
           /\ Settled(p) \in [Pollers -> Works]
<1>1. \A w \in Works : [work EXCEPT ![p] = w] \in [Pollers -> Works]
  BY DEF TypeOK, Works
<1>2. work[p] \in Works
  BY DEF TypeOK, Works
<1>3. [work[p] EXCEPT !.pc = "dm", !.user = {}] \in Works
  BY <1>2 DEF Works
<1> QED BY <1>1, <1>3 DEF Settled

LEMMA DispatchTypes == ASSUME TypeOK, NEW p \in Pollers, DispatchNext(p) PROVE TypeOK'
<1>1. work \in [Pollers -> Works]
  BY DEF TypeOK, Works
<1>2. CASE StartDispatch(p)
  <2>1. FetchUnsent(p) \subseteq AllEvents
    BY DEF FetchUnsent, TypeOK
  <2>2. [Idle EXCEPT !.pc = "next", !.batch = FetchUnsent(p)] \in Works
    BY <2>1 DEF Idle, Works
  <2>3. work' \in [Pollers -> Works]
    BY <1>2, <2>2, WorkTypes DEF StartDispatch
  <2> QED BY <1>2, <2>3 DEF StartDispatch, TypeOK, Works, tableVars, streamVars, bounds
<1>3. CASE TakeEvent(p)
  <2>1. PICK e \in Oldest(work[p].batch) :
          LET subs == {u \in Users : <<u, EventOrch[e]>> \in rows} IN
          /\ work' = [work EXCEPT
                         ![p] = [work[p] EXCEPT
                           !.pc = IF subs = {} THEN "dm" ELSE "profile",
                           !.batch = @ \ {e}, !.event = {e}, !.todo = subs,
                           !.seen = {u \in subs : <<u, EventOrch[e]>> \in blocked}]]
          /\ owed' = [owed EXCEPT ![e] = subs]
    BY <1>3 DEF TakeEvent
  <2> DEFINE subs == {u \in Users : <<u, EventOrch[e]>> \in rows}
             w == [work[p] EXCEPT
                     !.pc = IF subs = {} THEN "dm" ELSE "profile",
                     !.batch = @ \ {e}, !.event = {e}, !.todo = subs,
                     !.seen = {u \in subs : <<u, EventOrch[e]>> \in blocked}]
  <2>2. e \in AllEvents
    BY <1>1 DEF Oldest, Works
  <2>3. w \in Works
    BY <1>1, <2>2 DEF Works
  <2>4. work' \in [Pollers -> Works]
    <3>1. work' = [work EXCEPT ![p] = w]
      BY <2>1
    <3> HIDE DEF w
    <3> QED BY <2>3, <3>1, WorkTypes
  <2>5. owed' \in [AllEvents -> SUBSET Users]
    BY <2>1, <2>2 DEF TypeOK
  <2> QED BY <1>3, <2>4, <2>5 DEF TakeEvent, TypeOK, Works, tableVars, streamVars, bounds
<1>4. CASE GetProfile(p)
  <2>1. [work[p] EXCEPT !.pc = "dm"] \in Works
    BY <1>1 DEF Works
  <2>2. work' \in [Pollers -> Works]
    BY <1>4, <2>1, WorkTypes DEF GetProfile
  <2> QED BY <1>4, <2>2 DEF GetProfile, TypeOK, Works, tableVars, streamVars, bounds
<1>5. ASSUME NEW u \in Users, SendDm(p, u) PROVE TypeOK'
  <2>1. dms' \in [AllEvents -> [Users -> Nat]]
    BY <1>5 DEF SendDm, Reached, TypeOK
  <2> DEFINE w == [work[p] EXCEPT !.pc = IF u \in open THEN "clear" ELSE "count",
                                  !.todo = @ \ {u}, !.user = {u}]
  <2>2. w \in Works
    BY <1>1 DEF Works
  <2>3. work' \in [Pollers -> Works]
    <3>1. work' = [work EXCEPT ![p] = w]
      BY <1>5 DEF SendDm
    <3> HIDE DEF w
    <3> QED BY <2>2, <3>1, WorkTypes
  <2> QED BY <1>5, <2>1, <2>3 DEF SendDm, TypeOK, Works, tableVars, streamVars, bounds
<1>6. CASE ClearDmFailure(p) \/ SetDmBlocked(p)
  <2>1. failures' \in [Users -> [Orchs -> Nat]]
    <3>1. CASE ClearDmFailure(p)
      <4>1. failures' = [u \in Users |-> [o \in Orchs |->
                           IF <<u, o>> \in CurrentRow(p) THEN 0 ELSE failures[u][o]]]
        BY <3>1 DEF ClearDmFailure, FailuresAfter
      <4> QED BY <4>1 DEF TypeOK
    <3>2. CASE SetDmBlocked(p)
      BY <3>2 DEF SetDmBlocked, TypeOK
    <3> QED BY <1>6, <3>1, <3>2
  <2>2. work' \in [Pollers -> Works]
    BY <1>6, WorkTypes DEF ClearDmFailure, SetDmBlocked
  <2> QED BY <1>6, <2>1, <2>2
      DEF ClearDmFailure, SetDmBlocked, TypeOK, Works, streamVars, bounds
<1>7. CASE IncrementDmFailure(p)
  <2>1. failures' \in [Users -> [Orchs -> Nat]]
    BY <1>7 DEF IncrementDmFailure, TypeOK
  <2>2. [work[p] EXCEPT !.pc = "flag"] \in Works
    BY <1>1 DEF Works
  <2>3. work' \in [Pollers -> Works]
    BY <1>7, <2>2, WorkTypes DEF IncrementDmFailure
  <2> QED BY <1>7, <2>1, <2>3 DEF IncrementDmFailure, TypeOK, Works, streamVars, bounds
<1>8. CASE MarkSent(p)
  <2>1. [work[p] EXCEPT !.pc = "next", !.event = {}, !.seen = {}] \in Works
    BY <1>1 DEF Works
  <2>2. work' \in [Pollers -> Works]
    BY <1>8, <2>1, WorkTypes DEF MarkSent
  <2>3. sent' \in [Pollers -> SUBSET AllEvents]
    BY <1>1, <1>8 DEF MarkSent, TypeOK, Works
  <2> QED BY <1>8, <2>2, <2>3 DEF MarkSent, TypeOK, Works, tableVars, bounds
<1>9. CASE EndDispatch(p)
  <2>1. work' \in [Pollers -> Works]
    BY <1>9, IdleTypes, WorkTypes DEF EndDispatch
  <2> QED BY <1>9, <2>1 DEF EndDispatch, TypeOK, Works, tableVars, streamVars, bounds
<1> QED BY <1>2, <1>3, <1>4, <1>5, <1>6, <1>7, <1>8, <1>9 DEF DispatchNext

LEMMA FailTypes ==
    ASSUME TypeOK, NEW p \in Pollers
    PROVE  /\ \A u \in Users :
                 [work EXCEPT ![p] = [work[p] EXCEPT !.todo = @ \ {u}]] \in [Pollers -> Works]
           /\ [work EXCEPT ![p] = Idle] \in [Pollers -> Works]
           /\ Settled(p) \in [Pollers -> Works]
<1>1. work[p] \in Works
  BY DEF TypeOK, Works
<1>2. ASSUME NEW u \in Users
      PROVE  [work EXCEPT ![p] = [work[p] EXCEPT !.todo = @ \ {u}]] \in [Pollers -> Works]
  <2>1. [work[p] EXCEPT !.todo = @ \ {u}] \in Works
    BY <1>1 DEF Works
  <2> QED BY <2>1, WorkTypes
<1> QED BY <1>2, WorkTypes, IdleTypes

LEMMA OtherTypes ==
    ASSUME TypeOK,
           \/ \E u \in Fickle : ToggleDms(u)
           \/ \E p \in Pollers : \E S \in SUBSET Events[p] : Ingest(p, S)
           \/ \E p \in Pollers, u \in Users : SendDmFails(p, u)
           \/ \E p \in Pollers : ClearFails(p) \/ CallFails(p)
           \/ Crash
    PROVE  TypeOK'
<1>1. ASSUME NEW u \in Fickle, ToggleDms(u) PROVE TypeOK'
  BY <1>1, DmBoundsAssumption DEF ToggleDms, TypeOK, tableVars, streamVars
<1>2. ASSUME NEW p \in Pollers, NEW S \in SUBSET Events[p], Ingest(p, S) PROVE TypeOK'
  BY <1>2, EventTypes DEF Ingest, TypeOK, tableVars, bounds
<1>3. ASSUME NEW p \in Pollers, NEW u \in Users, SendDmFails(p, u) PROVE TypeOK'
  <2>1. Reached(p, u) \in [AllEvents -> [Users -> Nat]]
    BY DEF Reached, TypeOK
  <2>2. dms' \in [AllEvents -> [Users -> Nat]]
    BY <1>3, <2>1 DEF SendDmFails, TypeOK
  <2>3. work' \in [Pollers -> Works]
    BY <1>3, FailTypes DEF SendDmFails
  <2>4. faults' \in 0..MaxFaults
    BY <1>3, DmBoundsAssumption DEF SendDmFails, TypeOK
  <2>5. UNCHANGED <<tableVars, cmd, streamVars, open, owed, lapses, commands, toggles, peak>>
    BY <1>3 DEF SendDmFails
  <2> QED BY <2>2, <2>3, <2>4, <2>5 DEF TypeOK, Works, tableVars, streamVars
<1>4. ASSUME NEW p \in Pollers, ClearFails(p) \/ CallFails(p) PROVE TypeOK'
  <2>1. LapsesOf(work[p].event) \in [AllEvents -> Nat]
    BY DEF LapsesOf, TypeOK
  <2>2. lapses' \in [AllEvents -> Nat]
    BY <1>4, <2>1 DEF ClearFails, CallFails, TypeOK
  <2>3. work' \in [Pollers -> Works]
    BY <1>4, FailTypes DEF ClearFails, CallFails
  <2>4. faults' \in 0..MaxFaults
    BY <1>4, DmBoundsAssumption DEF ClearFails, CallFails, TypeOK
  <2>5. UNCHANGED <<tableVars, cmd, streamVars, open, dms, owed, commands, toggles, peak>>
    BY <1>4 DEF ClearFails, CallFails
  <2> QED BY <2>2, <2>3, <2>4, <2>5 DEF TypeOK, Works, tableVars, streamVars
<1>5. CASE Crash
  <2>1. lapses' \in [AllEvents -> Nat]
    BY <1>5 DEF Crash, LapsesOf, TypeOK
  <2>2. work' \in [Pollers -> Works] /\ cmd' \in [Interactions -> Cmds]
    BY <1>5, IdleTypes DEF Crash
  <2>3. faults' \in 0..MaxFaults
    BY <1>5, DmBoundsAssumption DEF Crash, TypeOK
  <2>4. UNCHANGED <<tableVars, streamVars, open, dms, owed, commands, toggles, peak>>
    BY <1>5 DEF Crash
  <2> QED BY <2>1, <2>2, <2>3, <2>4 DEF TypeOK, Works, Cmds, tableVars, streamVars
<1> QED BY <1>1, <1>2, <1>3, <1>4, <1>5

LEMMA NextTypes == TypeOK /\ [Next]_vars => TypeOK'
<1>1. CASE UNCHANGED vars
  BY <1>1 DEF vars, TypeOK
<1> QED BY <1>1, CommandTypes, DispatchTypes, OtherTypes DEF Next

\* Every action keeps the tables, the dispatches and the commands in their types.
THEOREM Types == Spec => []TypeOK
  BY InitTypes, NextTypes, PTL DEF Spec

-----------------------------------------------------------------------------
(* The cap.                                                                *)

\* The interactions in which a command of the user waits for the explorer.
Waiting(u) == {i \in Interactions : \E o \in Orchs : <<u, o>> \in cmd[i].row}

\* Rows a user has and rows its commands in flight may still insert: each of them
\* was counted below the cap when no more than peak commands were under way.
CapInv ==
    \A u \in Users : /\ IsFiniteSet(RowsOf(u))
                     /\ Cardinality(RowsOf(u)) + InFlight(u) <= Cap - 1 + peak
                     /\ InFlight(u) <= peak

\* A command in flight is about one row, an idle interaction about none.
CmdInv ==
    \A i \in Interactions :
        /\ cmd[i].pc = "none" => cmd[i].row = {}
        /\ cmd[i].pc = "lookup" => \E u \in Users, o \in Orchs : cmd[i].row = {<<u, o>>}

LEMMA CardinalityTypes ==
    ASSUME TypeOK, CapInv, NEW u \in Users
    PROVE  /\ IsFiniteSet(Waiting(u)) /\ InFlight(u) = Cardinality(Waiting(u))
           /\ InFlight(u) \in Nat /\ Cardinality(RowsOf(u)) \in Nat
           /\ peak \in Nat /\ Cap \in Nat
<1>1. IsFiniteSet(Waiting(u)) /\ InFlight(u) = Cardinality(Waiting(u))
  BY InFlightType DEF Waiting, InFlight
<1>2. Cardinality(Interactions) \in Nat
  BY LimitsAssumption, FS_CardinalityType
<1> QED BY <1>1, <1>2, LimitsAssumption, FS_CardinalityType DEF CapInv, TypeOK

LEMMA CmdStep ==
    ASSUME TypeOK, CmdInv, [Next]_vars PROVE CmdInv'
<1>1. ASSUME NEW i \in Interactions, NEW u \in Users, NEW o \in Orchs, BeginSubscribe(i, u, o)
      PROVE CmdInv'
  BY <1>1 DEF BeginSubscribe, TypeOK, CmdInv
<1>2. ASSUME NEW i \in Interactions, Insert(i) \/ Refuse(i) PROVE CmdInv'
  <2>1. cmd' = [cmd EXCEPT ![i] = NoCmd] /\ NoCmd.pc = "none" /\ NoCmd.row = {}
    BY <1>2 DEF Insert, Refuse, NoCmd
  <2>2. ASSUME NEW j \in Interactions PROVE cmd'[j] = IF j = i THEN NoCmd ELSE cmd[j]
    BY <2>1 DEF TypeOK
  <2> QED BY <2>1, <2>2 DEF CmdInv
<1>3. CASE Crash
  BY <1>3 DEF Crash, NoCmd, CmdInv
<1>4. ASSUME UNCHANGED cmd PROVE CmdInv'
  BY <1>4 DEF CmdInv
<1>5. ASSUME NEW p \in Pollers, DispatchNext(p) PROVE UNCHANGED cmd
  BY <1>5 DEF DispatchNext, StartDispatch, TakeEvent, GetProfile, SendDm, ClearDmFailure,
              IncrementDmFailure, SetDmBlocked, MarkSent, EndDispatch
<1>6. ASSUME \/ UNCHANGED vars
             \/ \E u \in Fickle : ToggleDms(u)
             \/ \E u \in Users, o \in Orchs : Unsubscribe(u, o)
             \/ \E p \in Pollers : \/ \E S \in SUBSET Events[p] : Ingest(p, S)
                                   \/ \E u \in Users : SendDmFails(p, u)
                                   \/ ClearFails(p) \/ CallFails(p)
      PROVE UNCHANGED cmd
  BY <1>6 DEF vars, ToggleDms, Unsubscribe, Ingest, SendDmFails, ClearFails, CallFails
<1> QED BY <1>1, <1>2, <1>3, <1>4, <1>5, <1>6 DEF Next, CommandNext

\* A command that begins: the user is below the cap, and one more is in flight.
LEMMA BeginKeepsCap ==
    ASSUME TypeOK, CapInv, CmdInv,
           NEW i \in Interactions, NEW u \in Users, NEW o \in Orchs, BeginSubscribe(i, u, o)
    PROVE  CapInv'
<1>1. \A v \in Users : RowsOf(v)' = RowsOf(v)
  BY DEF BeginSubscribe, tableVars, RowsOf
<1>2. peak' >= peak /\ peak' >= InFlight(u)' /\ InFlight(u)' \in Nat /\ peak' \in Nat
  <2>1. InFlight(u)' \in Nat
    BY InFlightType DEF InFlight
  <2> QED BY <2>1, CardinalityTypes DEF BeginSubscribe
<1>3. CASE Cardinality(RowsOf(u)) >= Cap
  <2>1. \A v \in Users : InFlight(v)' = InFlight(v)
    BY <1>3 DEF BeginSubscribe, InFlight
  <2> QED BY <1>1, <1>2, <2>1, CardinalityTypes DEF CapInv
<1>4. CASE ~(Cardinality(RowsOf(u)) >= Cap)
  <2>1. cmd' = [cmd EXCEPT ![i] = [pc |-> "lookup", row |-> {<<u, o>>}]]
    BY <1>4 DEF BeginSubscribe
  <2>2. ASSUME NEW v \in Users, v # u PROVE InFlight(v)' = InFlight(v)
    <3>1. cmd[i].row = {}
      BY DEF BeginSubscribe, CmdInv
    <3>2. ASSUME NEW j \in Interactions, NEW r \in Orchs
          PROVE <<v, r>> \in cmd'[j].row <=> <<v, r>> \in cmd[j].row
      <4>1. CASE j = i
        BY <2>1, <2>2, <3>1, <4>1 DEF TypeOK
      <4>2. CASE j # i
        BY <2>1, <4>2 DEF TypeOK
      <4> QED BY <4>1, <4>2
    <3>3. Waiting(v)' = Waiting(v)
      BY <3>2 DEF Waiting
    <3> QED BY <3>3 DEF InFlight, Waiting
  <2>3. ASSUME NEW v \in Users, v # u
        PROVE /\ IsFiniteSet(RowsOf(v)')
              /\ Cardinality(RowsOf(v)') + InFlight(v)' <= Cap - 1 + peak'
              /\ InFlight(v)' <= peak'
    BY <1>1, <1>2, <2>2, <2>3, CardinalityTypes DEF CapInv
  <2>4. /\ IsFiniteSet(RowsOf(u)')
        /\ Cardinality(RowsOf(u)') + InFlight(u)' <= Cap - 1 + peak'
        /\ InFlight(u)' <= peak'
    BY <1>1, <1>2, <1>4, CardinalityTypes DEF CapInv
  <2> QED BY <1>1, <2>3, <2>4 DEF CapInv
<1> QED BY <1>3, <1>4

\* A command that ends is in flight no more, and has inserted a row at most.
LEMMA EndKeepsCap ==
    ASSUME TypeOK, CapInv, CmdInv, NEW i \in Interactions, Insert(i) \/ Refuse(i)
    PROVE  CapInv'
<1>1. PICK u \in Users, o \in Orchs : cmd[i].row = {<<u, o>>}
  BY DEF Insert, Refuse, CmdInv
<1>2. /\ cmd' = [cmd EXCEPT ![i] = NoCmd] /\ peak' = peak
      /\ rows' = rows \/ rows' = rows \union {<<u, o>>}
  BY <1>1 DEF Insert, Refuse, bounds, tableVars
<1>3. ASSUME NEW v \in Users, v # u
      PROVE  /\ IsFiniteSet(RowsOf(v)')
             /\ Cardinality(RowsOf(v)') + InFlight(v)' <= Cap - 1 + peak'
             /\ InFlight(v)' <= peak'
  <2>1. RowsOf(v)' = RowsOf(v)
    BY <1>2, <1>3 DEF RowsOf
  <2>2. Waiting(v)' = Waiting(v)
    <3>1. ASSUME NEW j \in Interactions, NEW r \in Orchs
          PROVE <<v, r>> \in cmd'[j].row <=> <<v, r>> \in cmd[j].row
      <4>1. CASE j = i
        BY <1>1, <1>2, <1>3, <4>1 DEF TypeOK, NoCmd
      <4>2. CASE j # i
        BY <1>2, <4>2 DEF TypeOK
      <4> QED BY <4>1, <4>2
    <3> QED BY <3>1 DEF Waiting
  <2>3. InFlight(v)' = InFlight(v)
    BY <2>2 DEF InFlight, Waiting
  <2> QED BY <1>2, <2>1, <2>3 DEF CapInv
<1>4. /\ IsFiniteSet(RowsOf(u)')
      /\ Cardinality(RowsOf(u)') + InFlight(u)' <= Cap - 1 + peak'
      /\ InFlight(u)' <= peak'
  <2>1. Waiting(u)' = Waiting(u) \ {i} /\ i \in Waiting(u)
    BY <1>1, <1>2 DEF Waiting, TypeOK, NoCmd
  <2>2. InFlight(u)' = InFlight(u) - 1
    <3>1. Cardinality(Waiting(u) \ {i}) = Cardinality(Waiting(u)) - 1
      BY <2>1, CardinalityTypes, FS_RemoveElement
    <3>2. InFlight(u)' = Cardinality(Waiting(u)')
      BY DEF InFlight, Waiting
    <3> QED BY <2>1, <3>1, <3>2, CardinalityTypes
  <2>3. RowsOf(u)' = RowsOf(u) \/ RowsOf(u)' = RowsOf(u) \union {<<u, o>>}
    BY <1>2 DEF RowsOf
  <2>4. IsFiniteSet(RowsOf(u)') /\ Cardinality(RowsOf(u)') \in Nat
        /\ Cardinality(RowsOf(u)') <= Cardinality(RowsOf(u)) + 1
    <3>1. IsFiniteSet(RowsOf(u)) /\ Cardinality(RowsOf(u)) \in Nat
      BY CardinalityTypes DEF CapInv
    <3>2. /\ IsFiniteSet(RowsOf(u) \union {<<u, o>>})
          /\ Cardinality(RowsOf(u) \union {<<u, o>>}) =
               IF <<u, o>> \in RowsOf(u) THEN Cardinality(RowsOf(u))
               ELSE Cardinality(RowsOf(u)) + 1
      BY <3>1, FS_AddElement
    <3>3. CASE RowsOf(u)' = RowsOf(u)
      BY <3>1, <3>3
    <3>4. CASE RowsOf(u)' = RowsOf(u) \union {<<u, o>>}
      <4>1. Cardinality(RowsOf(u)') = Cardinality(RowsOf(u) \union {<<u, o>>})
        BY <3>4
      <4>2. IsFiniteSet(RowsOf(u)')
        BY <3>2, <3>4
      <4> QED BY <3>1, <3>2, <4>1, <4>2
    <3> QED BY <2>3, <3>3, <3>4
  <2> QED BY <1>2, <2>2, <2>4, CardinalityTypes DEF CapInv
<1> QED BY <1>3, <1>4 DEF CapInv

LEMMA CapStep == ASSUME TypeOK, CapInv, CmdInv, [Next]_vars PROVE CapInv'
<1>1. ASSUME NEW u \in Users, NEW o \in Orchs, Unsubscribe(u, o) PROVE CapInv'
  <2>1. ASSUME NEW v \in Users
        PROVE /\ IsFiniteSet(RowsOf(v)')
              /\ Cardinality(RowsOf(v)') \in Nat
              /\ Cardinality(RowsOf(v)') <= Cardinality(RowsOf(v))
    <3>1. RowsOf(v)' \subseteq RowsOf(v)
      BY <1>1 DEF Unsubscribe, RowsOf
    <3> QED BY <3>1, FS_Subset, FS_CardinalityType DEF CapInv
  <2>2. \A v \in Users : InFlight(v)' = InFlight(v) /\ peak' = peak
    BY <1>1 DEF Unsubscribe, InFlight
  <2> QED BY <2>1, <2>2, CardinalityTypes DEF CapInv
<1>2. CASE Crash
  <2>1. \A v \in Users : Waiting(v)' = {}
    BY <1>2 DEF Crash, Waiting, NoCmd
  <2>2. \A v \in Users : InFlight(v)' = 0
    BY <2>1, FS_EmptySet DEF InFlight, Waiting
  <2>3. \A v \in Users : RowsOf(v)' = RowsOf(v) /\ peak' = peak
    BY <1>2 DEF Crash, tableVars, RowsOf
  <2> QED BY <2>2, <2>3, CardinalityTypes DEF CapInv
<1>3. ASSUME UNCHANGED <<rows, cmd, peak>> PROVE CapInv'
  BY <1>3 DEF CapInv, RowsOf, InFlight
<1>4. ASSUME NEW p \in Pollers, DispatchNext(p) PROVE UNCHANGED <<rows, cmd, peak>>
  BY <1>4 DEF DispatchNext, StartDispatch, TakeEvent, GetProfile, SendDm, ClearDmFailure,
              IncrementDmFailure, SetDmBlocked, MarkSent, EndDispatch, tableVars, bounds
<1>5. ASSUME \/ UNCHANGED vars
             \/ \E u \in Fickle : ToggleDms(u)
             \/ \E p \in Pollers : \/ \E S \in SUBSET Events[p] : Ingest(p, S)
                                   \/ \E u \in Users : SendDmFails(p, u)
                                   \/ ClearFails(p) \/ CallFails(p)
      PROVE UNCHANGED <<rows, cmd, peak>>
  BY <1>5 DEF vars, ToggleDms, Ingest, SendDmFails, ClearFails, CallFails, tableVars, bounds
<1> QED BY <1>1, <1>2, <1>3, <1>4, <1>5, BeginKeepsCap, EndKeepsCap DEF Next, CommandNext

\* However commands and deletions interleave, a user that never has more than n commands
\* in flight has at most Cap + n - 1 rows: exactly the cap when it waits for each answer.
THEOREM CapHolds == Spec => []CapOverrunBounded
<1>1. Init => CapInv /\ CmdInv
  <2> SUFFICES ASSUME Init PROVE CapInv /\ CmdInv
    OBVIOUS
  <2>1. \A u \in Users : RowsOf(u) = {} /\ Waiting(u) = {}
    BY DEF Init, RowsOf, Waiting, NoCmd
  <2>2. \A u \in Users : InFlight(u) = 0
    BY <2>1, FS_EmptySet DEF InFlight, Waiting
  <2>3. CmdInv
    BY DEF Init, CmdInv, NoCmd
  <2>4. ASSUME NEW u \in Users
        PROVE IsFiniteSet(RowsOf(u)) /\ Cardinality(RowsOf(u)) = 0 /\ InFlight(u) = 0
    BY <2>1, <2>2, FS_EmptySet
  <2>5. peak = 0 /\ Cap \in Nat \ {0}
    BY LimitsAssumption DEF Init
  <2> QED BY <2>3, <2>4, <2>5 DEF CapInv
<1>2. TypeOK /\ CapInv /\ CmdInv /\ [Next]_vars => (CapInv /\ CmdInv)'
  BY CapStep, CmdStep
<1>3. TypeOK /\ CapInv => CapOverrunBounded
  BY CardinalityTypes DEF CapInv, CapOverrunBounded
<1> QED BY <1>1, <1>2, <1>3, Types, PTL DEF Spec

-----------------------------------------------------------------------------
(* Marks and DMs.                                                          *)

\* What a dispatch works on is stored and unsent, and between two events it is about none.
DispatchInv ==
    \A p \in Pollers :
        /\ sent[p] \subseteq stored[p] /\ stored[p] \subseteq Events[p]
        /\ work[p].batch \subseteq stored[p] \ sent[p]
        /\ work[p].event \subseteq stored[p] \ sent[p]
        /\ work[p].event \intersect work[p].batch = {}
        /\ work[p].pc \in {"idle", "next"} => work[p].event = {}

\* A user whose turn in the fan-out is still to come was not reached since the
\* last dispatch cut short.
TurnInv ==
    \A p \in Pollers : \A e \in Events[p], u \in Users :
        /\ dms[e][u] <= 1 + lapses[e]
        /\ e \notin sent[p] /\ (e \in work[p].event => u \in work[p].todo)
              => dms[e][u] <= lapses[e]

\* Without failures and closed DMs, a user whose turn is over was reached.
ToldInv ==
    faults = 0 /\ toggles = 0 =>
        /\ open = Users
        /\ \A p \in Pollers : \A e \in Events[p] :
              /\ lapses[e] = 0
              /\ \A u \in owed[e] :
                    e \in sent[p] \/ (e \in work[p].event /\ u \notin work[p].todo)
                       => dms[e][u] = 1

MarkInv == DispatchInv /\ TurnInv /\ ToldInv

LEMMA OwnEvents ==
    ASSUME NEW p \in Pollers, NEW q \in Pollers, NEW e \in Events[p], e \in Events[q]
    PROVE  p = q
  BY EventsAssumption

\* Steps that leave marks, DMs and the turns of every fan-out alone.
LEMMA QuietKeepsMarks ==
    ASSUME TypeOK, MarkInv,
           UNCHANGED <<stored, sent, dms, owed, lapses>>,
           faults' = 0 /\ toggles' = 0 => faults = 0 /\ toggles = 0 /\ open' = open,
           \A q \in Pollers :
              /\ work'[q].batch \subseteq stored[q] \ sent[q]
              /\ work'[q].event = work[q].event
              /\ work'[q].event \intersect work'[q].batch = {}
              /\ work'[q].pc \in {"idle", "next"} => work'[q].event = {}
              /\ work[q].event = {} \/ work'[q].todo = work[q].todo
    PROVE  MarkInv'
<1>1. DispatchInv'
  BY DEF MarkInv, DispatchInv
<1>2. TurnInv'
  BY DEF MarkInv, TurnInv
<1>3. ToldInv'
  BY DEF MarkInv, ToldInv
<1> QED BY <1>1, <1>2, <1>3 DEF MarkInv

LEMMA CommandKeepsMarks ==
    ASSUME TypeOK, MarkInv,
           CommandNext \/ UNCHANGED vars \/ (\E u \in Fickle : ToggleDms(u))
    PROVE  MarkInv'
<1>1. UNCHANGED <<stored, sent, work, dms, owed, lapses, faults>>
  BY DEF CommandNext, BeginSubscribe, Insert, Refuse, Unsubscribe, ToggleDms,
         streamVars, bounds, vars
<1>2. UNCHANGED <<open, toggles>> \/ toggles' = toggles + 1
  BY DEF CommandNext, BeginSubscribe, Insert, Refuse, Unsubscribe, ToggleDms, bounds, vars
<1>3. toggles \in Nat
  BY DmBoundsAssumption DEF TypeOK
<1>4. faults' = 0 /\ toggles' = 0 => faults = 0 /\ toggles = 0 /\ open' = open
  BY <1>1, <1>2, <1>3
<1>5. \A q \in Pollers :
         /\ work'[q].batch \subseteq stored[q] \ sent[q]
         /\ work'[q].event = work[q].event
         /\ work'[q].event \intersect work'[q].batch = {}
         /\ work'[q].pc \in {"idle", "next"} => work'[q].event = {}
         /\ work[q].event = {} \/ work'[q].todo = work[q].todo
  BY <1>1 DEF MarkInv, DispatchInv
<1> QED BY <1>1, <1>4, <1>5, QuietKeepsMarks

\* Steps of one dispatch that do not touch its turns: a fetch, a profile, the health
\* of a row, the end.
LEMMA OwnStepKeepsMarks ==
    ASSUME TypeOK, MarkInv, NEW p \in Pollers,
           \/ StartDispatch(p) \/ GetProfile(p) \/ ClearDmFailure(p)
           \/ IncrementDmFailure(p) \/ SetDmBlocked(p) \/ EndDispatch(p) \/ ClearFails(p)
    PROVE  MarkInv'
<1>1. UNCHANGED <<stored, sent, dms, owed, lapses, open, toggles>>
  BY DEF StartDispatch, GetProfile, ClearDmFailure, IncrementDmFailure, SetDmBlocked,
         EndDispatch, ClearFails, streamVars, bounds
<1>2. faults' = faults \/ faults' = faults + 1
  BY DEF StartDispatch, GetProfile, ClearDmFailure, IncrementDmFailure, SetDmBlocked,
         EndDispatch, ClearFails, bounds
<1>3. faults \in Nat
  BY DmBoundsAssumption DEF TypeOK
<1>4. faults' = 0 /\ toggles' = 0 => faults = 0 /\ toggles = 0 /\ open' = open
  BY <1>1, <1>2, <1>3
<1>5. \A q \in Pollers : q # p => work'[q] = work[q]
  BY DEF StartDispatch, GetProfile, ClearDmFailure, IncrementDmFailure, SetDmBlocked,
         EndDispatch, ClearFails, Settled, TypeOK
<1>6. /\ work'[p].batch \subseteq stored[p] \ sent[p]
      /\ work'[p].event = work[p].event
      /\ work'[p].event \intersect work'[p].batch = {}
      /\ work'[p].pc \in {"idle", "next"} => work'[p].event = {}
      /\ work[p].event = {} \/ work'[p].todo = work[p].todo
  <2>1. CASE StartDispatch(p)
    <3>1. work'[p] = [Idle EXCEPT !.pc = "next", !.batch = FetchUnsent(p)]
      BY <2>1 DEF StartDispatch, TypeOK
    <3>2. FetchUnsent(p) \subseteq stored[p] \ sent[p] /\ work[p].event = {}
      BY <2>1 DEF StartDispatch, FetchUnsent, MarkInv, DispatchInv
    <3> QED BY <3>1, <3>2 DEF Idle
  <2>2. CASE EndDispatch(p)
    <3>1. work'[p] = Idle /\ work[p].event = {}
      BY <2>2 DEF EndDispatch, TypeOK, MarkInv, DispatchInv
    <3> QED BY <3>1 DEF Idle
  <2>3. CASE \/ GetProfile(p) \/ ClearDmFailure(p) \/ IncrementDmFailure(p)
             \/ SetDmBlocked(p) \/ ClearFails(p)
    <3>1. \/ work' = [work EXCEPT ![p] = [work[p] EXCEPT !.pc = "dm"]]
          \/ work' = [work EXCEPT ![p] = [work[p] EXCEPT !.pc = "flag"]]
          \/ work' = [work EXCEPT ![p] = [work[p] EXCEPT !.pc = "dm", !.user = {}]]
      BY <2>3 DEF GetProfile, ClearDmFailure, IncrementDmFailure, SetDmBlocked, ClearFails,
                  Settled
    <3>2. \/ work'[p] = [work[p] EXCEPT !.pc = "dm"]
          \/ work'[p] = [work[p] EXCEPT !.pc = "flag"]
          \/ work'[p] = [work[p] EXCEPT !.pc = "dm", !.user = {}]
      BY <3>1 DEF TypeOK
    <3>3. work[p] \in Works
      BY DEF TypeOK, Works
    <3>4. /\ work'[p].batch = work[p].batch /\ work'[p].event = work[p].event
          /\ work'[p].todo = work[p].todo /\ work'[p].pc \in {"dm", "flag"}
      BY <3>2, <3>3 DEF Works
    <3> QED BY <3>4 DEF MarkInv, DispatchInv
  <2> QED BY <2>1, <2>2, <2>3
<1>7. \A q \in Pollers :
         /\ work'[q].batch \subseteq stored[q] \ sent[q]
         /\ work'[q].event = work[q].event
         /\ work'[q].event \intersect work'[q].batch = {}
         /\ work'[q].pc \in {"idle", "next"} => work'[q].event = {}
         /\ work[q].event = {} \/ work'[q].todo = work[q].todo
  BY <1>5, <1>6 DEF MarkInv, DispatchInv
<1> QED BY <1>1, <1>4, <1>7, QuietKeepsMarks

LEMMA IngestKeepsMarks ==
    ASSUME TypeOK, MarkInv, NEW p \in Pollers, NEW S \in SUBSET Events[p], Ingest(p, S)
    PROVE  MarkInv'
<1>1. /\ stored' = [stored EXCEPT ![p] = stored[p] \union S]
      /\ UNCHANGED <<sent, work, dms, owed, lapses, open, faults, toggles>>
  BY DEF Ingest, bounds
<1>2. DispatchInv'
  <2>1. \A q \in Pollers : stored'[q] = IF q = p THEN stored[p] \union S ELSE stored[q]
    BY <1>1 DEF TypeOK
  <2> QED BY <1>1, <2>1 DEF MarkInv, DispatchInv
<1>3. TurnInv'
  BY <1>1 DEF MarkInv, TurnInv
<1>4. ToldInv'
  BY <1>1 DEF MarkInv, ToldInv
<1> QED BY <1>2, <1>3, <1>4 DEF MarkInv

\* A new event is taken up: everybody read for it has a turn.
LEMMA TakeKeepsMarks ==
    ASSUME TypeOK, MarkInv, NEW p \in Pollers, TakeEvent(p)
    PROVE  MarkInv'
<1>1. PICK e \in Oldest(work[p].batch) :
        LET subs == {u \in Users : <<u, EventOrch[e]>> \in rows} IN
        /\ work' = [work EXCEPT
                       ![p] = [work[p] EXCEPT
                         !.pc = IF subs = {} THEN "dm" ELSE "profile",
                         !.batch = @ \ {e}, !.event = {e}, !.todo = subs,
                         !.seen = {u \in subs : <<u, EventOrch[e]>> \in blocked}]]
        /\ owed' = [owed EXCEPT ![e] = subs]
  BY DEF TakeEvent
<1> DEFINE subs == {u \in Users : <<u, EventOrch[e]>> \in rows}
<1>2. UNCHANGED <<stored, sent, dms, lapses, open, faults, toggles>>
  BY DEF TakeEvent, streamVars, bounds
<1>3. /\ \A q \in Pollers : q # p => work'[q] = work[q]
      /\ work'[p].pc \in {"dm", "profile"} /\ work'[p].batch = work[p].batch \ {e}
      /\ work'[p].event = {e} /\ work'[p].todo = subs
  BY <1>1 DEF TypeOK
<1>4. /\ work[p].event = {} /\ e \in work[p].batch /\ e \notin sent[p]
      /\ e \in Events[p] /\ e \in AllEvents
  BY DEF TakeEvent, Oldest, MarkInv, DispatchInv, AllEvents
<1>5. owed'[e] = subs /\ \A d \in AllEvents : d # e => owed'[d] = owed[d]
  BY <1>1, <1>4 DEF TypeOK
<1> HIDE DEF subs
<1>6. DispatchInv'
  BY <1>2, <1>3, <1>4 DEF MarkInv, DispatchInv
<1>7. TurnInv'
  BY <1>2, <1>3, <1>4 DEF MarkInv, TurnInv
<1>8. ToldInv'
  <2>1. \A q \in Pollers : \A d \in Events[q] : d = e => q = p
    BY <1>4, OwnEvents
  <2>2. \A q \in Pollers : \A d \in Events[q] : d \in AllEvents
    BY EventTypes
  <2>3. ASSUME faults' = 0, toggles' = 0, NEW q \in Pollers, NEW d \in Events[q],
               NEW u \in owed'[d], d \in sent'[q] \/ (d \in work'[q].event /\ u \notin work'[q].todo)
        PROVE  dms'[d][u] = 1
    <3>1. CASE d = e
      BY <1>2, <1>3, <1>4, <1>5, <2>1, <2>3, <3>1
    <3>2. CASE d # e
      <4>1. owed'[d] = owed[d]
        BY <1>5, <2>2, <3>2
      <4>2. d \in sent[q] \/ (d \in work[q].event /\ u \notin work[q].todo)
        BY <1>2, <1>3, <2>3, <3>2
      <4> QED BY <1>2, <2>3, <4>1, <4>2 DEF MarkInv, ToldInv
    <3> QED BY <3>1, <3>2
  <2> QED BY <1>2, <2>3 DEF MarkInv, ToldInv
<1> QED BY <1>6, <1>7, <1>8 DEF MarkInv

\* A turn: the user is reached or not, and has no other until the next dispatch.
LEMMA SendKeepsMarks ==
    ASSUME TypeOK, MarkInv, NEW p \in Pollers, NEW u \in Users, SendDm(p, u) \/ SendDmFails(p, u)
    PROVE  MarkInv'
<1>1. /\ UNCHANGED <<stored, sent, owed, lapses, open, toggles>>
      /\ u \in work[p].todo /\ work[p].pc = "dm"
      /\ dms' = dms \/ dms' = Reached(p, u)
  BY DEF SendDm, SendDmFails, streamVars, bounds
<1>2. /\ \A q \in Pollers : q # p => work'[q] = work[q]
      /\ work'[p].batch = work[p].batch /\ work'[p].event = work[p].event
      /\ work'[p].todo = work[p].todo \ {u} /\ work'[p].pc \in {"dm", "clear", "count"}
  <2>1. PICK pc \in {"dm", "clear", "count"}, user \in SUBSET Users :
           work' = [work EXCEPT ![p] = [work[p] EXCEPT !.pc = pc, !.todo = @ \ {u}, !.user = user]]
    <3>1. CASE SendDm(p, u)
      BY <3>1, {u} \in SUBSET Users DEF SendDm
    <3>2. CASE SendDmFails(p, u)
      <4>1. work[p] \in Works /\ work[p].user \in SUBSET Users
        BY DEF TypeOK, Works
      <4>2. [work[p] EXCEPT !.pc = "dm", !.todo = @ \ {u}, !.user = work[p].user]
              = [work[p] EXCEPT !.todo = @ \ {u}]
        BY <1>1, <4>1 DEF Works
      <4> QED BY <3>2, <4>1, <4>2 DEF SendDmFails
    <3> QED BY <3>1, <3>2
  <2> DEFINE w == [work[p] EXCEPT !.pc = pc, !.todo = @ \ {u}, !.user = user]
  <2>2. /\ w.batch = work[p].batch /\ w.event = work[p].event
        /\ w.todo = work[p].todo \ {u} /\ w.pc = pc
    <3>1. work[p] \in Works
      BY DEF TypeOK, Works
    <3> QED BY <3>1 DEF Works
  <2>3. work' = [work EXCEPT ![p] = w]
    BY <2>1
  <2> HIDE DEF w
  <2> QED BY <2>2, <2>3 DEF TypeOK
<1>3. \A q \in Pollers : \A d \in Events[q] :
         d \in work[p].event => q = p /\ d \notin sent[q]
  BY OwnEvents DEF MarkInv, DispatchInv
<1>4. \A q \in Pollers : \A d \in Events[q], v \in Users :
         /\ dms[d][v] \in Nat /\ lapses[d] \in Nat
         /\ Reached(p, u)[d][v] = IF d \in work[p].event /\ v = u THEN dms[d][v] + 1
                                  ELSE dms[d][v]
  <2> SUFFICES ASSUME NEW d \in AllEvents, NEW v \in Users
               PROVE  /\ dms[d][v] \in Nat /\ lapses[d] \in Nat
                      /\ Reached(p, u)[d][v] = IF d \in work[p].event /\ v = u
                                               THEN dms[d][v] + 1 ELSE dms[d][v]
    BY EventTypes
  <2>1. dms[d] \in [Users -> Nat] /\ lapses[d] \in Nat
    BY DEF TypeOK
  <2>2. Reached(p, u)[d] = IF d \in work[p].event THEN [dms[d] EXCEPT ![u] = @ + 1] ELSE dms[d]
    BY DEF Reached
  <2> QED BY <2>1, <2>2
<1>5. DispatchInv'
  BY <1>1, <1>2 DEF MarkInv, DispatchInv
<1>6. TurnInv'
  <2> SUFFICES ASSUME NEW q \in Pollers, NEW d \in Events[q], NEW v \in Users
               PROVE  /\ dms'[d][v] <= 1 + lapses[d]
                      /\ d \notin sent[q] /\ (d \in work'[q].event => v \in work'[q].todo)
                            => dms'[d][v] <= lapses[d]
    BY <1>1 DEF TurnInv
  <2>1. /\ dms[d][v] <= 1 + lapses[d]
        /\ d \notin sent[q] /\ (d \in work[q].event => v \in work[q].todo)
              => dms[d][v] <= lapses[d]
    BY DEF MarkInv, TurnInv
  <2>2. CASE d \in work[p].event /\ v = u
    BY <1>1, <1>2, <1>3, <1>4, <2>1, <2>2
  <2>3. CASE ~(d \in work[p].event /\ v = u)
    <3>1. dms'[d][v] = dms[d][v]
      BY <1>1, <1>4, <2>3
    <3>2. (d \in work'[q].event => v \in work'[q].todo)
             => (d \in work[q].event => v \in work[q].todo)
      BY <1>2
    <3> QED BY <2>1, <3>1, <3>2
  <2> QED BY <2>2, <2>3
<1>7. ToldInv'
  <2>1. CASE SendDmFails(p, u)
    <3>1. faults' # 0
      BY <2>1, DmBoundsAssumption DEF SendDmFails, TypeOK
    <3> QED BY <3>1 DEF ToldInv
  <2>2. CASE SendDm(p, u)
    <3> SUFFICES ASSUME faults' = 0, toggles' = 0 PROVE ToldInv'
      BY DEF ToldInv
    <3>1. faults = 0 /\ toggles = 0 /\ open = Users
      BY <1>1, <2>2 DEF SendDm, bounds, MarkInv, ToldInv
    <3>2. dms' = Reached(p, u)
      BY <2>2, <3>1 DEF SendDm
    <3>3. ASSUME NEW q \in Pollers, NEW d \in Events[q], NEW v \in owed[d],
                 d \in sent[q] \/ (d \in work'[q].event /\ v \notin work'[q].todo)
          PROVE  dms'[d][v] = 1
      <4>1. v \in Users
        BY EventTypes DEF TypeOK
      <4>2. CASE d \in work[p].event /\ v = u
        <5>1. q = p /\ d \notin sent[q]
          BY <1>3, <4>2
        <5>2. dms[d][v] <= lapses[d] /\ lapses[d] = 0
          BY <1>1, <3>1, <4>1, <4>2, <5>1 DEF MarkInv, TurnInv, ToldInv
        <5> QED BY <1>4, <3>2, <4>1, <4>2, <5>2
      <4>3. CASE ~(d \in work[p].event /\ v = u)
        <5>1. dms'[d][v] = dms[d][v]
          BY <1>4, <3>2, <4>1, <4>3
        <5>2. d \in sent[q] \/ (d \in work[q].event /\ v \notin work[q].todo)
          BY <1>2, <3>3, <4>3
        <5> QED BY <3>1, <5>1, <5>2 DEF MarkInv, ToldInv
      <4> QED BY <4>2, <4>3
    <3> QED BY <1>1, <3>1, <3>3 DEF MarkInv, ToldInv
  <2> QED BY <2>1, <2>2
<1> QED BY <1>5, <1>6, <1>7 DEF MarkInv

\* Everybody had a turn: the event is marked.
LEMMA MarkKeepsMarks ==
    ASSUME TypeOK, MarkInv, NEW p \in Pollers, MarkSent(p)
    PROVE  MarkInv'
<1>1. /\ UNCHANGED <<stored, dms, owed, lapses, open, faults, toggles>>
      /\ work[p].todo = {}
  BY DEF MarkSent, bounds
<1>2. /\ \A q \in Pollers : q # p => work'[q] = work[q] /\ sent'[q] = sent[q]
      /\ work'[p].batch = work[p].batch /\ work'[p].event = {} /\ work'[p].todo = {}
      /\ sent'[p] = sent[p] \union work[p].event
  BY <1>1 DEF MarkSent, TypeOK
<1>3. DispatchInv'
  BY <1>1, <1>2 DEF MarkInv, DispatchInv
<1>4. TurnInv'
  BY <1>1, <1>2 DEF MarkInv, TurnInv
<1>5. ToldInv'
  BY <1>1, <1>2 DEF MarkInv, ToldInv
<1> QED BY <1>3, <1>4, <1>5 DEF MarkInv

\* A dispatch cut short: each of its events may be sent once more.
LEMMA FailKeepsMarks ==
    ASSUME TypeOK, MarkInv, Crash \/ \E p \in Pollers : CallFails(p)
    PROVE  MarkInv'
<1>1. UNCHANGED <<stored, sent, dms>> /\ faults' # 0
  BY DmBoundsAssumption DEF Crash, CallFails, streamVars, TypeOK
<1>2. \A q \in Pollers :
         \/ work'[q] = work[q]
         \/ /\ work'[q].event = {} /\ work'[q].batch = {}
            /\ \A e \in work[q].event : lapses'[e] = lapses[e] + 1
  <2>1. CASE Crash
    <3>1. \A q \in Pollers : work'[q] = Idle
      BY <2>1 DEF Crash
    <3>2. \A q \in Pollers : \A e \in work[q].event : lapses'[e] = lapses[e] + 1
      BY <2>1 DEF Crash, LapsesOf, TypeOK
    <3> QED BY <3>1, <3>2 DEF Idle
  <2>2. ASSUME NEW p \in Pollers, CallFails(p)
        PROVE \A q \in Pollers :
                 \/ work'[q] = work[q]
                 \/ /\ work'[q].event = {} /\ work'[q].batch = {}
                    /\ \A e \in work[q].event : lapses'[e] = lapses[e] + 1
    <3>1. \A q \in Pollers : work'[q] = IF q = p THEN Idle ELSE work[q]
      BY <2>2 DEF CallFails, TypeOK
    <3>2. \A e \in work[p].event : lapses'[e] = lapses[e] + 1
      BY <2>2 DEF CallFails, LapsesOf, TypeOK
    <3> QED BY <3>1, <3>2 DEF Idle
  <2> QED BY <2>1, <2>2
<1>3. \A e \in AllEvents : lapses'[e] \in Nat /\ lapses[e] \in Nat /\ lapses[e] <= lapses'[e]
  <2>1. PICK S : lapses' = LapsesOf(S)
    BY DEF Crash, CallFails
  <2>2. \A e \in AllEvents : lapses[e] \in Nat
    BY DEF TypeOK
  <2> QED BY <2>1, <2>2 DEF LapsesOf
<1>4. DispatchInv'
  BY <1>1, <1>2 DEF MarkInv, DispatchInv
<1>5. TurnInv'
  <2> SUFFICES ASSUME NEW q \in Pollers, NEW e \in Events[q], NEW u \in Users
               PROVE  /\ dms[e][u] <= 1 + lapses'[e]
                      /\ e \notin sent[q] /\ (e \in work'[q].event => u \in work'[q].todo)
                            => dms[e][u] <= lapses'[e]
    BY <1>1 DEF TurnInv
  <2>1. /\ dms[e][u] \in Nat /\ lapses'[e] \in Nat /\ lapses[e] \in Nat
        /\ lapses[e] <= lapses'[e]
    <3>1. e \in AllEvents
      BY EventTypes
    <3>2. dms[e][u] \in Nat
      BY <3>1 DEF TypeOK
    <3> QED BY <1>3, <3>1, <3>2
  <2>2. /\ dms[e][u] <= 1 + lapses[e]
        /\ e \notin sent[q] /\ (e \in work[q].event => u \in work[q].todo)
              => dms[e][u] <= lapses[e]
    BY DEF MarkInv, TurnInv
  <2> QED BY <1>2, <2>1, <2>2
<1>6. ToldInv'
  BY <1>1 DEF ToldInv
<1> QED BY <1>4, <1>5, <1>6 DEF MarkInv

LEMMA MarkStep == TypeOK /\ MarkInv /\ [Next]_vars => MarkInv'
  BY CommandKeepsMarks, OwnStepKeepsMarks, IngestKeepsMarks, TakeKeepsMarks, SendKeepsMarks,
     MarkKeepsMarks, FailKeepsMarks DEF Next, DispatchNext

\* However fan-outs interleave with commands, with each other, with failures and with
\* crashes, a marked event was sent to everybody read for it, and nothing twice but for
\* dispatches that were cut short.
THEOREM MarksHold == Spec => []MarksMatchDms
<1>1. Init => MarkInv
  <2> SUFFICES ASSUME Init PROVE MarkInv
    OBVIOUS
  <2>1. \A p \in Pollers : \A e \in Events[p] : e \in AllEvents
    BY EventTypes
  <2>2. DispatchInv
    BY DEF Init, Idle, DispatchInv
  <2>3. TurnInv
    BY <2>1 DEF Init, Idle, TurnInv
  <2>4. ToldInv
    BY <2>1 DEF Init, Idle, ToldInv
  <2> QED BY <2>2, <2>3, <2>4 DEF MarkInv
<1>2. TypeOK /\ MarkInv /\ [Next]_vars => MarkInv'
  BY MarkStep
<1>3. TypeOK /\ MarkInv => MarksMatchDms
  <2> SUFFICES ASSUME TypeOK, MarkInv PROVE MarksMatchDms
    OBVIOUS
  <2>1. OneDmPerEvent
    <3>1. \A e \in AllEvents : \E p \in Pollers : e \in Events[p]
      BY DEF AllEvents
    <3> QED BY <3>1 DEF MarkInv, TurnInv, OneDmPerEvent
  <2>2. SentMeansTold
    <3>1. ASSUME NEW p \in Pollers, NEW e \in sent[p] PROVE e \in Events[p]
      BY DEF MarkInv, DispatchInv
    <3> QED BY <3>1 DEF MarkInv, ToldInv, SentMeansTold
  <2> QED BY <2>1, <2>2 DEF MarksMatchDms
<1> QED BY <1>1, <1>2, <1>3, Types, PTL DEF Spec
=============================================================================
