--------------------------- MODULE CutChangesProofs ---------------------------
(***************************************************************************)
(* Theorems about CutChanges, for every set of users, orchestrators and    *)
(* commands, history limit and bound on changes, leaves and faults.        *)
(***************************************************************************)
EXTENDS CutChanges, TLAPS

-----------------------------------------------------------------------------
(* The inductive invariant.                                                *)

\* What the dispatch still has to tell or to mark is stored and unsent, whatever
\* the seeds insert meanwhile, and the poller does not load while it dispatches.
DispatchInv ==
    /\ dispatch.batch \subseteq stored \ sent
    /\ dispatch.event \subseteq stored \ sent
    /\ dispatch.batch \intersect dispatch.event = {}
    /\ dispatch.pc # "mark" => dispatch.event = {}
    /\ dispatch.pc = "idle" => dispatch = NoDispatch
    /\ load["poller"].pc # "idle" => dispatch.pc = "idle"

\* Without a fault, what was told is marked or is the event about to be marked.
ToldInv == faults = 0 => \A t \in told : <<t[2], t[3]>> \in sent \union dispatch.event

IInv == TypeOK /\ DispatchInv /\ ToldInv /\ ToldOnce

-----------------------------------------------------------------------------
(* Lemmas about the operators.                                             *)

LEMMA LoadTypes ==
    /\ \A pc \in {"idle", "orchs", "next", "fetch", "insert"}, orchs \in SUBSET Orchs,
          user \in SUBSET Users : Load(pc, orchs, user) \in Loads
    /\ NoLoad \in Loads /\ NoLoad.pc = "idle"
    /\ AtStart \in [Loaders -> Loads] /\ AtStart["poller"].pc = "idle"
    /\ "poller" \in Loaders
    /\ NoDispatch \in Dispatches /\ NoDispatch.batch = {} /\ NoDispatch.event = {}
    /\ NoDispatch.pc = "idle"
<1>1. \A pc \in {"idle", "orchs", "next", "fetch", "insert"}, orchs \in SUBSET Orchs,
         user \in SUBSET Users : Load(pc, orchs, user) \in Loads
  BY DEF Load, Loads
<1>2. NoLoad \in Loads /\ Load("orchs", {}, {}) \in Loads
  BY <1>1 DEF NoLoad
<1>3. NoLoad.pc = "idle"
  BY DEF NoLoad, Load
<1>4. "poller" \in Loaders
  BY DEF Loaders
<1>5. AtStart \in [Loaders -> Loads] /\ AtStart["poller"] = NoLoad
  BY <1>2, <1>4 DEF AtStart
<1>6. NoDispatch \in Dispatches /\ NoDispatch.batch = {} /\ NoDispatch.event = {}
      /\ NoDispatch.pc = "idle"
  BY DEF NoDispatch, Dispatches
<1>. QED BY <1>1, <1>2, <1>3, <1>4, <1>5, <1>6

\* The explorer answers with changes that have happened.
LEMMA RecentTypes ==
    ASSUME NEW h \in [Orchs -> 0..MaxChanges], NEW o \in Orchs
    PROVE  {<<o, c>> : c \in {c \in 1..h[o] : c > h[o] - HistoryLimit}} \subseteq Orchs \X Changes
BY CutAssumption DEF Changes

-----------------------------------------------------------------------------
(* The invariant holds initially and every action preserves it.            *)

LEMMA InitInv == Init => IInv
<1>. SUFFICES ASSUME Init PROVE IInv
  OBVIOUS
<1>1. TypeOK
  <2>1. history \in [Orchs -> 0..MaxChanges] /\ known \in [Users -> [Orchs -> 0..MaxChanges]]
    BY CutAssumption DEF Init, Untracked
  <2>2. load \in [Loaders -> Loads] /\ dispatch \in Dispatches
    BY LoadTypes DEF Init
  <2>3. leaves \in 0..MaxLeaves /\ faults \in 0..MaxFaults
    BY CutAssumption DEF Init
  <2>. QED BY <2>1, <2>2, <2>3 DEF Init, TypeOK
<1>2. DispatchInv /\ ToldInv /\ ToldOnce
  BY LoadTypes DEF Init, DispatchInv, ToldInv, ToldOnce
<1>. QED BY <1>1, <1>2 DEF IInv

\* A loader's own steps: they touch no dispatch and no DM.
LEMMA QuietLoad ==
    ASSUME IInv, NEW l \in Loaders, NEW n \in Loads, load' = [load EXCEPT ![l] = n],
           l = "poller" => load[l].pc # "idle",
           UNCHANGED <<history, tableVars, booted, dispatch, ran, discordVars, leaves>>,
           faults' \in 0..MaxFaults, faults <= faults'
    PROVE  IInv'
<1>1. TypeOK
  BY DEF IInv
<1>2. load' \in [Loaders -> Loads] /\ (load'["poller"].pc # "idle" => dispatch.pc = "idle")
  BY <1>1, LoadTypes DEF IInv, DispatchInv, TypeOK
<1>3. TypeOK'
  BY <1>1, <1>2 DEF TypeOK, tableVars, discordVars
<1>4. DispatchInv'
  BY <1>2 DEF IInv, DispatchInv, tableVars
<1>5. faults' = 0 => faults = 0
  BY <1>1, CutAssumption DEF TypeOK
<1>6. ToldInv' /\ ToldOnce'
  BY <1>5 DEF IInv, ToldInv, ToldOnce, tableVars, discordVars
<1>. QED BY <1>3, <1>4, <1>6 DEF IInv

LEMMA OwnStep ==
    ASSUME IInv, NEW l \in Loaders, NEW n \in Loads, load' = [load EXCEPT ![l] = n],
           load[l].pc # "idle",
           UNCHANGED <<history, tableVars, booted, dispatch, ran, discordVars, leaves, faults>>
    PROVE  IInv'
<1>1. faults' \in 0..MaxFaults /\ faults <= faults'
  BY CutAssumption DEF IInv, TypeOK
<1>. QED BY <1>1, QuietLoad

LEMMA ListOrchsStep == ASSUME NEW l \in Loaders PROVE IInv /\ ListOrchs(l) => IInv'
<1>. SUFFICES ASSUME IInv, ListOrchs(l) PROVE IInv'
  OBVIOUS
<1>1. Subscribed \in SUBSET Orchs
  BY DEF IInv, TypeOK, Subscribed
<1>2. Load("next", Subscribed, {}) \in Loads
  BY <1>1, LoadTypes
<1>. QED BY <1>2, OwnStep DEF ListOrchs

LEMMA NextOrchStep ==
    ASSUME NEW l \in Loaders, NEW o \in Orchs PROVE IInv /\ NextOrch(l, o) => IInv'
<1>. SUFFICES ASSUME IInv, NextOrch(l, o) PROVE IInv'
  OBVIOUS
<1>. DEFINE first == l # "poller" \/ {e \in stored : e[1] = o} = {}
            n == [load[l] EXCEPT !.pc = "fetch", !.orchs = @ \ {o}, !.orch = {o}, !.mark = first]
<1>1. load[l] \in Loads /\ first \in BOOLEAN
  BY DEF IInv, TypeOK
<1>2. load' = [load EXCEPT ![l] = n]
  BY DEF NextOrch
<1>. HIDE DEF first
<1>3. n \in Loads
  BY <1>1 DEF Loads
<1>. HIDE DEF n
<1>. QED BY <1>2, <1>3, OwnStep DEF NextOrch

LEMMA FetchHistoryStep == ASSUME NEW l \in Loaders PROVE IInv /\ FetchHistory(l) => IInv'
<1>. SUFFICES ASSUME IInv, FetchHistory(l) PROVE IInv'
  OBVIOUS
<1>. DEFINE todo == UNION {Recent(o) : o \in load[l].orch}
            n == [load[l] EXCEPT !.pc = "insert", !.todo = todo]
<1>1. load[l] \in Loads /\ load[l].orch \subseteq Orchs
  BY DEF IInv, TypeOK, Loads
<1>2. todo \in SUBSET (Orchs \X Changes)
  <2>1. \A o \in Orchs : Recent(o) \subseteq Orchs \X Changes
    BY RecentTypes DEF Recent, IInv, TypeOK
  <2>. QED BY <1>1, <2>1
<1>3. load' = [load EXCEPT ![l] = n]
  BY DEF FetchHistory
<1>. HIDE DEF todo
<1>4. n \in Loads
  BY <1>1, <1>2 DEF Loads
<1>. HIDE DEF n
<1>. QED BY <1>3, <1>4, OwnStep DEF FetchHistory

\* A row is only ever marked by the insert that creates it: the rows that the
\* dispatch is at stay unsent, and those that it has told stay sent.
LEMMA InsertEventStep ==
    ASSUME NEW l \in Loaders, NEW e \in Orchs \X Changes PROVE IInv /\ InsertEvent(l, e) => IInv'
<1>. SUFFICES ASSUME IInv, InsertEvent(l, e) PROVE IInv'
  OBVIOUS
<1>. DEFINE n == [load[l] EXCEPT !.todo = @ \ {e}]
<1>1. TypeOK /\ load[l] \in Loads /\ load[l].pc = "insert"
  BY DEF IInv, TypeOK, InsertEvent
<1>2. /\ load' = [load EXCEPT ![l] = n]
      /\ UNCHANGED <<history, rows, booted, dispatch, ran, told, known, resent, leaves, faults>>
  BY DEF InsertEvent, discordVars
<1>3. n \in Loads /\ n.pc = load[l].pc
  BY <1>1 DEF Loads
<1>. HIDE DEF n
<1>4. /\ stored' = stored \union {e}
      /\ sent \subseteq sent' /\ sent' \subseteq stored'
      /\ sent' \intersect stored \subseteq sent
  BY <1>1 DEF InsertEvent, TypeOK
<1>5. load' \in [Loaders -> Loads] /\ load'["poller"].pc = load["poller"].pc
  BY <1>1, <1>2, <1>3 DEF TypeOK
<1>6. TypeOK'
  BY <1>1, <1>2, <1>4, <1>5 DEF TypeOK
<1>7. DispatchInv'
  BY <1>2, <1>4, <1>5 DEF IInv, DispatchInv
<1>8. ToldInv' /\ ToldOnce'
  BY <1>2, <1>4 DEF IInv, ToldInv, ToldOnce
<1>. QED BY <1>6, <1>7, <1>8 DEF IInv

LEMMA OrchDoneStep == ASSUME NEW l \in Loaders PROVE IInv /\ OrchDone(l) => IInv'
<1>. SUFFICES ASSUME IInv, OrchDone(l) PROVE IInv'
  OBVIOUS
<1>. DEFINE n == [load[l] EXCEPT !.pc = "next", !.orch = {}]
<1>1. load[l] \in Loads /\ load' = [load EXCEPT ![l] = n]
  BY DEF IInv, TypeOK, OrchDone
<1>2. n \in Loads
  BY <1>1 DEF Loads
<1>. HIDE DEF n
<1>. QED BY <1>1, <1>2, OwnStep DEF OrchDone

LEMMA LoadDoneStep == ASSUME NEW l \in Loaders PROVE IInv /\ LoadDone(l) => IInv'
<1>. SUFFICES ASSUME IInv, LoadDone(l) PROVE IInv'
  OBVIOUS
<1>1. /\ TypeOK /\ load[l].pc = "next"
      /\ load' = [load EXCEPT ![l] = NoLoad]
      /\ dispatch' = IF l = "poller" THEN [dispatch EXCEPT !.pc = "fetch"] ELSE dispatch
      /\ UNCHANGED <<history, rows, stored, sent, ran, told, resent, leaves, faults>>
  BY DEF LoadDone, IInv, tableVars
<1>2. load' \in [Loaders -> Loads] /\ (l = "poller" => load'["poller"].pc = "idle")
      /\ (l # "poller" => load'["poller"] = load["poller"])
  BY <1>1, LoadTypes DEF TypeOK
<1>3. /\ dispatch' \in Dispatches
      /\ dispatch'.batch = dispatch.batch /\ dispatch'.event = dispatch.event
      /\ (l # "poller" => dispatch' = dispatch)
      /\ (l = "poller" => dispatch.event = {})
  <2>1. dispatch \in Dispatches
    BY <1>1 DEF TypeOK
  <2>2. l = "poller" => dispatch = NoDispatch
    BY <1>1 DEF IInv, DispatchInv
  <2>. QED BY <1>1, <2>1, <2>2, LoadTypes DEF Dispatches
<1>4. known' \in [Users -> [Orchs -> 0..MaxChanges]] /\ booted' \in BOOLEAN
  BY <1>1 DEF TypeOK, LoadDone
<1>5. TypeOK'
  BY <1>1, <1>2, <1>3, <1>4 DEF TypeOK
<1>6. DispatchInv'
  BY <1>1, <1>2, <1>3 DEF IInv, DispatchInv
<1>7. ToldInv' /\ ToldOnce'
  BY <1>1, <1>3 DEF IInv, ToldInv, ToldOnce
<1>. QED BY <1>5, <1>6, <1>7 DEF IInv

LEMMA LoadFailsStep == ASSUME NEW l \in Loaders PROVE IInv /\ LoadFails(l) => IInv'
<1>. SUFFICES ASSUME IInv, LoadFails(l) PROVE IInv'
  OBVIOUS
<1>1. load[l] \in Loads /\ faults \in 0..MaxFaults /\ faults' = faults + 1 /\ faults < MaxFaults
  BY DEF IInv, TypeOK, LoadFails
<1>2. PICK n \in Loads : load' = [load EXCEPT ![l] = n]
  <2>1. [load[l] EXCEPT !.pc = "next", !.orch = {}, !.todo = {}] \in Loads
    BY <1>1 DEF Loads
  <2>2. Load(IF l = "boot" THEN "next" ELSE "idle", {}, {}) \in Loads
    BY LoadTypes
  <2>. QED BY <2>1, <2>2 DEF LoadFails
<1>3. faults' \in 0..MaxFaults /\ faults <= faults'
  BY <1>1, CutAssumption
<1>. QED BY <1>2, <1>3, QuietLoad DEF LoadFails

LEMMA ChangeStep == ASSUME NEW o \in Orchs PROVE IInv /\ Change(o) => IInv'
<1>. SUFFICES ASSUME IInv, Change(o) PROVE IInv'
  OBVIOUS
<1>1. history' \in [Orchs -> 0..MaxChanges]
  BY CutAssumption DEF IInv, TypeOK, Change
<1>2. UNCHANGED <<rows, stored, sent, booted, load, dispatch, ran, told, known, resent, leaves,
                  faults>>
  BY DEF Change, tableVars, discordVars
<1>. QED BY <1>1, <1>2 DEF IInv, TypeOK, DispatchInv, ToldInv, ToldOnce

LEMMA SubscribeStep ==
    ASSUME NEW i \in Commands, NEW u \in Users, NEW o \in Orchs
    PROVE  IInv /\ Subscribe(i, u, o) => IInv'
<1>. SUFFICES ASSUME IInv, Subscribe(i, u, o) PROVE IInv'
  OBVIOUS
<1>1. TypeOK /\ i \in Loaders /\ i # "poller"
  BY LoaderAssumption DEF IInv, Loaders
<1>2. Load("next", {o}, {u}) \in Loads
  BY LoadTypes
<1>3. /\ load' = load \/ load' = [load EXCEPT ![i] = Load("next", {o}, {u})]
      /\ rows' = rows \union {<<u, o>>}
      /\ UNCHANGED <<history, stored, sent, booted, dispatch, told, known, resent, leaves, faults>>
  BY DEF Subscribe, discordVars
<1>4. load' \in [Loaders -> Loads] /\ load'["poller"] = load["poller"]
  BY <1>1, <1>2, <1>3, LoadTypes DEF TypeOK
<1>. QED BY <1>1, <1>3, <1>4 DEF IInv, TypeOK, DispatchInv, ToldInv, ToldOnce

LEMMA UnsubscribeStep ==
    ASSUME NEW u \in Users, NEW o \in Orchs PROVE IInv /\ Unsubscribe(u, o) => IInv'
<1>. SUFFICES ASSUME IInv, Unsubscribe(u, o) PROVE IInv'
  OBVIOUS
<1>1. /\ rows' \subseteq rows /\ leaves' = leaves + 1 /\ leaves < MaxLeaves
      /\ UNCHANGED <<history, stored, sent, booted, load, dispatch, ran, told, resent, faults>>
  BY DEF Unsubscribe
<1>2. known' \in [Users -> [Orchs -> 0..MaxChanges]]
  <2>. DEFINE k == [known[u] EXCEPT ![o] = Untracked]
  <2>1. known' = [known EXCEPT ![u] = k]
    BY DEF Unsubscribe, IInv, TypeOK
  <2>2. k \in [Orchs -> 0..MaxChanges]
    BY CutAssumption DEF IInv, TypeOK, Untracked
  <2>. HIDE DEF k
  <2>. QED BY <2>1, <2>2 DEF IInv, TypeOK
<1>3. leaves' \in 0..MaxLeaves
  BY <1>1, CutAssumption DEF IInv, TypeOK
<1>4. TypeOK'
  BY <1>1, <1>2, <1>3 DEF IInv, TypeOK
<1>. QED BY <1>1, <1>4 DEF IInv, DispatchInv, ToldInv, ToldOnce

LEMMA StartTickStep == IInv /\ StartTick => IInv'
<1>. SUFFICES ASSUME IInv, StartTick PROVE IInv'
  OBVIOUS
<1>. DEFINE n == [load["poller"] EXCEPT !.pc = "orchs"]
<1>1. TypeOK /\ dispatch.pc = "idle" /\ load' = [load EXCEPT !["poller"] = n]
      /\ UNCHANGED <<history, rows, stored, sent, booted, dispatch, ran, told, known, resent,
                     leaves, faults>>
  BY DEF IInv, StartTick, tableVars, discordVars
<1>2. n \in Loads
  BY <1>1, LoadTypes DEF TypeOK, Loads
<1>. HIDE DEF n
<1>3. load' \in [Loaders -> Loads]
  BY <1>1, <1>2 DEF TypeOK
<1>4. TypeOK'
  BY <1>1, <1>3 DEF TypeOK
<1>. QED BY <1>1, <1>4 DEF IInv, DispatchInv, ToldInv, ToldOnce

\* The dispatch ends or is cut off; what it was at stays in the table.
LEMMA DispatchOver ==
    ASSUME IInv, dispatch' = NoDispatch, load' \in [Loaders -> Loads], booted' \in BOOLEAN,
           UNCHANGED <<history, tableVars, ran, discordVars, leaves>>,
           \/ dispatch.pc # "mark" /\ UNCHANGED faults
           \/ faults < MaxFaults /\ faults' = faults + 1
    PROVE  IInv'
<1>1. TypeOK
  BY DEF IInv
<1>2. faults \in 0..MaxFaults /\ faults' \in 0..MaxFaults
  BY <1>1, CutAssumption DEF TypeOK
<1>3. TypeOK'
  BY <1>1, <1>2, LoadTypes DEF TypeOK, tableVars, discordVars
<1>4. DispatchInv'
  BY LoadTypes DEF DispatchInv
<1>5. faults' = 0 => faults = 0 /\ dispatch.pc # "mark"
  BY <1>2
<1>6. ToldInv'
  BY <1>5, LoadTypes DEF IInv, ToldInv, DispatchInv, tableVars, discordVars
<1>7. ToldOnce'
  BY <1>5 DEF IInv, ToldOnce, discordVars
<1>. QED BY <1>3, <1>4, <1>6, <1>7 DEF IInv

LEMMA FetchUnsentStep == IInv /\ FetchUnsent => IInv'
<1>. SUFFICES ASSUME IInv, FetchUnsent PROVE IInv'
  OBVIOUS
<1>1. TypeOK /\ dispatch.pc = "fetch"
      /\ dispatch' = [pc |-> "tell", batch |-> stored \ sent, event |-> {}]
      /\ UNCHANGED <<history, rows, stored, sent, booted, load, ran, told, known, resent,
                     leaves, faults>>
  BY DEF IInv, FetchUnsent, tableVars, discordVars
<1>2. dispatch'.pc = "tell" /\ dispatch'.batch = stored \ sent /\ dispatch'.event = {}
  BY <1>1
<1>3. dispatch' \in Dispatches
  BY <1>1 DEF Dispatches, TypeOK
<1>4. TypeOK'
  BY <1>1, <1>3 DEF TypeOK
<1>5. DispatchInv'
  BY <1>1, <1>2 DEF IInv, DispatchInv
<1>6. ToldInv' /\ ToldOnce'
  BY <1>1, <1>2 DEF IInv, DispatchInv, ToldInv, ToldOnce
<1>. QED BY <1>4, <1>5, <1>6 DEF IInv

\* The event that is told next was not told before, or there was a fault.
LEMMA TellStep == ASSUME NEW e \in Orchs \X Changes PROVE IInv /\ Tell(e) => IInv'
<1>. SUFFICES ASSUME IInv, Tell(e) PROVE IInv'
  OBVIOUS
<1>. DEFINE dms == {<<r[1], e[1], e[2]>> : r \in {r \in rows : r[2] = e[1]}}
            n == [dispatch EXCEPT !.pc = "mark", !.batch = @ \ {e}, !.event = {e}]
<1>1. /\ TypeOK /\ dispatch \in Dispatches /\ dispatch.pc = "tell" /\ e \in dispatch.batch
      /\ told' = told \union dms /\ resent' = resent \union (dms \intersect told)
      /\ dispatch' = n
      /\ UNCHANGED <<history, rows, stored, sent, booted, load, ran, known, leaves, faults>>
  BY DEF IInv, TypeOK, Tell, tableVars
<1>2. n \in Dispatches /\ n.pc = "mark" /\ n.batch = dispatch.batch \ {e} /\ n.event = {e}
  BY <1>1 DEF Dispatches
<1>3. \A t \in dms : t \in Users \X Orchs \X Changes /\ <<t[2], t[3]>> = e
  <2>1. ASSUME NEW r \in rows
        PROVE  <<r[1], e[1], e[2]>> \in Users \X Orchs \X Changes
    BY <1>1 DEF TypeOK
  <2>2. e = <<e[1], e[2]>>
    OBVIOUS
  <2>. QED BY <2>1, <2>2
<1>. HIDE DEF dms, n
<1>4. TypeOK'
  BY <1>1, <1>2, <1>3 DEF TypeOK
<1>5. DispatchInv'
  BY <1>1, <1>2 DEF IInv, DispatchInv
<1>6. ToldInv'
  BY <1>1, <1>2, <1>3 DEF IInv, DispatchInv, ToldInv
<1>7. ToldOnce'
  <2>1. faults = 0 => dms \intersect told = {}
    BY <1>1, <1>3 DEF IInv, DispatchInv, ToldInv
  <2>. QED BY <1>1, <2>1 DEF IInv, ToldOnce
<1>. QED BY <1>4, <1>5, <1>6, <1>7 DEF IInv

LEMMA MarkSentStep == IInv /\ MarkSent => IInv'
<1>. SUFFICES ASSUME IInv, MarkSent PROVE IInv'
  OBVIOUS
<1>. DEFINE n == [dispatch EXCEPT !.pc = "tell", !.event = {}]
<1>1. /\ TypeOK /\ dispatch \in Dispatches /\ dispatch.pc = "mark"
      /\ sent' = sent \union dispatch.event /\ dispatch' = n
      /\ UNCHANGED <<history, rows, stored, booted, load, ran, told, known, resent, leaves, faults>>
  BY DEF IInv, TypeOK, MarkSent, discordVars
<1>2. n \in Dispatches /\ n.pc = "tell" /\ n.batch = dispatch.batch /\ n.event = {}
  BY <1>1 DEF Dispatches
<1>. HIDE DEF n
<1>3. TypeOK'
  BY <1>1, <1>2 DEF IInv, DispatchInv, TypeOK
<1>4. DispatchInv'
  BY <1>1, <1>2 DEF IInv, DispatchInv
<1>5. ToldInv' /\ ToldOnce'
  BY <1>1, <1>2 DEF IInv, ToldInv, ToldOnce
<1>. QED BY <1>3, <1>4, <1>5 DEF IInv

LEMMA EndStep == IInv /\ (EndDispatch \/ DispatchFails \/ Crash) => IInv'
<1>. SUFFICES ASSUME IInv, EndDispatch \/ DispatchFails \/ Crash PROVE IInv'
  OBVIOUS
<1>1. load \in [Loaders -> Loads] /\ booted \in BOOLEAN
  BY DEF IInv, TypeOK
<1>2. load' \in [Loaders -> Loads] /\ booted' \in BOOLEAN
  BY <1>1, LoadTypes DEF EndDispatch, DispatchFails, Crash
<1>. QED BY <1>2, DispatchOver DEF EndDispatch, DispatchFails, Crash

LEMMA NextInv == IInv /\ [Next]_vars => IInv'
<1>. SUFFICES ASSUME IInv, [Next]_vars PROVE IInv'
  OBVIOUS
<1>1. ASSUME NEW l \in Loaders, LoadNext(l) PROVE IInv'
  <2>1. ASSUME NEW o \in Orchs, NEW c \in Changes, InsertEvent(l, <<o, c>>) PROVE IInv'
    BY <2>1, InsertEventStep
  <2>2. ASSUME NEW o \in Orchs, NextOrch(l, o) PROVE IInv'
    BY <2>2, NextOrchStep
  <2>. QED BY <1>1, <2>1, <2>2, ListOrchsStep, FetchHistoryStep, OrchDoneStep, LoadDoneStep
           DEF LoadNext
<1>2. ASSUME NEW o \in Orchs, NEW c \in Changes, Tell(<<o, c>>) PROVE IInv'
  BY <1>2, TellStep
<1>3. CASE PollerNext
  BY <1>1, <1>2, <1>3, LoadTypes, StartTickStep, FetchUnsentStep, MarkSentStep, EndStep
     DEF PollerNext
<1>4. ASSUME NEW o \in Orchs, Change(o) PROVE IInv'
  BY <1>4, ChangeStep
<1>5. ASSUME NEW i \in Commands, NEW u \in Users, NEW o \in Orchs, Subscribe(i, u, o) PROVE IInv'
  BY <1>5, SubscribeStep
<1>6. ASSUME NEW u \in Users, NEW o \in Orchs, Unsubscribe(u, o) PROVE IInv'
  BY <1>6, UnsubscribeStep
<1>7. ASSUME NEW l \in Loaders, LoadFails(l) PROVE IInv'
  BY <1>7, LoadFailsStep
<1>8. CASE UNCHANGED vars
  BY <1>8 DEF vars, IInv, TypeOK, DispatchInv, ToldInv, ToldOnce
<1>. QED BY <1>1, <1>3, <1>4, <1>5, <1>6, <1>7, <1>8, EndStep DEF Next

-----------------------------------------------------------------------------
(* Theorems.                                                               *)

LEMMA Invariance == Spec => []IInv
BY InitInv, NextInv, PTL DEF Spec

\* The tables, the loaders and the dispatch keep their types; a marked row is a
\* stored one.
THEOREM Types == Spec => []TypeOK
BY Invariance, PTL DEF IInv

\* A change is told again only after a fault, however many seeds load its
\* orchestrator's history beside the poller.
THEOREM ToldAgainOnlyAfterFault == Spec => []ToldOnce
BY Invariance, PTL DEF IInv

\* A row once marked as sent stays marked, and no row is lost: what the seeds and
\* the poller insert over each other never makes a change unsent again.
THEOREM MarksStay == Spec => [][sent \subseteq sent' /\ stored \subseteq stored']_vars
<1>1. ASSUME [Next]_vars PROVE sent \subseteq sent' /\ stored \subseteq stored'
  <2>1. ASSUME NEW l \in Loaders, LoadNext(l) PROVE sent \subseteq sent' /\ stored \subseteq stored'
    BY <2>1 DEF LoadNext, ListOrchs, FetchHistory, OrchDone, LoadDone, NextOrch, InsertEvent,
                tableVars
  <2>2. ASSUME PollerNext PROVE sent \subseteq sent' /\ stored \subseteq stored'
    BY <2>1, <2>2, LoadTypes DEF PollerNext, StartTick, FetchUnsent, MarkSent, EndDispatch, Tell,
                                 tableVars
  <2>. QED BY <1>1, <2>1, <2>2 DEF Next, Change, Subscribe, Unsubscribe, LoadFails,
                                   DispatchFails, Crash, tableVars, vars
<1>2. [Next]_vars => [sent \subseteq sent' /\ stored \subseteq stored']_vars
  BY <1>1
<1>. QED BY <1>2, PTL DEF Spec

=============================================================================
