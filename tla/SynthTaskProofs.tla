--------------------------- MODULE SynthTaskProofs ---------------------------
(* Theorems about SynthTask, for any processes and any bound on faults. *)
EXTENDS SynthTask, TLAPS

LEMMA ApplyType ==
    ASSUME NEW item \in TaskState, NEW remote \in TaskState
    PROVE  /\ Apply(item, remote) \in TaskState
           /\ Apply(item, remote).status \in {item.status, remote.status}
BY DEF Apply, TaskState

(* Setting one field of a task record gives a task record. *)
LEMMA FieldType ==
    ASSUME NEW item \in TaskState
    PROVE  /\ [item EXCEPT !.owner = TRUE] \in TaskState
           /\ [item EXCEPT !.cancel = TRUE] \in TaskState
           /\ \A status \in TaskStatus : [item EXCEPT !.status = status] \in TaskState
BY DEF TaskState

LEMMA StatesType == NoState \in TaskState /\ Fresh \in TaskState
BY DEF NoState, Fresh, TaskState, TaskStatus, Terminal

LEMMA TypeInit == Init => TypeOK
<1> SUFFICES ASSUME Init PROVE TypeOK
  OBVIOUS
<1>1. row \in RowState
  BY DEF Init, RowState
<1>2. /\ ram \in [Proc -> TaskState]
      /\ held \in [Proc -> TaskState]
      /\ cheld \in [Web -> TaskState]
      /\ seen \in [Web -> TaskState]
      /\ key \in TaskState
  BY StatesType DEF Init
<1>3. /\ pc \in [Proc -> MainPlace]
      /\ cpc \in [Web -> CancelPlace]
      /\ role \in [Proc -> {"submit", "run"}]
      /\ ctx \in [Proc -> {"live", "cut"}]
      /\ sub \in [Proc -> {"none", "asked", "open", "msg"}]
  BY DEF Init, MainPlace, CancelPlace
<1>4. /\ faults \in 0..MaxFaults
      /\ msg \in {"none", "queued", "twice", "gone"}
  BY ProcessAssumption DEF Init
<1>5. stored \in BOOLEAN /\ published \in BOOLEAN /\ gap \in BOOLEAN /\ unheard \in BOOLEAN
  BY DEF Init
<1>6. QED
  BY <1>1, <1>2, <1>3, <1>4, <1>5 DEF TypeOK

LEMMA SubmissionType ==
    ASSUME TypeOK, NEW w \in Web, Submission(w)
    PROVE  TypeOK'
<1> USE DEF TypeOK, Goto, NoFault, Fault, MainPlace, Proc
<1>1. CASE Register(w)
  BY <1>1 DEF Register, RowState, cancelVars, history
<1>2. CASE Send(w)
  BY <1>2, ProcessAssumption DEF Send, Queued, cancelVars, history
<1>3. QED BY <1>1, <1>2 DEF Submission

LEMMA PreparationType ==
    ASSUME TypeOK, NEW p \in Proc, Preparation(p)
    PROVE  TypeOK'
<1> USE DEF TypeOK, Goto, NoFault, Fault, MainPlace, stateVars, cancelVars, history
<1>1. CASE GetOrCreateHit(p)
  BY <1>1 DEF GetOrCreateHit
<1>2. CASE GetOrCreateRead(p)
  BY <1>2, ProcessAssumption DEF GetOrCreateRead, Reads
<1>3. CASE GetOrCreatePut(p)
  <2>1. Apply(Fresh, held[p]) \in TaskState
    BY ApplyType, StatesType
  <2>2. key' \in TaskState /\ faults' \in 0..MaxFaults
    BY <1>3, <2>1, ProcessAssumption DEF GetOrCreatePut, Writes
  <2>3. /\ ram' \in [Proc -> TaskState]
        /\ held' \in [Proc -> TaskState]
        /\ pc' \in [Proc -> MainPlace]
    BY <1>3, <2>1, StatesType DEF GetOrCreatePut
  <2>4. QED BY <1>3, <2>2, <2>3 DEF GetOrCreatePut
<1>4. CASE SetOwner(p)
  <2>1. [ram[p] EXCEPT !.owner = TRUE] \in TaskState
    BY FieldType
  <2>2. ram' = [ram EXCEPT ![p] = [ram[p] EXCEPT !.owner = TRUE]]
    BY <1>4 DEF SetOwner
  <2>3. ram' \in [Proc -> TaskState]
    BY <2>1, <2>2
  <2>4. QED BY <1>4, <2>3 DEF SetOwner, AfterOwner
<1>5. CASE SetOwnerMarshal(p)
  BY <1>5 DEF SetOwnerMarshal
<1>6. CASE SetOwnerPut(p)
  BY <1>6, StatesType, ProcessAssumption DEF SetOwnerPut, Writes, AfterOwner
<1>7. QED BY <1>1, <1>2, <1>3, <1>4, <1>5, <1>6 DEF Preparation

(* What a run's small helpers do to the typed variables. *)
LEMMA CutType ==
    ASSUME TypeOK, NEW p \in Proc, Cut(p)
    PROVE  ram' \in [Proc -> TaskState] /\ ctx' \in [Proc -> {"live", "cut"}]
<1>1. [ram[p] EXCEPT !.cancel = TRUE] \in TaskState
  BY FieldType DEF TypeOK
<1>2. ram' = [ram EXCEPT ![p] = [ram[p] EXCEPT !.cancel = TRUE]]
  BY DEF Cut
<1>3. QED BY <1>1, <1>2 DEF TypeOK, Cut

LEMMA UpdateType ==
    ASSUME TypeOK, NEW status \in Terminal, NEW value \in BOOLEAN,
           UpdateChunkStatus(status, value)
    PROVE  row' \in RowState /\ faults' \in 0..MaxFaults
<1>1. (row.path \/ value) \in BOOLEAN
  OBVIOUS
<1>2. [status |-> status, path |-> row.path \/ value] \in RowState
  BY <1>1 DEF RowState
<1>3. QED
  BY <1>2, ProcessAssumption DEF TypeOK, UpdateChunkStatus, Records, Fault, NoFault

LEMMA RunningType ==
    ASSUME TypeOK, NEW p \in Proc, Running(p)
    PROVE  TypeOK'
<1> USE DEF TypeOK, Goto, NoFault, Fault, MainPlace, stateVars, cancelVars, history
<1>1. CASE WatchLocal(p)
  BY <1>1, CutType DEF WatchLocal
<1>2. CASE WatchSubscribe(p)
  BY <1>2 DEF WatchSubscribe
<1>3. CASE WatchReread(p)
  BY <1>3, CutType, ProcessAssumption DEF WatchReread, Reads
<1>4. CASE CallEngine(p)
  BY <1>4 DEF CallEngine
<1>5. CASE EngineReturns(p)
  BY <1>5 DEF EngineReturns
<1>6. CASE Failed(p)
  BY <1>6 DEF Failed
<1>7. CASE CheckCancel(p)
  BY <1>7 DEF CheckCancel
<1>8. CASE StorePut(p)
  BY <1>8 DEF StorePut
<1>9. CASE RowDone(p)
  BY <1>9, UpdateType DEF RowDone, Terminal
<1>10. CASE RowFail(p)
  BY <1>10, UpdateType DEF RowFail, Terminal
<1>11. CASE RowError(p)
  BY <1>11, UpdateType DEF RowError, Terminal, StopWatch
<1>12. CASE RowCancel(p)
  BY <1>12, UpdateType DEF RowCancel, Terminal, StopWatch
<1>13. CASE NotifyLocal(p)
  <2> DEFINE item == [ram[p] EXCEPT !.status = SayFrom[pc[p]]]
  <2>1. SayFrom[pc[p]] \in TaskStatus /\ AfterSay[pc[p]] \in MainPlace
    BY <1>13 DEF NotifyLocal, SayFrom, AfterSay, TaskStatus, Terminal
  <2>2. item \in TaskState
    BY <2>1, FieldType
  <2>3. ram' = [ram EXCEPT ![p] = item]
    BY <1>13 DEF NotifyLocal
  <2> HIDE DEF item
  <2>4. ram' \in [Proc -> TaskState] /\ pc' \in [Proc -> MainPlace]
    BY <1>13, <2>1, <2>2, <2>3 DEF NotifyLocal
  <2>5. QED BY <1>13, <2>4 DEF NotifyLocal
<1>14. CASE NotifyMarshal(p)
  BY <1>14 DEF NotifyMarshal
<1>15. CASE NotifySet(p)
  BY <1>15, StatesType, ProcessAssumption DEF NotifySet, Writes, StopWatch
<1>16. QED
  BY <1>1, <1>2, <1>3, <1>4, <1>5, <1>6, <1>7, <1>8, <1>9, <1>10, <1>11, <1>12,
     <1>13, <1>14, <1>15 DEF Running

LEMMA GetReadsType ==
    ASSUME TypeOK, NEW w \in Web, NEW value \in TaskState, GetReads(w, value)
    PROVE  faults' \in 0..MaxFaults /\ value \in {key, NoState}
BY ProcessAssumption DEF TypeOK, GetReads, Reads, Fault, NoFault

LEMMA RefreshedType ==
    ASSUME TypeOK, NEW w \in Web, NEW value \in TaskState
    PROVE  /\ Refreshed(w, value) \in TaskState
           /\ Refreshed(w, value).status \in {ram[w].status, value.status}
<1>1. ram[w] \in TaskState
  BY DEF TypeOK, Proc
<1>2. QED BY <1>1, ApplyType DEF Refreshed

LEMMA CancellingType ==
    ASSUME TypeOK, NEW w \in Web, Cancelling(w)
    PROVE  TypeOK'
<1> USE DEF TypeOK, NoFault, Fault, CancelPlace, stateVars, mainVars, cancelVars,
            history, Proc
<1>1. CASE CancelArrives(w)
  BY <1>1, GetReadsType DEF CancelArrives
<1>2. CASE CancelPrecheck(w)
  <2>1. Refreshed(w, cheld[w]) \in TaskState
    BY RefreshedType
  <2>2. QED BY <1>2, <2>1, StatesType DEF CancelPrecheck
<1>3. CASE CancelGet(w)
  BY <1>3, GetReadsType DEF CancelGet
<1>4. CASE CancelFlag(w)
  <2> DEFINE item == Refreshed(w, cheld[w])
  <2>1. [item EXCEPT !.cancel = TRUE] \in TaskState
    BY RefreshedType, FieldType
  <2>2. \/ ram' = ram
        \/ ram' = [ram EXCEPT ![w] = [item EXCEPT !.cancel = TRUE]]
    BY <1>4 DEF CancelFlag
  <2>3. ram' \in [Proc -> TaskState]
    BY <2>1, <2>2
  <2>4. QED BY <1>4, <2>3, StatesType DEF CancelFlag
<1>5. CASE CancelSay(w)
  <2>1. [ram[w] EXCEPT !.status = "cancelled"] \in TaskState
    BY FieldType DEF TaskStatus, Terminal
  <2>2. ram' = [ram EXCEPT ![w] = [ram[w] EXCEPT !.status = "cancelled"]]
    BY <1>5 DEF CancelSay
  <2>3. ram' \in [Proc -> TaskState]
    BY <2>1, <2>2
  <2>4. QED BY <1>5, <2>3 DEF CancelSay
<1>6. CASE CancelMarshal(w)
  BY <1>6 DEF CancelMarshal
<1>7. CASE CancelSet(w)
  <2>1. gap' \in BOOLEAN
    BY <1>7 DEF CancelSet
  <2>2. QED BY <1>7, <2>1, StatesType, ProcessAssumption DEF CancelSet
<1>8. CASE CancelPublish(w)
  <2>1. published' \in BOOLEAN /\ unheard' \in BOOLEAN
    BY <1>8 DEF CancelPublish
  <2>2. sub' \in [Proc -> {"none", "asked", "open", "msg"}]
    BY <1>8 DEF CancelPublish
  <2>3. faults' \in 0..MaxFaults
    BY <1>8, ProcessAssumption DEF CancelPublish
  <2>4. /\ UNCHANGED <<stateVars, pc, role, held, ctx, cheld, seen, gap>>
        /\ cpc' \in [Web -> CancelPlace]
    BY <1>8 DEF CancelPublish
  <2>5. QED BY <2>1, <2>2, <2>3, <2>4
<1>9. CASE CancelRow(w)
  <2>1. [row EXCEPT !.status = "cancelled"] \in RowState
    BY DEF RowState, Terminal
  <2>2. row' \in RowState /\ faults' \in 0..MaxFaults
    BY <1>9, <2>1, ProcessAssumption DEF CancelRow, Records
  <2>3. QED BY <1>9, <2>2 DEF CancelRow
<1>10. QED
  BY <1>1, <1>2, <1>3, <1>4, <1>5, <1>6, <1>7, <1>8, <1>9 DEF Cancelling

LEMMA EnvironmentType ==
    ASSUME TypeOK,
           \/ \E k \in Worker : Deliver(k)
           \/ \E p \in Proc : Listening(p) \/ Crash(p)
           \/ \E w \in Web : Polling(w)
           \/ Reconcile \/ LoseKey \/ LoseMessage
    PROVE  TypeOK'
<1> USE DEF TypeOK, Goto, NoFault, Fault, stateVars, mainVars, cancelVars, history
<1>1. ASSUME NEW k \in Worker, Deliver(k) PROVE TypeOK'
  BY <1>1 DEF Deliver, Fewer, MainPlace, Proc
<1>2. ASSUME NEW p \in Proc, Listening(p) PROVE TypeOK'
  BY <1>2, CutType DEF Listening, Hear, WatchJoins
<1>3. ASSUME NEW p \in Proc, Crash(p) PROVE TypeOK'
  <2>1. ram' \in [Proc -> TaskState] /\ held' \in [Proc -> TaskState]
    BY <1>3, StatesType DEF Crash
  <2>2. cheld' \in [Web -> TaskState] /\ seen' \in [Web -> TaskState]
    BY <1>3, StatesType DEF Crash
  <2>3. pc' \in [Proc -> MainPlace] /\ cpc' \in [Web -> CancelPlace]
    BY <1>3 DEF Crash, MainPlace, CancelPlace
  <2>4. QED BY <1>3, <2>1, <2>2, <2>3, ProcessAssumption DEF Crash
<1>4. ASSUME NEW w \in Web, PollReads(w) PROVE TypeOK'
  BY <1>4 DEF PollReads
<1>5. ASSUME NEW w \in Web, PollApplies(w) PROVE TypeOK'
  <2>1. Refreshed(w, seen[w]) \in TaskState
    BY RefreshedType
  <2>2. QED BY <1>5, <2>1, StatesType DEF PollApplies
<1>6. CASE Reconcile
  <2>1. [row EXCEPT !.status = "error"] \in RowState
    BY DEF RowState, Terminal
  <2>2. QED BY <1>6, <2>1 DEF Reconcile
<1>7. CASE LoseKey
  BY <1>7, StatesType, ProcessAssumption DEF LoseKey
<1>8. CASE LoseMessage
  BY <1>8, ProcessAssumption DEF LoseMessage, Fewer
<1>9. QED
  BY <1>1, <1>2, <1>3, <1>4, <1>5, <1>6, <1>7, <1>8 DEF Polling

LEMMA TypeStep == TypeOK /\ [Next]_vars => TypeOK'
<1> SUFFICES ASSUME TypeOK, [Next]_vars PROVE TypeOK'
  OBVIOUS
<1>1. CASE UNCHANGED vars
  BY <1>1 DEF vars, TypeOK
<1>2. CASE \E w \in Web : Submission(w)
  BY <1>2, SubmissionType
<1>3. CASE \E p \in Proc : Preparation(p) \/ Running(p)
  BY <1>3, PreparationType, RunningType
<1>4. CASE \E w \in Cancellers : Cancelling(w)
  BY <1>4, CancellingType, ProcessAssumption
<1>5. CASE \/ \E k \in Worker : Deliver(k)
           \/ \E p \in Proc : Listening(p) \/ Crash(p)
           \/ \E w \in Pollers : Polling(w)
           \/ Reconcile \/ LoseKey \/ LoseMessage
  BY <1>5, EnvironmentType, ProcessAssumption
<1>6. QED
  BY <1>1, <1>2, <1>3, <1>4, <1>5 DEF Next

(* In every state of every execution each variable holds a value of its    *)
(* kind: the records that travel between RAM and Redis stay well formed    *)
(* through every merge of two copies, whatever fails or crashes.           *)
THEOREM TypeCorrect == Spec => []TypeOK
BY TypeInit, TypeStep, PTL DEF Spec
-----------------------------------------------------------------------------
(* DoneIsDurable is not inductive: a copy on its way to Redis, in a poll   *)
(* or in a cancel request may say "done", and a run that is about to write *)
(* its row or its announcement says it next.  The strengthening covers     *)
(* them all, and adds what the refinement needs of a row that is not there.*)

NothingDone ==
    /\ key.status # "done"
    /\ ~row.path
    /\ \A p \in Proc :
          /\ ram[p].status # "done"
          /\ held[p].status # "done"
          /\ pc[p] \notin {"rowdone", "saydone"}
    /\ \A w \in Web : cheld[w].status # "done" /\ seen[w].status # "done"

Backed == stored \/ NothingDone

DoneRowHasPath == row.status = "done" => row.path

RowComesFirst ==
    row.status = "none" =>
        /\ ~row.path
        /\ msg = "none"
        /\ \A p \in Proc : pc[p] = "idle"

IInv == TypeOK /\ Backed /\ DoneRowHasPath /\ RowComesFirst

(* The store never loses an object, so only a step that starts and ends    *)
(* without the audio can break Backed.                                     *)
LEMMA NothingDoneInit == Init => NothingDone
BY DEF Init, NothingDone, NoState

LEMMA NothingDonePreparation ==
    ASSUME TypeOK, NothingDone, NEW p \in Proc, Preparation(p)
    PROVE  NothingDone'
<1> USE DEF NothingDone, TypeOK, Goto, stateVars, cancelVars, Proc
<1>1. CASE GetOrCreateHit(p)
  BY <1>1 DEF GetOrCreateHit
<1>2. CASE GetOrCreateRead(p)
  BY <1>2 DEF GetOrCreateRead, Reads, NoState
<1>3. CASE GetOrCreatePut(p)
  <2>1. Apply(Fresh, held[p]).status # "done"
    BY ApplyType, StatesType DEF Fresh
  <2>2. key'.status # "done"
    BY <1>3, <2>1 DEF GetOrCreatePut, Writes
  <2>3. \A q \in Proc : ram'[q].status # "done"
    BY <1>3, <2>1 DEF GetOrCreatePut
  <2>4. \A q \in Proc : held'[q].status # "done"
    BY <1>3 DEF GetOrCreatePut, NoState
  <2>5. QED BY <1>3, <2>2, <2>3, <2>4 DEF GetOrCreatePut
<1>4. CASE SetOwner(p)
  <2>1. \A q \in Proc : ram'[q].status = ram[q].status
    BY <1>4 DEF SetOwner, TaskState
  <2>2. QED BY <1>4, <2>1 DEF SetOwner, AfterOwner
<1>5. CASE SetOwnerMarshal(p)
  BY <1>5 DEF SetOwnerMarshal
<1>6. CASE SetOwnerPut(p)
  BY <1>6 DEF SetOwnerPut, Writes, AfterOwner, NoState
<1>7. QED BY <1>1, <1>2, <1>3, <1>4, <1>5, <1>6 DEF Preparation

LEMMA CutStatus ==
    ASSUME TypeOK, NEW p \in Proc, Cut(p), NEW q \in Proc
    PROVE  ram'[q].status = ram[q].status
BY DEF TypeOK, Cut, TaskState

LEMMA NothingDoneRunning ==
    ASSUME TypeOK, NothingDone, ~stored', NEW p \in Proc, Running(p)
    PROVE  NothingDone'
<1> USE DEF NothingDone, TypeOK, Goto, stateVars, cancelVars
<1>1. CASE WatchLocal(p)
  BY <1>1, CutStatus DEF WatchLocal
<1>2. CASE WatchSubscribe(p)
  BY <1>2 DEF WatchSubscribe
<1>3. CASE WatchReread(p)
  BY <1>3, CutStatus DEF WatchReread
<1>4. CASE CallEngine(p)
  BY <1>4 DEF CallEngine
<1>5. CASE EngineReturns(p)
  BY <1>5 DEF EngineReturns
<1>6. CASE Failed(p)
  BY <1>6 DEF Failed
<1>7. CASE CheckCancel(p)
  BY <1>7 DEF CheckCancel
<1>8. CASE StorePut(p)
  BY <1>8 DEF StorePut
<1>9. CASE RowDone(p)
  BY <1>9 DEF RowDone
<1>10. CASE RowFail(p)
  <2>1. ~row'.path
    BY <1>10 DEF RowFail, UpdateChunkStatus, Records
  <2>2. QED BY <1>10, <2>1 DEF RowFail
<1>11. CASE RowError(p)
  <2>1. ~row'.path
    BY <1>11 DEF RowError, UpdateChunkStatus, Records
  <2>2. QED BY <1>11, <2>1 DEF RowError
<1>12. CASE RowCancel(p)
  <2>1. ~row'.path
    BY <1>12 DEF RowCancel, UpdateChunkStatus, Records
  <2>2. QED BY <1>12, <2>1 DEF RowCancel
<1>13. CASE NotifyLocal(p)
  <2>1. SayFrom[pc[p]] # "done" /\ AfterSay[pc[p]] \notin {"rowdone", "saydone"}
    BY <1>13 DEF NotifyLocal, SayFrom, AfterSay
  <2>2. \A q \in Proc : ram'[q].status \in {ram[q].status, SayFrom[pc[p]]}
    BY <1>13 DEF NotifyLocal, TaskState
  <2>3. QED BY <1>13, <2>1, <2>2 DEF NotifyLocal
<1>14. CASE NotifyMarshal(p)
  BY <1>14 DEF NotifyMarshal
<1>15. CASE NotifySet(p)
  BY <1>15 DEF NotifySet, Writes, NoState
<1>16. QED
  BY <1>1, <1>2, <1>3, <1>4, <1>5, <1>6, <1>7, <1>8, <1>9, <1>10, <1>11, <1>12,
     <1>13, <1>14, <1>15 DEF Running

LEMMA NothingDoneCancelling ==
    ASSUME TypeOK, NothingDone, NEW w \in Web, Cancelling(w)
    PROVE  NothingDone'
<1> USE DEF NothingDone, TypeOK, stateVars, mainVars, cancelVars, Proc
<1>1. CASE CancelArrives(w)
  BY <1>1, GetReadsType DEF CancelArrives, NoState
<1>2. CASE CancelPrecheck(w)
  <2>1. Refreshed(w, cheld[w]).status # "done"
    BY RefreshedType
  <2>2. QED BY <1>2, <2>1 DEF CancelPrecheck, NoState
<1>3. CASE CancelGet(w)
  BY <1>3, GetReadsType DEF CancelGet, NoState
<1>4. CASE CancelFlag(w)
  <2> DEFINE item == Refreshed(w, cheld[w])
  <2>1. item \in TaskState /\ item.status # "done"
    BY RefreshedType
  <2>2. [item EXCEPT !.cancel = TRUE].status # "done"
    BY <2>1 DEF TaskState
  <2>3. \/ ram' = ram
        \/ ram' = [ram EXCEPT ![w] = [item EXCEPT !.cancel = TRUE]]
    BY <1>4 DEF CancelFlag
  <2>4. \A q \in Proc : ram'[q].status # "done"
    BY <2>2, <2>3
  <2>5. QED BY <1>4, <2>4 DEF CancelFlag, NoState
<1>5. CASE CancelSay(w)
  <2>1. \A q \in Proc : ram'[q].status \in {ram[q].status, "cancelled"}
    BY <1>5 DEF CancelSay, TaskState
  <2>2. QED BY <1>5, <2>1 DEF CancelSay
<1>6. CASE CancelMarshal(w)
  BY <1>6 DEF CancelMarshal
<1>7. CASE CancelSet(w)
  BY <1>7 DEF CancelSet, NoState
<1>8. CASE CancelPublish(w)
  BY <1>8 DEF CancelPublish
<1>9. CASE CancelRow(w)
  <2>1. ~row'.path
    BY <1>9 DEF CancelRow, Records, RowState
  <2>2. QED BY <1>9, <2>1 DEF CancelRow
<1>10. QED
  BY <1>1, <1>2, <1>3, <1>4, <1>5, <1>6, <1>7, <1>8, <1>9 DEF Cancelling

LEMMA NothingDoneElsewhere ==
    ASSUME TypeOK, NothingDone,
           \/ \E w \in Web : Submission(w) \/ Polling(w)
           \/ \E k \in Worker : Deliver(k)
           \/ \E p \in Proc : Listening(p) \/ Crash(p)
           \/ Reconcile \/ LoseKey \/ LoseMessage
    PROVE  NothingDone'
<1> USE DEF NothingDone, TypeOK, Goto, stateVars, mainVars, cancelVars, Proc
<1>1. ASSUME NEW w \in Web, Submission(w) PROVE NothingDone'
  BY <1>1 DEF Submission, Register, Send, Queued
<1>2. ASSUME NEW w \in Web, PollReads(w) PROVE NothingDone'
  BY <1>2 DEF PollReads
<1>3. ASSUME NEW w \in Web, PollApplies(w) PROVE NothingDone'
  <2>1. Refreshed(w, seen[w]).status # "done"
    BY RefreshedType
  <2>2. QED BY <1>3, <2>1 DEF PollApplies, NoState
<1>4. ASSUME NEW k \in Worker, Deliver(k) PROVE NothingDone'
  BY <1>4 DEF Deliver, Fewer
<1>5. ASSUME NEW p \in Proc, Listening(p) PROVE NothingDone'
  BY <1>5, CutStatus DEF Listening, Hear, WatchJoins
<1>6. ASSUME NEW p \in Proc, Crash(p) PROVE NothingDone'
  BY <1>6 DEF Crash, NoState
<1>7. CASE Reconcile
  <2>1. ~row'.path
    BY <1>7 DEF Reconcile, RowState
  <2>2. QED BY <1>7, <2>1 DEF Reconcile
<1>8. CASE LoseKey
  BY <1>8 DEF LoseKey, NoState
<1>9. CASE LoseMessage
  BY <1>9 DEF LoseMessage, Fewer
<1>10. QED
  BY <1>1, <1>2, <1>3, <1>4, <1>5, <1>6, <1>7, <1>8, <1>9 DEF Polling

LEMMA StoredStays ==
    ASSUME stored, [Next]_vars
    PROVE  stored'
<1> USE DEF stateVars
<1>1. ASSUME NEW w \in Web, Submission(w) \/ Polling(w) \/ Cancelling(w) PROVE stored'
  BY <1>1 DEF Submission, Register, Send, Queued, Polling, PollReads, PollApplies,
     Cancelling, CancelArrives, CancelPrecheck, CancelGet, CancelFlag, CancelSay,
     CancelMarshal, CancelSet, CancelPublish, CancelRow
<1>2. ASSUME NEW p \in Proc, Preparation(p) PROVE stored'
  BY <1>2 DEF Preparation, GetOrCreateHit, GetOrCreateRead, GetOrCreatePut, SetOwner,
     SetOwnerMarshal, SetOwnerPut
<1>3. ASSUME NEW p \in Proc, Running(p) PROVE stored'
  BY <1>3 DEF Running, WatchLocal, WatchSubscribe, WatchReread, CallEngine,
     EngineReturns, Failed, CheckCancel, StorePut, RowDone, RowFail, RowError,
     RowCancel, NotifyLocal, NotifyMarshal, NotifySet
<1>4. ASSUME NEW p \in Proc, Deliver(p) \/ Listening(p) \/ Crash(p) PROVE stored'
  BY <1>4 DEF Deliver, Fewer, Listening, Hear, WatchJoins, Crash
<1>5. CASE Reconcile \/ LoseKey \/ LoseMessage \/ UNCHANGED vars
  BY <1>5 DEF Reconcile, LoseKey, LoseMessage, Fewer, vars
<1>6. QED
  BY <1>1, <1>2, <1>3, <1>4, <1>5, ProcessAssumption DEF Next, Proc

LEMMA BackedStep ==
    ASSUME TypeOK, Backed, [Next]_vars
    PROVE  Backed'
<1> SUFFICES ASSUME ~stored' PROVE NothingDone'
  BY DEF Backed
<1>1. NothingDone
  BY StoredStays DEF Backed
<1>2. CASE \E p \in Proc : Preparation(p) \/ Running(p)
  BY <1>1, <1>2, NothingDonePreparation, NothingDoneRunning
<1>3. CASE \E w \in Cancellers : Cancelling(w)
  BY <1>1, <1>3, NothingDoneCancelling, ProcessAssumption
<1>4. CASE \/ \E w \in Web : Submission(w)
           \/ \E w \in Pollers : Polling(w)
           \/ \E k \in Worker : Deliver(k)
           \/ \E p \in Proc : Listening(p) \/ Crash(p)
           \/ Reconcile \/ LoseKey \/ LoseMessage
  BY <1>1, <1>4, NothingDoneElsewhere, ProcessAssumption
<1>5. CASE UNCHANGED vars
  BY <1>1, <1>5 DEF vars, NothingDone
<1>6. QED BY <1>2, <1>3, <1>4, <1>5 DEF Next
-----------------------------------------------------------------------------
(* The refinement of ChunkLifecycle.  A step that leaves the row and the    *)
(* store alone opens no run again, which is GiveUp (of nobody, mostly).    *)

LEMMA OpenMoves ==
    ASSUME TypeOK, NEW p \in Proc, NEW to, Goto(p, to)
    PROVE  /\ pc[p] \in BeforeRow \/ to \notin BeforeRow => Open' \subseteq Open
           /\ pc[p] \in BeforeRow /\ to \in BeforeRow => Open' = Open
           /\ pc[p] \in BeforeRow /\ to \notin BeforeRow => Open' = Open \ {p}
<1>1. \A q \in Proc : pc'[q] = IF q = p THEN to ELSE pc[q]
  BY DEF TypeOK, Goto
<1>2. Open' = {q \in Proc : (IF q = p THEN to ELSE pc[q]) \in BeforeRow}
  BY <1>1 DEF Open, BeforeRow, MainPlace
<1>3. QED BY <1>2 DEF Open

LEMMA QuietStep ==
    ASSUME row' = row, stored' = stored, Open' \subseteq Open
    PROVE  Chunk!Next
BY DEF Chunk!Next, Chunk!GiveUp

LEMMA QuietMove ==
    ASSUME TypeOK, row' = row, stored' = stored, NEW p \in Proc, NEW to, Goto(p, to),
           pc[p] \in BeforeRow \/ to \notin BeforeRow
    PROVE  Chunk!Next
BY OpenMoves, QuietStep

LEMMA QuietRest ==
    ASSUME row' = row, stored' = stored, pc' = pc
    PROVE  Chunk!Next
<1>1. Open' = Open
  BY DEF Open, BeforeRow, MainPlace
<1>2. QED BY <1>1, QuietStep

(* The write of the row by a run: one report, or none if the UPDATE fails. *)
LEMMA ReportStep ==
    ASSUME IInv, stored' = stored, NEW p \in Proc, NEW to, Goto(p, to),
           pc[p] \in BeforeRow, pc[p] # "idle", to \notin BeforeRow,
           \/ UpdateChunkStatus("done", TRUE) /\ stored
           \/ UpdateChunkStatus("error", FALSE)
           \/ UpdateChunkStatus("cancelled", FALSE)
    PROVE  Chunk!Next
<1>1. CASE row' = row
  BY <1>1, QuietMove DEF IInv
<1>2. CASE row' # row
  <2>1. Open' = Open \ {p} /\ p \in Open
    BY OpenMoves DEF IInv, Open
  <2>2. row.status # "none"
    BY DEF IInv, RowComesFirst
  <2>3. (row.path \/ TRUE) = TRUE /\ (row.path \/ FALSE) = row.path
    BY DEF IInv, TypeOK, RowState
  <2>4. \/ stored /\ row'.status = "done" /\ row'.path = TRUE
        \/ row'.status \in {"error", "cancelled"} /\ row'.path = row.path
    <3>1. \/ stored /\ row' = [status |-> "done", path |-> row.path \/ TRUE]
          \/ row' = [status |-> "error", path |-> row.path \/ FALSE]
          \/ row' = [status |-> "cancelled", path |-> row.path \/ FALSE]
      BY <1>2 DEF UpdateChunkStatus, Records
    <3>2. CASE stored /\ row' = [status |-> "done", path |-> row.path \/ TRUE]
      <4>1. row' = [status |-> "done", path |-> TRUE]
        BY <2>3, <3>2, Zenon
      <4>2. QED BY <3>2, <4>1
    <3>3. CASE \E s \in {"error", "cancelled"} :
                  row' = [status |-> s, path |-> row.path \/ FALSE]
      <4>1. \E s \in {"error", "cancelled"} : row' = [status |-> s, path |-> row.path]
        BY <2>3, <3>3, Zenon
      <4>2. QED BY <4>1
    <3>4. QED BY <3>1, <3>2, <3>3
  <2>5. Chunk!Report(p)
    BY <2>1, <2>2, <2>4 DEF Chunk!Report
  <2>6. QED BY <2>5 DEF Chunk!Next
<1>3. QED BY <1>1, <1>2

LEMMA SubmissionRefines ==
    ASSUME IInv, NEW w \in Web, Submission(w)
    PROVE  Chunk!Next
<1> w \in Proc /\ TypeOK
  BY DEF Proc, IInv
<1>1. CASE Register(w)
  <2>1. Open' = Open
    BY <1>1, OpenMoves DEF Register, BeforeRow, MainPlace
  <2>2. ~row.path /\ row.path \in BOOLEAN
    BY <1>1 DEF Register, IInv, RowComesFirst, TypeOK, RowState
  <2>3. Chunk!Create
    BY <1>1, <2>1, <2>2 DEF Register, Chunk!Create
  <2>4. QED BY <2>3 DEF Chunk!Next
<1>2. CASE Send(w)
  <2>1. CASE UNCHANGED pc
    BY <1>2, <2>1, QuietRest DEF Send
  <2>2. CASE ~UNCHANGED pc
    BY <1>2, <2>2, QuietMove DEF Send, Queued, BeforeRow, MainPlace
  <2>3. QED BY <2>1, <2>2
<1>3. QED BY <1>1, <1>2 DEF Submission

LEMMA PreparationRefines ==
    ASSUME IInv, NEW p \in Proc, Preparation(p)
    PROVE  Chunk!Next
<1> USE QuietMove DEF BeforeRow, MainPlace, stateVars
<1> TypeOK
  BY DEF IInv
<1>1. CASE GetOrCreateHit(p)
  BY <1>1 DEF GetOrCreateHit
<1>2. CASE GetOrCreateRead(p)
  BY <1>2 DEF GetOrCreateRead
<1>3. CASE GetOrCreatePut(p)
  BY <1>3 DEF GetOrCreatePut
<1>4. CASE SetOwner(p)
  BY <1>4 DEF SetOwner
<1>5. CASE SetOwnerMarshal(p)
  BY <1>5 DEF SetOwnerMarshal
<1>6. CASE SetOwnerPut(p)
  BY <1>6 DEF SetOwnerPut
<1>7. QED BY <1>1, <1>2, <1>3, <1>4, <1>5, <1>6 DEF Preparation

LEMMA RunningRefines ==
    ASSUME IInv, NEW p \in Proc, Running(p)
    PROVE  Chunk!Next
<1> USE DEF BeforeRow, MainPlace, stateVars
<1> TypeOK
  BY DEF IInv
<1>1. CASE \/ WatchLocal(p) \/ WatchSubscribe(p) \/ WatchReread(p)
           \/ CallEngine(p) \/ EngineReturns(p) \/ CheckCancel(p)
  BY <1>1, QuietMove DEF WatchLocal, WatchSubscribe, WatchReread, CallEngine,
     EngineReturns, CheckCancel
<1>2. CASE Failed(p)
  BY <1>2, QuietMove DEF Failed
<1>3. CASE StorePut(p)
  <2>1. CASE stored' = stored
    BY <1>3, <2>1, QuietMove DEF StorePut
  <2>2. CASE stored' = TRUE /\ Goto(p, "rowdone")
    <3>1. Open' = Open
      BY <1>3, <2>2, OpenMoves DEF StorePut
    <3>2. Chunk!Persist
      BY <1>3, <2>2, <3>1 DEF StorePut, Chunk!Persist
    <3>3. QED BY <3>2 DEF Chunk!Next
  <2>3. QED BY <1>3, <2>1, <2>2 DEF StorePut
<1>4. CASE RowDone(p)
  <2>1. stored
    BY <1>4 DEF RowDone, IInv, Backed, NothingDone
  <2>2. QED BY <1>4, <2>1, ReportStep DEF RowDone
<1>5. CASE RowFail(p)
  BY <1>5, ReportStep DEF RowFail
<1>6. CASE RowError(p)
  BY <1>6, ReportStep DEF RowError
<1>7. CASE RowCancel(p)
  BY <1>7, ReportStep DEF RowCancel
<1>8. CASE NotifyLocal(p)
  BY <1>8, QuietMove DEF NotifyLocal, AfterSay
<1>9. CASE NotifyMarshal(p)
  BY <1>9, QuietMove DEF NotifyMarshal
<1>10. CASE NotifySet(p)
  BY <1>10, QuietMove DEF NotifySet
<1>11. QED
  BY <1>1, <1>2, <1>3, <1>4, <1>5, <1>6, <1>7, <1>8, <1>9, <1>10 DEF Running

(* The cancel and the reconciler touch a pending row only. *)
LEMMA WithdrawStep ==
    ASSUME IInv, stored' = stored, pc' = pc, Unfinished(row.status),
           NEW s \in {"cancelled", "error"}, row' = [row EXCEPT !.status = s]
    PROVE  Chunk!Next
<1>1. row.status = "pending" /\ row'.status = s /\ row'.path = row.path
  BY DEF IInv, TypeOK, RowState, Unfinished, Terminal
<1>2. Open' = Open
  BY DEF Open, BeforeRow, MainPlace
<1>3. Chunk!Withdraw
  BY <1>1, <1>2 DEF Chunk!Withdraw
<1>4. QED BY <1>3 DEF Chunk!Next

LEMMA CancellingRefines ==
    ASSUME IInv, NEW w \in Web, Cancelling(w)
    PROVE  Chunk!Next
<1> USE DEF stateVars, mainVars
<1>1. CASE CancelRow(w)
  <2>1. CASE row' = row
    BY <1>1, <2>1, QuietRest DEF CancelRow
  <2>2. CASE row' # row
    <3>1. Unfinished(row.status) /\ row' = [row EXCEPT !.status = "cancelled"]
      BY <1>1, <2>2 DEF CancelRow, Records
    <3>2. QED BY <1>1, <3>1, WithdrawStep DEF CancelRow
  <2>3. QED BY <2>1, <2>2
<1>2. CASE \/ CancelArrives(w) \/ CancelPrecheck(w) \/ CancelGet(w) \/ CancelFlag(w)
           \/ CancelSay(w) \/ CancelMarshal(w) \/ CancelSet(w) \/ CancelPublish(w)
  BY <1>2, QuietRest DEF CancelArrives, CancelPrecheck, CancelGet, CancelFlag,
     CancelSay, CancelMarshal, CancelSet, CancelPublish
<1>3. QED BY <1>1, <1>2 DEF Cancelling

LEMMA ElsewhereRefines ==
    ASSUME IInv,
           \/ \E w \in Web : Polling(w)
           \/ \E k \in Worker : Deliver(k)
           \/ \E p \in Proc : Listening(p) \/ Crash(p)
           \/ Reconcile \/ LoseKey \/ LoseMessage
    PROVE  Chunk!Next
<1> USE DEF stateVars, mainVars
<1> TypeOK
  BY DEF IInv
<1>1. ASSUME NEW w \in Web, Polling(w) PROVE Chunk!Next
  BY <1>1, QuietRest DEF Polling, PollReads, PollApplies
<1>2. ASSUME NEW k \in Worker, Deliver(k) PROVE Chunk!Next
  BY <1>2, QuietMove DEF Deliver, Fewer, BeforeRow, MainPlace, Proc
<1>3. ASSUME NEW p \in Proc, Listening(p) PROVE Chunk!Next
  BY <1>3, QuietRest DEF Listening, Hear, WatchJoins
<1>4. ASSUME NEW p \in Proc, Crash(p) PROVE Chunk!Next
  BY <1>4, QuietMove DEF Crash, BeforeRow, MainPlace
<1>5. CASE Reconcile
  BY <1>5, WithdrawStep DEF Reconcile
<1>6. CASE LoseKey \/ LoseMessage
  BY <1>6, QuietRest DEF LoseKey, LoseMessage, Fewer
<1>7. QED BY <1>1, <1>2, <1>3, <1>4, <1>5, <1>6

LEMMA ChunkInit == Init => Chunk!Init
BY DEF Init, Chunk!Init, Open, BeforeRow, MainPlace

LEMMA ChunkStep == IInv /\ [Next]_vars => [Chunk!Next]_(Chunk!vars)
<1> SUFFICES ASSUME IInv, [Next]_vars PROVE [Chunk!Next]_(Chunk!vars)
  OBVIOUS
<1>1. CASE UNCHANGED vars
  BY <1>1, QuietRest DEF vars
<1>2. CASE \E w \in Web : Submission(w)
  BY <1>2, SubmissionRefines
<1>3. CASE \E p \in Proc : Preparation(p) \/ Running(p)
  BY <1>3, PreparationRefines, RunningRefines
<1>4. CASE \E w \in Cancellers : Cancelling(w)
  BY <1>4, CancellingRefines, ProcessAssumption
<1>5. CASE \/ \E w \in Pollers : Polling(w)
           \/ \E k \in Worker : Deliver(k)
           \/ \E p \in Proc : Listening(p) \/ Crash(p)
           \/ Reconcile \/ LoseKey \/ LoseMessage
  BY <1>5, ElsewhereRefines, ProcessAssumption
<1>6. QED
  BY <1>1, <1>2, <1>3, <1>4, <1>5 DEF Next
-----------------------------------------------------------------------------
(* The induction. *)

(* A row that says done got its path in the same report. *)
LEMMA PathStep == IInv /\ [Next]_vars => DoneRowHasPath'
<1> SUFFICES ASSUME IInv, [Next]_vars PROVE DoneRowHasPath'
  OBVIOUS
<1>1. [Chunk!Next]_(Chunk!vars)
  BY ChunkStep
<1>2. CASE Chunk!Next
  BY <1>2 DEF IInv, DoneRowHasPath, Chunk!Next, Chunk!Create, Chunk!Withdraw,
     Chunk!Persist, Chunk!Report, Chunk!GiveUp
<1>3. CASE UNCHANGED Chunk!vars
  BY <1>3 DEF IInv, DoneRowHasPath, Chunk!vars
<1>4. QED BY <1>1, <1>2, <1>3

(* Without its row a task has no message, and no process has begun on it.  *)
LEMMA RowFirstStep == IInv /\ [Next]_vars => RowComesFirst'
<1> SUFFICES ASSUME IInv, [Next]_vars, row'.status = "none" PROVE RowComesFirst'
  BY DEF RowComesFirst
<1> USE DEF stateVars, mainVars
<1>1. [Chunk!Next]_(Chunk!vars)
  BY ChunkStep
<1>2. row.status = "none" /\ row'.path = row.path
  BY <1>1 DEF Chunk!vars, Chunk!Next, Chunk!Create, Chunk!Withdraw,
     Chunk!Persist, Chunk!Report, Chunk!GiveUp, Chunk!Terminal
<1>3. ~row.path /\ msg = "none" /\ \A p \in Proc : pc[p] = "idle"
  BY <1>2 DEF IInv, RowComesFirst
<1>4. pc \in [Proc -> MainPlace]
  BY DEF IInv, TypeOK
<1>5. msg' = "none" /\ \A p \in Proc : pc'[p] = "idle"
  <2>1. CASE UNCHANGED vars
    BY <1>3, <2>1 DEF vars
  <2>2. ASSUME NEW w \in Web, Submission(w) PROVE FALSE
    BY <1>3, <2>2 DEF Submission, Register, Send, Queued, Proc
  <2>3. ASSUME NEW p \in Proc, Preparation(p) \/ Running(p) PROVE FALSE
    BY <1>3, <2>3 DEF Preparation, GetOrCreateHit, GetOrCreateRead, GetOrCreatePut,
       SetOwner, SetOwnerMarshal, SetOwnerPut, Running, WatchLocal, WatchSubscribe,
       WatchReread, CallEngine, EngineReturns, Failed, CheckCancel, StorePut,
       RowDone, RowFail, RowError, RowCancel, NotifyLocal, NotifyMarshal, NotifySet
  <2>4. ASSUME NEW w \in Web, Cancelling(w) \/ Polling(w)
        PROVE  UNCHANGED <<msg, pc>>
    BY <2>4 DEF Polling, PollReads, PollApplies, Cancelling, CancelArrives,
       CancelPrecheck, CancelGet, CancelFlag, CancelSay, CancelMarshal, CancelSet,
       CancelPublish, CancelRow
  <2>5. ASSUME NEW k \in Worker, Deliver(k) PROVE FALSE
    BY <1>3, <2>5 DEF Deliver, Fewer
  <2>6. ASSUME NEW p \in Proc, Listening(p) \/ Crash(p)
        PROVE  msg' = "none" /\ \A q \in Proc : pc'[q] = "idle"
    BY <1>3, <1>4, <2>6 DEF Listening, Hear, WatchJoins, Crash, Goto
  <2>7. CASE Reconcile \/ LoseKey \/ LoseMessage
    BY <1>3, <2>7 DEF Reconcile, LoseKey, LoseMessage, Fewer
  <2>8. QED
    BY <1>3, <2>1, <2>2, <2>3, <2>4, <2>5, <2>6, <2>7, ProcessAssumption DEF Next
<1>6. QED BY <1>2, <1>3, <1>5 DEF RowComesFirst

LEMMA Inductive == Spec => []IInv
<1>1. Init => IInv
  BY TypeInit, NothingDoneInit
  DEF IInv, Backed, DoneRowHasPath, RowComesFirst, Init
<1>2. IInv /\ [Next]_vars => IInv'
  BY TypeStep, BackedStep, PathStep, RowFirstStep DEF IInv
<1>3. QED BY <1>1, <1>2, PTL DEF Spec

(* Whatever fails, crashes, is lost or is cancelled, and however many      *)
(* processes take part: no row, no Redis record and no process's copy of   *)
(* the task says "done" unless the audio is in the store.                  *)
THEOREM DoneIsAlwaysDurable == Spec => []DoneIsDurable
<1>1. IInv => DoneIsDurable
  BY DEF IInv, Backed, NothingDone, DoneRowHasPath, DoneIsDurable, TypeOK
<1>2. QED BY <1>1, Inductive, PTL

(* The row keeps the promise of ChunkLifecycle: every step of every        *)
(* process creates it, withdraws it while it is pending, reports one       *)
(* outcome of one run, or leaves it alone.                                 *)
THEOREM Refinement == Spec => ImplementsChunk
BY ChunkInit, ChunkStep, Inductive, PTL DEF Spec, ImplementsChunk, Chunk!Spec

(* So once no run is ahead of its report, a finished row is final: neither *)
(* a cancel nor the reconciler changes it.                                 *)
THEOREM FinishedRowIsFinal == Spec => Chunk!SettledForGood
<1>1. [Chunk!Next]_(Chunk!vars) =>
          [(row.status \in Chunk!Terminal /\ Open = {}) => UNCHANGED row.status]_(Chunk!vars)
  BY DEF Chunk!vars, Chunk!Next, Chunk!Create, Chunk!Withdraw, Chunk!Persist,
     Chunk!Report, Chunk!GiveUp, Chunk!Terminal
<1>2. QED BY <1>1, Refinement, PTL DEF ImplementsChunk, Chunk!Spec, Chunk!SettledForGood
-----------------------------------------------------------------------------
(* Without a failure, one web process submits the task and one worker runs  *)
(* it.  Everything below is about executions in which nothing has failed.   *)

(* Where a process stands between its look at the task and its own record. *)
Preparing == {"get", "put", "own", "ownmarshal", "ownput"}

(* One submission, then one run, and no thread of a run on a web process.  *)
OneRun ==
    /\ \A w \in Web : /\ role[w] = "submit"
                      /\ pc[w] \in {"idle", "send", "sent"} \cup Preparing
                      /\ sub[w] = "none"
    /\ \A k \in Worker : role[k] = "run" /\ pc[k] \notin {"send", "sent", "dead"}
    /\ \A w, v \in Web : pc[w] # "idle" /\ pc[v] # "idle" => w = v
    /\ \A k, l \in Worker : pc[k] # "idle" /\ pc[l] # "idle" => k = l
    /\ msg # "none" => \A w \in Web : pc[w] \in {"idle", "sent"}
    /\ msg # "twice"
    /\ \A k \in Worker : pc[k] # "idle" => msg = "gone"

(* Some copy of the record has this status; some copy has the cancel flag.  *)
Spread(s) ==
    \/ key.status = s
    \/ \E p \in Proc : ram[p].status = s \/ held[p].status = s
    \/ \E w \in Web : cheld[w].status = s \/ seen[w].status = s

Flagged ==
    \/ key.cancel
    \/ \E p \in Proc : ram[p].cancel \/ held[p].cancel
    \/ \E w \in Web : cheld[w].cancel \/ seen[w].cancel

(* A cancel has set its flag; a cancel has written its record. *)
CancelBegun ==
    published \/ \E w \in Web : cpc[w] \in {"say", "marshal", "set", "publish"}
CancelStored == published \/ \E w \in Web : cpc[w] = "publish"

(* Until the submission has put the record there is nothing to look up.     *)
Early ==
    (\A w \in Web : pc[w] \in {"idle", "get", "put"}) =>
        /\ key = NoState /\ msg = "none" /\ ~CancelBegun
        /\ \A w \in Web : /\ ram[w] = NoState /\ held[w] = NoState
                          /\ cheld[w] = NoState /\ seen[w] = NoState

(* A run starts without a copy of its own, and listens before it calls. *)
FreshRun ==
    \A k \in Worker :
        /\ pc[k] \in {"idle", "get", "put"} => ram[k] = NoState
        /\ pc[k] \in {"idle", "watch"} \cup Preparing => sub[k] = "none"
        /\ pc[k] = "reread" => sub[k] # "none"
        /\ pc[k] \in {"call", "engine"} => ctx[k] = "cut" \/ sub[k] # "none"

(* What the run announces is what it has written. *)
Outcome ==
    \A k \in Worker :
        /\ pc[k] = "saydone" => row.status = "done"
        /\ pc[k] = "sayfail" => row.status = "error"
        /\ pc[k] = "mardone" => ram[k].status = row.status /\ row.status \in {"done", "error"}
        /\ pc[k] = "setdone" => held[k].status = row.status /\ row.status \in {"done", "error"}
        /\ pc[k] = "marerr" => ram[k].status = "error"
        /\ pc[k] = "seterr" => held[k].status = "error"

Said == {"mardone", "setdone", "marerr", "seterr", "rowerr", "end"}

(* Nobody says done before the row does, nor done or error before the run.  *)
Heard ==
    /\ Spread("done") => row.status = "done"
    /\ row.status = "done" =>
          \A k \in Worker : pc[k] \in {"idle", "saydone", "mardone", "setdone", "end"}
    /\ row.status = "done" => msg = "gone"
    /\ (\A k \in Worker : pc[k] \notin Said) => ~Spread("done") /\ ~Spread("error")

(* Every trace of a cancel comes from a request. *)
Begun ==
    /\ Spread("cancelled") \/ Flagged => CancelBegun
    /\ \A p \in Proc : sub[p] = "msg" \/ pc[p] = "rowcancel" => CancelBegun
    /\ CancelBegun => \E w \in Web : cpc[w] # "idle"

(* With no cancel, what a run leaves at the key is what its row says. *)
Ended ==
    ~CancelBegun =>
        \A k \in Worker :
            /\ pc[k] = "rowerr" => key.status = "error"
            /\ pc[k] = "end" => key.status = row.status /\ row.status \in Terminal

(* A stored cancel makes the record final, and whoever will still write it *)
(* read it after that.                                                      *)
Lasting ==
    CancelStored /\ ~gap =>
        /\ key.status \in Terminal
        /\ \A w \in Web : ~Writing(w)
        /\ \A k \in Worker :
              /\ pc[k] = "put" => held[k].status \in Terminal
              /\ pc[k] \in {"own", "ownmarshal"} /\ Writing(k) => ram[k].status \in Terminal
              /\ pc[k] = "ownput" => held[k].status \in Terminal

(* A published cancel has cut the call, or is about to. *)
Reached ==
    published /\ ~gap /\ ~unheard =>
        \A k \in Worker : pc[k] \in {"call", "engine"} => ctx[k] = "cut" \/ sub[k] = "msg"

(* All of it together, which is inductive as long as nothing fails. *)
Calm == OneRun /\ Early /\ FreshRun /\ Outcome /\ Heard /\ Begun /\ Ended /\ Lasting /\ Reached

(* What the small operators do to the fields of a record. *)
LEMMA ApplyFields ==
    ASSUME NEW item \in TaskState, NEW remote \in TaskState
    PROVE  /\ Apply(item, remote).status =
                  IF remote.status = "none" THEN item.status ELSE remote.status
           /\ Apply(item, remote).cancel \in {item.cancel, remote.cancel}
           /\ item.owner => Apply(item, remote).owner
BY DEF Apply, TaskState

LEMMA CutFields ==
    ASSUME TypeOK, NEW p \in Proc, Cut(p)
    PROVE  /\ \A q \in Proc : q # p => ram'[q] = ram[q] /\ ctx'[q] = ctx[q]
           /\ ram'[p].status = ram[p].status
           /\ ram'[p].owner = ram[p].owner
           /\ ctx'[p] = "cut"
BY DEF TypeOK, Cut, TaskState

LEMMA RefreshedFields ==
    ASSUME TypeOK, NEW w \in Web, NEW value \in TaskState
    PROVE  /\ Refreshed(w, value) \in TaskState
           /\ Refreshed(w, value).status =
                  IF value.status = "none" THEN ram[w].status ELSE value.status
           /\ Refreshed(w, value).cancel \in {ram[w].cancel, value.cancel}
           /\ ram[w].owner => Refreshed(w, value).owner
<1>1. ram[w] \in TaskState
  BY DEF TypeOK, Proc
<1>2. QED BY <1>1, ApplyFields, ApplyType DEF Refreshed

LEMMA NoFaultNow ==
    ASSUME TypeOK, faults' = 0
    PROVE  ~Fault
BY ProcessAssumption DEF TypeOK, Fault

(* Who moves when nothing fails: the runs are those of the workers. *)
LEMMA CalmCases ==
    ASSUME TypeOK, OneRun, faults' = 0, [Next]_vars
    PROVE  \/ \E w \in Web : Submission(w) \/ Polling(w) \/ Cancelling(w)
           \/ \E k \in Worker : Deliver(k) \/ Running(k) \/ Listening(k)
           \/ \E p \in Proc : Preparation(p)
           \/ Reconcile
           \/ UNCHANGED vars
<1>1. ~Fault
  BY NoFaultNow
<1>2. ASSUME NEW w \in Web PROVE ~Listening(w)
  BY DEF OneRun, Listening, Hear, WatchJoins
<1>3. ASSUME NEW w \in Web PROVE ~Running(w)
  BY DEF OneRun, Preparing, Running, WatchLocal, WatchSubscribe, WatchReread,
     CallEngine, EngineReturns, Failed, CheckCancel, StorePut, RowDone, RowFail,
     RowError, RowCancel, NotifyLocal, NotifyMarshal, NotifySet
<1>4. ASSUME NEW p \in Proc PROVE ~Crash(p)
  BY <1>1 DEF Crash
<1>5. ~LoseKey /\ ~LoseMessage
  BY <1>1 DEF LoseKey, LoseMessage, Fewer
<1>6. QED
  BY <1>2, <1>3, <1>4, <1>5, ProcessAssumption DEF Next, Proc

(* What a step of one thread leaves alone. *)
LEMMA RunningFrame ==
    ASSUME TypeOK, NEW p \in Proc, Running(p)
    PROVE  /\ UNCHANGED <<msg, role, cancelVars, seen, history>>
           /\ \A q \in Proc \ {p} :
                 /\ ram'[q] = ram[q] /\ pc'[q] = pc[q] /\ held'[q] = held[q]
                 /\ ctx'[q] = ctx[q] /\ sub'[q] = sub[q]
           /\ pc'[p] \notin {"idle", "get", "put", "own", "ownmarshal", "ownput",
                             "send", "sent", "dead", "watch"}
           /\ pc[p] \notin {"idle", "end", "get", "put", "own", "ownmarshal",
                            "ownput", "send", "sent", "dead"}
<1> USE CutFields DEF TypeOK, Goto, stateVars, cancelVars, history
<1>1. CASE WatchLocal(p)
  BY <1>1 DEF WatchLocal
<1>2. CASE WatchSubscribe(p)
  BY <1>2 DEF WatchSubscribe
<1>3. CASE WatchReread(p)
  BY <1>3 DEF WatchReread
<1>4. CASE CallEngine(p) \/ EngineReturns(p) \/ Failed(p) \/ CheckCancel(p) \/ StorePut(p)
  BY <1>4 DEF CallEngine, EngineReturns, Failed, CheckCancel, StorePut
<1>5. CASE RowDone(p) \/ RowFail(p)
  BY <1>5 DEF RowDone, RowFail, UpdateChunkStatus, Records
<1>6. CASE RowError(p) \/ RowCancel(p)
  BY <1>6 DEF RowError, RowCancel, UpdateChunkStatus, Records, StopWatch
<1>7. CASE NotifyLocal(p)
  BY <1>7 DEF NotifyLocal, AfterSay
<1>8. CASE NotifyMarshal(p) \/ NotifySet(p)
  BY <1>8 DEF NotifyMarshal, NotifySet, StopWatch
<1>9. QED
  BY <1>1, <1>2, <1>3, <1>4, <1>5, <1>6, <1>7, <1>8 DEF Running

LEMMA PreparationFrame ==
    ASSUME TypeOK, NEW p \in Proc, Preparation(p)
    PROVE  /\ UNCHANGED <<row, stored, msg, role, ctx, sub, cancelVars, seen, history>>
           /\ \A q \in Proc \ {p} :
                 /\ ram'[q] = ram[q] /\ pc'[q] = pc[q] /\ held'[q] = held[q]
           /\ pc[p] \in {"get", "put", "own", "ownmarshal", "ownput"}
           /\ pc'[p] \in {"put", "own", "ownmarshal", "ownput", AfterOwner(p)}
BY DEF TypeOK, Goto, stateVars, cancelVars, history, Preparation, GetOrCreateHit,
   GetOrCreateRead, GetOrCreatePut, SetOwner, SetOwnerMarshal, SetOwnerPut

LEMMA CancellingFrame ==
    ASSUME TypeOK, NEW w \in Web, Cancelling(w)
    PROVE  /\ UNCHANGED <<stored, msg, pc, role, held, ctx, seen>>
           /\ \A q \in Proc \ {w} : ram'[q] = ram[q]
           /\ \A v \in Web \ {w} : cpc'[v] = cpc[v] /\ cheld'[v] = cheld[v]
           /\ \A q \in Proc : sub'[q] = sub[q] \/ (sub[q] = "open" /\ sub'[q] = "msg")
           /\ cpc'[w] # "idle"
           /\ gap => gap'
           /\ unheard => unheard'
           /\ published => published'
<1> USE DEF TypeOK, stateVars, mainVars, cancelVars, history
<1>1. CASE CancelArrives(w) \/ CancelPrecheck(w) \/ CancelGet(w) \/ CancelFlag(w)
  BY <1>1 DEF CancelArrives, CancelPrecheck, CancelGet, CancelFlag
<1>2. CASE CancelSay(w) \/ CancelMarshal(w) \/ CancelRow(w)
  BY <1>2 DEF CancelSay, CancelMarshal, CancelRow
<1>3. CASE CancelSet(w)
  BY <1>3 DEF CancelSet
<1>4. CASE CancelPublish(w)
  BY <1>4 DEF CancelPublish
<1>5. QED BY <1>1, <1>2, <1>3, <1>4 DEF Cancelling

LEMMA PollingFrame ==
    ASSUME TypeOK, NEW w \in Web, Polling(w)
    PROVE  /\ UNCHANGED <<row, stored, key, msg, mainVars, cancelVars, history>>
           /\ \A q \in Proc \ {w} : ram'[q] = ram[q]
           /\ \A v \in Web \ {w} : seen'[v] = seen[v]
BY DEF TypeOK, stateVars, Polling, PollReads, PollApplies

-----------------------------------------------------------------------------
LEMMA OneRunInit == Init => OneRun
BY ProcessAssumption DEF Init, OneRun, Proc, Preparing

LEMMA OneRunStep ==
    ASSUME TypeOK, RowComesFirst, OneRun, faults' = 0, [Next]_vars
    PROVE  OneRun'
<1> USE NoFaultNow, ProcessAssumption DEF OneRun, TypeOK, Preparing
<1>1. ASSUME NEW w \in Web, Register(w) PROVE OneRun'
  BY <1>1 DEF Register, RowComesFirst, Proc, Goto
<1>2. ASSUME NEW w \in Web, Send(w) PROVE OneRun'
  BY <1>2 DEF Send, Queued, Proc, Goto
<1>3. ASSUME NEW k \in Worker, Deliver(k) PROVE OneRun'
  BY <1>3 DEF Deliver, Fewer, Proc, Goto
<1>4. ASSUME NEW p \in Proc, Preparation(p) PROVE OneRun'
  BY <1>4, PreparationFrame DEF AfterOwner, Proc
<1>5. ASSUME NEW k \in Worker, Running(k) PROVE OneRun'
  BY <1>5, RunningFrame DEF Proc
<1>6. ASSUME NEW k \in Worker, Listening(k) PROVE OneRun'
  BY <1>6 DEF Listening, Hear, WatchJoins, Proc
<1>7. ASSUME NEW w \in Web, Polling(w) \/ Cancelling(w) PROVE OneRun'
  BY <1>7, PollingFrame, CancellingFrame DEF Proc, mainVars
<1>8. CASE Reconcile \/ UNCHANGED vars
  BY <1>8 DEF Reconcile, vars, mainVars
<1>9. QED
  BY <1>1, <1>2, <1>3, <1>4, <1>5, <1>6, <1>7, <1>8, CalmCases DEF Submission

(* A finished row changes by the report of a run only. *)
LEMMA FinishedRowStays ==
    ASSUME TypeOK, OneRun, faults' = 0, [Next]_vars, row.status \in Terminal,
           \A k \in Worker : pc[k] \notin {"rowdone", "rowfail", "rowerr", "rowcancel"}
    PROVE  row' = row
<1> USE DEF Terminal, stateVars
<1>1. ASSUME NEW w \in Web, Submission(w) \/ Polling(w) \/ Cancelling(w) PROVE row' = row
  BY <1>1, PollingFrame DEF Submission, Register, Send, Queued, Cancelling, CancelArrives,
     CancelPrecheck, CancelGet, CancelFlag, CancelSay, CancelMarshal, CancelSet,
     CancelPublish, CancelRow, Records, Unfinished
<1>2. ASSUME NEW k \in Worker, Deliver(k) \/ Listening(k) PROVE row' = row
  BY <1>2 DEF Deliver, Fewer, Listening, Hear, WatchJoins
<1>3. ASSUME NEW k \in Worker, Running(k) PROVE row' = row
  BY <1>3 DEF Running, WatchLocal, WatchSubscribe, WatchReread, CallEngine,
     EngineReturns, Failed, CheckCancel, StorePut, RowDone, RowFail, RowError,
     RowCancel, NotifyLocal, NotifyMarshal, NotifySet
<1>4. ASSUME NEW p \in Proc, Preparation(p) PROVE row' = row
  BY <1>4, PreparationFrame
<1>5. CASE Reconcile \/ UNCHANGED vars
  BY <1>5 DEF Reconcile, Unfinished, vars
<1>6. QED BY <1>1, <1>2, <1>3, <1>4, <1>5, CalmCases

LEMMA EarlyInit == Init => Early
BY DEF Init, Early, CancelBegun, Proc

(* While the submission has not put the record, there is none anywhere. *)
LEMMA EarlyStep ==
    ASSUME TypeOK, OneRun, Early, FreshRun, Begun, faults' = 0, [Next]_vars
    PROVE  Early'
<1> SUFFICES ASSUME \A w \in Web : pc'[w] \in {"idle", "get", "put"}
             PROVE  /\ key' = NoState /\ msg' = "none" /\ ~CancelBegun'
                    /\ \A w \in Web : /\ ram'[w] = NoState /\ held'[w] = NoState
                                      /\ cheld'[w] = NoState /\ seen'[w] = NoState
  BY DEF Early
<1> DEFINE Nothing ==
        /\ key = NoState /\ msg = "none" /\ ~CancelBegun
        /\ \A w \in Web : /\ ram[w] = NoState /\ held[w] = NoState
                          /\ cheld[w] = NoState /\ seen[w] = NoState
<1> Web \subseteq Proc /\ Worker \subseteq Proc /\ ~Fault
  BY NoFaultNow DEF Proc
<1>a. ASSUME Nothing, NEW k \in Worker PROVE pc[k] = "idle" /\ sub[k] = "none"
  BY <1>a DEF OneRun, FreshRun
<1> USE DEF TypeOK, NoFault
<1>1. ASSUME NEW w \in Web, Register(w) PROVE Nothing'
  <2>1. \A v \in Web : pc[v] \in {"idle", "get", "put"}
    BY <1>1 DEF Register, Goto
  <2>2. QED BY <1>1, <2>1 DEF Early, Register, CancelBegun, cancelVars, history
<1>2. ASSUME NEW w \in Web, Send(w) PROVE FALSE
  BY <1>2 DEF Send, Queued, Goto
<1>3. ASSUME NEW k \in Worker, Deliver(k) PROVE Nothing'
  <2>1. pc' = [pc EXCEPT ![k] = "get"] /\ msg = "queued"
    BY <1>3 DEF Deliver, Goto, OneRun
  <2>2. \A v \in Web : pc[v] \in {"idle", "get", "put"}
    BY <2>1, ProcessAssumption
  <2>3. QED BY <2>1, <2>2 DEF Early
<1>4. ASSUME NEW w \in Web, Preparation(w) PROVE Nothing'
  <2>1. \A v \in Web : pc[v] \in {"idle", "get", "put"}
    BY <1>4, PreparationFrame DEF AfterOwner, Preparation, GetOrCreateHit, GetOrCreateRead,
       GetOrCreatePut, SetOwner, SetOwnerMarshal, SetOwnerPut, Goto, OneRun
  <2>2. Nothing
    BY <2>1 DEF Early
  <2>3. pc'[w] = "put"
    BY <1>4, PreparationFrame DEF OneRun, AfterOwner
  <2>4. GetOrCreateRead(w)
    BY <1>4, <2>3 DEF Preparation, GetOrCreateHit, GetOrCreatePut, SetOwner,
       SetOwnerMarshal, SetOwnerPut, AfterOwner, Goto
  <2>5. QED
    BY <2>2, <2>4 DEF GetOrCreateRead, Reads, CancelBegun, stateVars, cancelVars, history
<1>5. ASSUME NEW k \in Worker, Preparation(k) \/ Running(k) \/ Listening(k) PROVE FALSE
  <2>1. \A v \in Web : pc'[v] = pc[v]
    BY <1>5, PreparationFrame, RunningFrame, ProcessAssumption DEF Listening, Hear, WatchJoins
  <2>2. Nothing
    BY <2>1 DEF Early
  <2>3. QED BY <1>5, <2>2, <1>a, PreparationFrame, RunningFrame DEF Listening, Hear, WatchJoins
<1>6. ASSUME NEW w \in Web, Cancelling(w) PROVE Nothing'
  <2>1. Nothing
    BY <1>6, CancellingFrame DEF Early
  <2>2. Refreshed(w, cheld[w]) = NoState
    BY <2>1 DEF Refreshed, Apply, NoState
  <2>3. \/ CancelArrives(w) \/ CancelPrecheck(w) \/ CancelGet(w) \/ CancelRow(w)
        \/ CancelFlag(w) /\ cpc' = [cpc EXCEPT ![w] = "row"] /\ ram' = ram
    BY <1>6, <2>1, <2>2 DEF Cancelling, CancelFlag, CancelSay, CancelMarshal, CancelSet,
       CancelPublish, CancelBegun, NoState
  <2>4. CASE CancelArrives(w)
    BY <2>1, <2>4 DEF CancelArrives, GetReads, Reads, CancelBegun, stateVars, mainVars, history
  <2>5. CASE CancelPrecheck(w)
    BY <2>1, <2>2, <2>5 DEF CancelPrecheck, CancelBegun, mainVars, history
  <2>6. CASE CancelGet(w)
    BY <2>1, <2>6 DEF CancelGet, GetReads, Reads, CancelBegun, stateVars, mainVars, history
  <2>7. CASE CancelRow(w)
    BY <2>1, <2>7 DEF CancelRow, CancelBegun, mainVars, history
  <2>8. CASE CancelFlag(w) /\ cpc' = [cpc EXCEPT ![w] = "row"] /\ ram' = ram
    BY <2>1, <2>8 DEF CancelFlag, CancelBegun, mainVars, history
  <2>9. QED BY <2>3, <2>4, <2>5, <2>6, <2>7, <2>8
<1>7. ASSUME NEW w \in Web, Polling(w) PROVE FALSE
  <2>1. Nothing
    BY <1>7, PollingFrame DEF Early, mainVars
  <2>2. QED BY <1>7, <2>1 DEF Polling, PollReads, PollApplies
<1>8. CASE Reconcile \/ UNCHANGED vars
  <2>1. Nothing
    BY <1>8 DEF Early, Reconcile, vars, mainVars
  <2>2. QED
    BY <1>8, <2>1 DEF Reconcile, vars, mainVars, cancelVars, history, CancelBegun
<1>9. QED
  BY <1>1, <1>2, <1>3, <1>4, <1>5, <1>6, <1>7, <1>8, CalmCases DEF Submission, Proc

LEMMA FreshRunInit == Init => FreshRun
BY DEF Init, FreshRun, Proc, Preparing

(* A run starts without a copy, and subscribes before it calls the engine. *)
LEMMA FreshRunStep ==
    ASSUME TypeOK, OneRun, FreshRun, faults' = 0, [Next]_vars
    PROVE  FreshRun'
<1> Worker \subseteq Proc /\ ~Fault
  BY NoFaultNow DEF Proc
<1> USE ProcessAssumption DEF FreshRun, Preparing, TypeOK, Goto
<1>1. ASSUME NEW w \in Web, Submission(w) PROVE FreshRun'
  BY <1>1 DEF Submission, Register, Send, Queued, Proc
<1>2. ASSUME NEW w \in Web, Polling(w) \/ Cancelling(w) PROVE FreshRun'
  BY <1>2, PollingFrame, CancellingFrame DEF mainVars
<1>3. ASSUME NEW k \in Worker, Deliver(k) PROVE FreshRun'
  BY <1>3 DEF Deliver, Fewer
<1>4. ASSUME NEW p \in Proc, Preparation(p) PROVE FreshRun'
  <2>1. pc'[p] = "put" => pc[p] = "get" /\ ram' = ram
    BY <1>4 DEF Preparation, GetOrCreateHit, GetOrCreateRead, GetOrCreatePut, SetOwner,
       SetOwnerMarshal, SetOwnerPut, AfterOwner, stateVars
  <2>2. QED BY <1>4, <2>1, PreparationFrame DEF AfterOwner
<1>5. ASSUME NEW k \in Worker, Listening(k) PROVE FreshRun'
  BY <1>5, CutFields DEF Listening, Hear, WatchJoins
<1>6. ASSUME NEW k \in Worker, Running(k) PROVE FreshRun'
  <2>1. /\ pc'[k] = "reread" => sub'[k] # "none"
        /\ pc'[k] \in {"call", "engine"} => ctx'[k] = "cut" \/ sub'[k] # "none"
    <3>1. CASE WatchLocal(k) \/ WatchSubscribe(k) \/ WatchReread(k) \/ CallEngine(k)
      BY <1>6, <3>1, CutFields DEF WatchLocal, WatchSubscribe, WatchReread, CallEngine
    <3>2. CASE EngineReturns(k) \/ Failed(k) \/ CheckCancel(k) \/ StorePut(k)
      BY <3>2 DEF EngineReturns, Failed, CheckCancel, StorePut
    <3>3. CASE RowDone(k) \/ RowFail(k) \/ RowError(k) \/ RowCancel(k)
      BY <3>3 DEF RowDone, RowFail, RowError, RowCancel, UpdateChunkStatus, Records
    <3>4. CASE NotifyLocal(k) \/ NotifyMarshal(k) \/ NotifySet(k)
      BY <3>4 DEF NotifyLocal, NotifyMarshal, NotifySet, AfterSay
    <3>5. QED BY <1>6, <3>1, <3>2, <3>3, <3>4 DEF Running
  <2>2. QED BY <1>6, <2>1, RunningFrame
<1>7. CASE Reconcile \/ UNCHANGED vars
  BY <1>7 DEF Reconcile, vars, mainVars
<1>8. QED
  BY <1>1, <1>2, <1>3, <1>4, <1>5, <1>6, <1>7, CalmCases

(* A worker that is not idle is the only process at work on the task, but  *)
(* for the requests and the reconciler.                                    *)
LEMMA RunIsAlone ==
    ASSUME TypeOK, RowComesFirst, OneRun, FreshRun, faults' = 0, [Next]_vars,
           NEW k \in Worker, pc[k] # "idle"
    PROVE  \/ Preparation(k) \/ Running(k) \/ Listening(k)
           \/ \E w \in Web : Polling(w) \/ Cancelling(w)
           \/ Reconcile
           \/ UNCHANGED vars
<1> Web \subseteq Proc /\ Worker \subseteq Proc
  BY DEF Proc
<1>1. ASSUME NEW w \in Web PROVE ~Submission(w) /\ ~Preparation(w)
  BY PreparationFrame DEF OneRun, RowComesFirst, Submission, Register, Send, Queued
<1>2. ASSUME NEW l \in Worker, l # k
      PROVE  ~Preparation(l) /\ ~Running(l) /\ ~Listening(l) /\ ~Deliver(l)
  BY <1>2, PreparationFrame, RunningFrame DEF OneRun, FreshRun, Listening, Hear, WatchJoins, Deliver, Fewer
<1>3. ~Deliver(k)
  BY DEF Deliver, Fewer
<1>4. QED BY <1>1, <1>2, <1>3, CalmCases DEF Proc

LEMMA IdleStays ==
    ASSUME TypeOK, OneRun, faults' = 0, [Next]_vars, NEW k \in Worker, pc[k] = "idle"
    PROVE  pc'[k] = "idle" \/ (Deliver(k) /\ pc'[k] = "get")
<1> k \in Proc /\ k \notin Web
  BY ProcessAssumption DEF Proc
<1>1. ASSUME NEW w \in Web, Submission(w) PROVE pc'[k] = "idle"
  BY <1>1 DEF Submission, Register, Send, Queued, Goto, TypeOK
<1>2. ASSUME NEW l \in Worker, Deliver(l) PROVE pc'[k] = "idle" \/ (Deliver(k) /\ pc'[k] = "get")
  BY <1>2 DEF Deliver, Fewer, Goto, TypeOK
<1>3. ASSUME NEW p \in Proc, Preparation(p) \/ Running(p) PROVE pc'[k] = "idle"
  BY <1>3, PreparationFrame, RunningFrame
<1>4. ASSUME NEW w \in Web, Polling(w) \/ Cancelling(w) PROVE pc'[k] = "idle"
  BY <1>4, PollingFrame, CancellingFrame DEF mainVars
<1>5. ASSUME NEW l \in Worker, Listening(l) PROVE pc'[k] = "idle"
  BY <1>5 DEF Listening, Hear, WatchJoins
<1>6. CASE Reconcile \/ UNCHANGED vars
  BY <1>6 DEF Reconcile, vars, mainVars
<1>7. QED BY <1>1, <1>2, <1>3, <1>4, <1>5, <1>6, CalmCases DEF Proc

LEMMA OutcomeInit == Init => Outcome
BY DEF Init, Outcome, Proc

(* A run announces the status that it has written to the row. *)
LEMMA OutcomeStep ==
    ASSUME TypeOK, RowComesFirst, OneRun, FreshRun, Outcome, faults' = 0, [Next]_vars
    PROVE  Outcome'
<1> SUFFICES ASSUME NEW k \in Worker,
                    pc'[k] \in {"saydone", "sayfail", "mardone", "setdone", "marerr", "seterr"}
             PROVE  /\ pc'[k] = "saydone" => row'.status = "done"
                    /\ pc'[k] = "sayfail" => row'.status = "error"
                    /\ pc'[k] = "mardone" =>
                          ram'[k].status = row'.status /\ row'.status \in {"done", "error"}
                    /\ pc'[k] = "setdone" =>
                          held'[k].status = row'.status /\ row'.status \in {"done", "error"}
                    /\ pc'[k] = "marerr" => ram'[k].status = "error"
                    /\ pc'[k] = "seterr" => held'[k].status = "error"
  BY DEF Outcome
<1> k \in Proc /\ ~Fault /\ k \notin Web
  BY NoFaultNow, ProcessAssumption DEF Proc
<1>1. pc[k] # "idle"
  BY IdleStays
<1>2. \A l \in Worker : l # k => pc[l] = "idle"
  BY <1>1 DEF OneRun
<1>3. CASE pc'[k] = pc[k] /\ held'[k] = held[k] /\ ram'[k].status = ram[k].status
  <2>1. pc[k] \in {"saydone", "sayfail", "mardone", "setdone"} => row' = row
    BY <1>2, FinishedRowStays DEF Outcome, Terminal
  <2>2. QED BY <1>3, <2>1 DEF Outcome
<1>4. CASE Preparation(k)
  BY <1>4, PreparationFrame DEF AfterOwner
<1>5. CASE Listening(k)
  BY <1>3, <1>5, CutFields DEF Listening, Hear, WatchJoins
<1>6. ASSUME NEW w \in Web, Polling(w) \/ Cancelling(w)
      PROVE  pc'[k] = pc[k] /\ held'[k] = held[k] /\ ram'[k].status = ram[k].status
  BY <1>6, PollingFrame, CancellingFrame DEF mainVars
<1>7. CASE Reconcile \/ UNCHANGED vars
  BY <1>3, <1>7 DEF Reconcile, vars, mainVars
<1>8. CASE Running(k)
  <2> USE DEF TypeOK, Goto
  <2>1. CASE \/ WatchLocal(k) \/ WatchSubscribe(k) \/ WatchReread(k) \/ CallEngine(k)
             \/ EngineReturns(k) \/ Failed(k) \/ CheckCancel(k) \/ StorePut(k)
    BY <2>1 DEF WatchLocal, WatchSubscribe, WatchReread, CallEngine, EngineReturns,
       Failed, CheckCancel, StorePut
  <2>2. CASE RowDone(k) \/ RowFail(k)
    BY <2>2 DEF RowDone, RowFail, UpdateChunkStatus, Records
  <2>3. CASE RowError(k) \/ RowCancel(k)
    BY <2>3 DEF RowError, RowCancel
  <2>4. CASE NotifyLocal(k)
    BY <2>4 DEF NotifyLocal, Outcome, SayFrom, AfterSay, TaskState
  <2>5. CASE NotifyMarshal(k)
    BY <2>5 DEF NotifyMarshal, Outcome, stateVars
  <2>6. CASE NotifySet(k)
    BY <2>6 DEF NotifySet
  <2>7. QED BY <1>8, <2>1, <2>2, <2>3, <2>4, <2>5, <2>6 DEF Running
<1>9. QED
  BY <1>1, <1>3, <1>4, <1>5, <1>6, <1>7, <1>8, RunIsAlone

(* A status spreads from copy to copy; it enters where a run or a cancel   *)
(* announces it.                                                           *)
LEMMA SpreadStep ==
    ASSUME TypeOK, OneRun, faults' = 0, [Next]_vars, NEW s \in Terminal, ~Spread(s),
           \A k \in Worker : NotifyLocal(k) => SayFrom[pc[k]] # s,
           \A w \in Web : CancelSay(w) => s # "cancelled"
    PROVE  ~Spread(s)'
<1> /\ Web \subseteq Proc /\ Worker \subseteq Proc
    /\ NoState.status # s /\ Fresh.status # s
  BY DEF Proc, NoState, Fresh, Terminal
<1> USE DEF Spread, TypeOK
<1>1. ASSUME NEW w \in Web, Submission(w) PROVE ~Spread(s)'
  BY <1>1 DEF Submission, Register, Send, Queued, cancelVars
<1>2. ASSUME NEW k \in Worker, Deliver(k) \/ Listening(k) PROVE ~Spread(s)'
  BY <1>2, CutFields DEF Deliver, Fewer, Listening, Hear, WatchJoins, cancelVars
<1>3. ASSUME NEW p \in Proc, Preparation(p) PROVE ~Spread(s)'
  <2> USE DEF stateVars, cancelVars
  <2>1. CASE GetOrCreateHit(p) \/ GetOrCreateRead(p)
    BY <2>1 DEF GetOrCreateHit, GetOrCreateRead, Reads
  <2>2. CASE GetOrCreatePut(p)
    <3>1. held[p] \in TaskState /\ held[p].status # s
      OBVIOUS
    <3>2. Apply(Fresh, held[p]).status # s
      BY <3>1 DEF Apply, TaskState
    <3>3. QED BY <2>2, <3>2 DEF GetOrCreatePut, Writes
  <2>3. CASE SetOwner(p)
    <3>1. \A q \in Proc : ram'[q].status = ram[q].status
      BY <2>3 DEF SetOwner, TaskState
    <3>2. QED BY <2>3, <3>1 DEF SetOwner
  <2>4. CASE SetOwnerMarshal(p) \/ SetOwnerPut(p)
    BY <2>4 DEF SetOwnerMarshal, SetOwnerPut, Writes
  <2>5. QED BY <1>3, <2>1, <2>2, <2>3, <2>4 DEF Preparation
<1>4. ASSUME NEW k \in Worker, Running(k) PROVE ~Spread(s)'
  <2> USE DEF stateVars, cancelVars
  <2>1. CASE WatchLocal(k) \/ WatchReread(k)
    <3>1. \A q \in Proc : ram'[q].status = ram[q].status
      BY <2>1, CutFields DEF WatchLocal, WatchReread
    <3>2. QED BY <2>1, <3>1 DEF WatchLocal, WatchReread
  <2>2. CASE \/ WatchSubscribe(k) \/ CallEngine(k) \/ EngineReturns(k) \/ Failed(k)
             \/ CheckCancel(k) \/ StorePut(k)
    BY <2>2 DEF WatchSubscribe, CallEngine, EngineReturns, Failed, CheckCancel, StorePut
  <2>3. CASE RowDone(k) \/ RowFail(k) \/ RowError(k) \/ RowCancel(k)
    BY <2>3 DEF RowDone, RowFail, RowError, RowCancel, UpdateChunkStatus, Records
  <2>4. CASE NotifyLocal(k)
    <3>1. \A q \in Proc : ram'[q].status \in {ram[q].status, SayFrom[pc[k]]}
      BY <2>4 DEF NotifyLocal, TaskState
    <3>2. QED BY <2>4, <3>1 DEF NotifyLocal
  <2>5. CASE NotifyMarshal(k) \/ NotifySet(k)
    BY <2>5 DEF NotifyMarshal, NotifySet, Writes
  <2>6. QED BY <1>4, <2>1, <2>2, <2>3, <2>4, <2>5 DEF Running
<1>5. ASSUME NEW w \in Web, Cancelling(w) PROVE ~Spread(s)'
  <2> USE DEF stateVars, mainVars
  <2>1. CASE CancelArrives(w) \/ CancelGet(w)
    <3>1. \E value \in {key, NoState} : cheld' = [cheld EXCEPT ![w] = value]
      BY <2>1, GetReadsType DEF CancelArrives, CancelGet
    <3>2. \A v \in Web : cheld'[v].status # s
      BY <3>1
    <3>3. QED BY <2>1, <3>2 DEF CancelArrives, CancelGet
  <2>2. CASE CancelPrecheck(w) \/ CancelFlag(w)
    <3> DEFINE item == Refreshed(w, cheld[w])
    <3>1. item \in TaskState /\ item.status # s
      BY RefreshedFields
    <3>2. [item EXCEPT !.cancel = TRUE].status # s
      BY <3>1 DEF TaskState
    <3>3. \/ ram' = ram \/ ram' = [ram EXCEPT ![w] = item]
          \/ ram' = [ram EXCEPT ![w] = [item EXCEPT !.cancel = TRUE]]
      BY <2>2 DEF CancelPrecheck, CancelFlag
    <3>4. \A q \in Proc : ram'[q].status # s
      BY <3>1, <3>2, <3>3
    <3>5. QED BY <2>2, <3>4 DEF CancelPrecheck, CancelFlag
  <2>3. CASE CancelSay(w)
    <3>1. \A q \in Proc : ram'[q].status \in {ram[q].status, "cancelled"}
      BY <2>3 DEF CancelSay, TaskState
    <3>2. QED BY <2>3, <3>1 DEF CancelSay
  <2>4. CASE CancelMarshal(w) \/ CancelSet(w) \/ CancelPublish(w) \/ CancelRow(w)
    BY <2>4 DEF CancelMarshal, CancelSet, CancelPublish, CancelRow
  <2>5. QED BY <1>5, <2>1, <2>2, <2>3, <2>4 DEF Cancelling
<1>6. ASSUME NEW w \in Web, Polling(w) PROVE ~Spread(s)'
  <2>1. Refreshed(w, seen[w]).status # s
    BY RefreshedFields
  <2>2. QED
    BY <1>6, <2>1 DEF Polling, PollReads, PollApplies, stateVars, mainVars, cancelVars
<1>7. CASE Reconcile \/ UNCHANGED vars
  BY <1>7 DEF Reconcile, vars, mainVars, cancelVars
<1>8. QED BY <1>1, <1>2, <1>3, <1>4, <1>5, <1>6, <1>7, CalmCases

LEMMA HeardInit == Init => Heard
BY DEF Init, Heard, Spread, NoState, Said, Proc

(* What a run says, its row says; before the run no copy does. *)
LEMMA HeardStep ==
    ASSUME TypeOK, RowComesFirst, OneRun, FreshRun, Outcome, Heard,
           faults' = 0, [Next]_vars
    PROVE  Heard'
<1> ~Fault /\ Worker \subseteq Proc
  BY NoFaultNow DEF Proc
<1>1. (\A k \in Worker : pc'[k] \notin Said) => (\A k \in Worker : pc[k] \notin Said)
  <2> SUFFICES ASSUME NEW k \in Worker, pc[k] \in Said PROVE pc'[k] \in Said
    OBVIOUS
  <2> USE DEF Said
  <2>1. CASE Preparation(k)
    BY <2>1, PreparationFrame
  <2>2. CASE Running(k)
    <3> USE DEF Goto, TypeOK
    <3>1. CASE RowError(k)
      BY <3>1 DEF RowError
    <3>2. CASE NotifyMarshal(k) \/ NotifySet(k)
      BY <3>2 DEF NotifyMarshal, NotifySet
    <3>3. QED
      BY <2>2, <3>1, <3>2 DEF Running, WatchLocal, WatchSubscribe, WatchReread,
         CallEngine, EngineReturns, Failed, CheckCancel, StorePut, RowDone, RowFail,
         RowCancel, NotifyLocal
  <2>3. CASE UNCHANGED pc
    BY <2>3
  <2>4. QED
    BY <2>1, <2>2, <2>3, RunIsAlone, PollingFrame, CancellingFrame
    DEF Listening, Hear, WatchJoins, Reconcile, vars, mainVars
<1>2. ASSUME NEW k \in Worker, NotifyLocal(k)
      PROVE  /\ pc'[k] \in Said
             /\ pc[k] = "saydone" => row'.status = "done"
             /\ SayFrom[pc[k]] = "done" => pc[k] = "saydone"
  BY <1>2 DEF NotifyLocal, Outcome, Said, AfterSay, SayFrom, Goto, TypeOK
<1>3. (\A k \in Worker : pc'[k] \notin Said) => ~Spread("done")' /\ ~Spread("error")'
  <2> SUFFICES ASSUME \A k \in Worker : pc'[k] \notin Said
               PROVE  ~Spread("done")' /\ ~Spread("error")'
    OBVIOUS
  <2>1. ~Spread("done") /\ ~Spread("error")
    BY <1>1 DEF Heard
  <2>2. \A k \in Worker : ~NotifyLocal(k)
    BY <1>2
  <2>3. QED BY <2>1, <2>2, SpreadStep DEF Terminal
<1>4. ASSUME row.status = "done"
      PROVE  /\ row' = row /\ msg' = msg
             /\ \A k \in Worker :
                   pc'[k] \in {"idle", "saydone", "mardone", "setdone", "end"}
  <2>1. row' = row
    BY <1>4, FinishedRowStays DEF Heard, Terminal
  <2>2. msg = "gone"
    BY <1>4 DEF Heard
  <2>3. msg' = msg
    <3>1. ASSUME NEW w \in Web PROVE ~Submission(w)
      BY <1>4, <2>2 DEF Submission, Register, Send, Queued, OneRun
    <3>2. ASSUME NEW k \in Worker PROVE ~Deliver(k)
      BY <2>2 DEF Deliver, Fewer
    <3>3. QED
      BY <3>1, <3>2, CalmCases, PreparationFrame, RunningFrame, CancellingFrame,
         PollingFrame DEF Listening, Hear, WatchJoins, Reconcile, vars
  <2>4. ASSUME NEW k \in Worker
        PROVE  pc'[k] \in {"idle", "saydone", "mardone", "setdone", "end"}
    <3>1. pc[k] \in {"idle", "saydone", "mardone", "setdone", "end"}
      BY <1>4 DEF Heard
    <3>2. CASE pc[k] = "idle"
      BY <3>2, <2>2, IdleStays DEF Deliver, Fewer
    <3>3. CASE Running(k)
      <4> USE DEF Goto, TypeOK
      <4>1. CASE NotifyLocal(k) \/ NotifyMarshal(k) \/ NotifySet(k)
        BY <3>1, <4>1 DEF NotifyLocal, NotifyMarshal, NotifySet, AfterSay
      <4>2. QED
        BY <3>1, <3>3, <4>1 DEF Running, WatchLocal, WatchSubscribe, WatchReread,
           CallEngine, EngineReturns, Failed, CheckCancel, StorePut, RowDone, RowFail,
           RowError, RowCancel
    <3>4. CASE pc[k] # "idle" /\ ~Running(k)
      <4>1. UNCHANGED pc
        BY <3>1, <3>4, RunIsAlone, PollingFrame, CancellingFrame, PreparationFrame
        DEF Listening, Hear, WatchJoins, Reconcile, vars, mainVars
      <4>2. QED BY <3>1, <4>1
    <3>5. QED BY <3>2, <3>3, <3>4
  <2>5. QED BY <2>1, <2>3, <2>4
<1>5. ASSUME row.status # "done", row'.status = "done"
      PROVE  /\ msg' = "gone"
             /\ \A k \in Worker : pc'[k] \in {"idle", "saydone"}
  <2>1. \E k \in Worker : RowDone(k)
    <3>1. ASSUME NEW w \in Web PROVE ~Submission(w) /\ ~Polling(w) /\ ~Cancelling(w)
      BY <1>5, PollingFrame DEF Submission, Register, Send, Queued, Cancelling, CancelArrives,
         CancelPrecheck, CancelGet, CancelFlag, CancelSay, CancelMarshal, CancelSet,
         CancelPublish, CancelRow, Records, stateVars, TypeOK, RowState
    <3>2. ASSUME NEW k \in Worker, Running(k) PROVE RowDone(k)
      BY <1>5, <3>2 DEF Running, WatchLocal, WatchSubscribe, WatchReread, CallEngine,
         EngineReturns, Failed, CheckCancel, StorePut, RowFail, RowError, RowCancel,
         NotifyLocal, NotifyMarshal, NotifySet, UpdateChunkStatus, Records, stateVars
    <3>3. ~Reconcile /\ ~(UNCHANGED vars)
      BY <1>5 DEF Reconcile, vars, TypeOK, RowState
    <3>4. ASSUME NEW k \in Worker PROVE ~Deliver(k) /\ ~Listening(k)
      BY <1>5 DEF Deliver, Fewer, Listening, Hear, WatchJoins
    <3>5. QED BY <1>5, <3>1, <3>2, <3>3, <3>4, CalmCases, PreparationFrame
  <2>2. PICK k \in Worker : RowDone(k)
    BY <2>1
  <2>3. pc[k] = "rowdone" /\ msg' = msg /\ pc' = [pc EXCEPT ![k] = "saydone"]
    BY <2>2 DEF RowDone, Goto
  <2>4. QED BY <2>3 DEF OneRun, TypeOK
<1>6. Spread("done")' => row'.status = "done"
  <2> SUFFICES ASSUME Spread("done")' PROVE row'.status = "done"
    OBVIOUS
  <2>1. CASE Spread("done")
    BY <2>1, <1>4 DEF Heard
  <2>2. CASE ~Spread("done")
    BY <2>2, <1>2, SpreadStep DEF Terminal
  <2>3. QED BY <2>1, <2>2
<1>7. QED BY <1>3, <1>4, <1>5, <1>6 DEF Heard

LEMMA BegunInit == Init => Begun
BY DEF Init, Begun, Spread, Flagged, CancelBegun, NoState, Proc

LEMMA CancelRests ==
    ASSUME TypeOK, OneRun, faults' = 0, [Next]_vars, \A w \in Web : ~Cancelling(w)
    PROVE  UNCHANGED <<cpc, cheld, history>>
<1>1. ASSUME NEW w \in Web, Submission(w) \/ Polling(w)
      PROVE  UNCHANGED <<cpc, cheld, history>>
  BY <1>1, PollingFrame DEF Submission, Register, Send, Queued, cancelVars, history
<1>2. ASSUME NEW k \in Worker, Deliver(k) \/ Running(k) \/ Listening(k)
      PROVE  UNCHANGED <<cpc, cheld, history>>
  BY <1>2, RunningFrame DEF Deliver, Fewer, Listening, Hear, WatchJoins, cancelVars, history, Proc
<1>3. ASSUME NEW p \in Proc, Preparation(p) PROVE UNCHANGED <<cpc, cheld, history>>
  BY <1>3, PreparationFrame DEF cancelVars
<1>4. ASSUME Reconcile \/ UNCHANGED vars PROVE UNCHANGED <<cpc, cheld, history>>
  BY <1>4 DEF Reconcile, vars, cancelVars, history
<1>5. QED BY <1>1, <1>2, <1>3, <1>4, CalmCases

(* Once a cancel has reached its flag it never counts as unbegun again. *)
LEMMA BegunStays ==
    ASSUME TypeOK, OneRun, faults' = 0, [Next]_vars
    PROVE  /\ CancelBegun => CancelBegun'
           /\ published => published'
           /\ gap => gap'
           /\ unheard => unheard'
<1> ~Fault
  BY NoFaultNow
<1> USE DEF CancelBegun, TypeOK
<1>1. ASSUME NEW w \in Web, Cancelling(w)
      PROVE  (CancelBegun => CancelBegun') /\ (published => published') /\ (gap => gap')
             /\ (unheard => unheard')
  <2> USE DEF mainVars, history
  <2>1. CASE CancelArrives(w) \/ CancelPrecheck(w) \/ CancelGet(w) \/ CancelFlag(w)
    BY <2>1 DEF CancelArrives, CancelPrecheck, CancelGet, CancelFlag
  <2>2. CASE CancelSay(w) \/ CancelMarshal(w) \/ CancelRow(w)
    BY <2>2 DEF CancelSay, CancelMarshal, CancelRow
  <2>3. CASE CancelSet(w)
    BY <2>3 DEF CancelSet
  <2>4. CASE CancelPublish(w)
    BY <2>4 DEF CancelPublish
  <2>5. QED BY <1>1, <2>1, <2>2, <2>3, <2>4 DEF Cancelling
<1>2. CASE \A w \in Web : ~Cancelling(w)
  BY <1>2, CancelRests DEF history
<1>3. QED BY <1>1, <1>2

(* Without a cancel no copy of the record gets the flag. *)
LEMMA FlagStep ==
    ASSUME TypeOK, OneRun, Begun, faults' = 0, [Next]_vars, ~CancelBegun, ~CancelBegun'
    PROVE  ~Flagged'
<1> Web \subseteq Proc /\ Worker \subseteq Proc /\ ~NoState.cancel /\ ~Fresh.cancel
  BY DEF Proc, NoState, Fresh
<1>a. /\ ~Spread("cancelled") /\ ~Flagged
      /\ \A p \in Proc : sub[p] # "msg"
      /\ \A w \in Web : cpc[w] \notin {"say", "marshal", "set", "publish"}
      /\ \A w \in Web : cpc'[w] \notin {"say", "marshal", "set", "publish"}
  BY DEF Begun, CancelBegun
<1>b. ~Stopped(key) /\ ~Stopped(NoState)
  BY <1>a DEF Stopped, Spread, Flagged, NoState
<1> USE DEF Flagged, TypeOK
<1>1. ASSUME NEW w \in Web, Submission(w) PROVE ~Flagged'
  BY <1>1, <1>a DEF Submission, Register, Send, Queued, cancelVars
<1>2. ASSUME NEW k \in Worker, Deliver(k) \/ Listening(k) PROVE ~Flagged'
  BY <1>2, <1>a DEF Deliver, Fewer, Listening, Hear, WatchJoins, cancelVars
<1>3. ASSUME NEW p \in Proc, Preparation(p) PROVE ~Flagged'
  <2> USE DEF stateVars, cancelVars
  <2>1. CASE GetOrCreateHit(p) \/ GetOrCreateRead(p)
    BY <2>1, <1>a DEF GetOrCreateHit, GetOrCreateRead, Reads
  <2>2. CASE GetOrCreatePut(p)
    <3>1. held[p] \in TaskState /\ ~held[p].cancel
      BY <1>a
    <3>2. ~Apply(Fresh, held[p]).cancel
      BY <3>1 DEF Apply, TaskState
    <3>3. QED BY <2>2, <3>2, <1>a DEF GetOrCreatePut, Writes
  <2>3. CASE SetOwner(p)
    <3>1. \A q \in Proc : ram'[q].cancel = ram[q].cancel
      BY <2>3 DEF SetOwner, TaskState
    <3>2. QED BY <2>3, <3>1, <1>a DEF SetOwner
  <2>4. CASE SetOwnerMarshal(p) \/ SetOwnerPut(p)
    BY <2>4, <1>a DEF SetOwnerMarshal, SetOwnerPut, Writes
  <2>5. QED BY <1>3, <2>1, <2>2, <2>3, <2>4 DEF Preparation
<1>4. ASSUME NEW k \in Worker, Running(k) PROVE ~Flagged'
  <2> USE DEF stateVars, cancelVars
  <2>1. CASE WatchLocal(k) \/ WatchReread(k)
    <3>1. ram' = ram
      BY <2>1, <1>a, <1>b DEF WatchLocal, WatchReread, Reads
    <3>2. QED BY <2>1, <3>1, <1>a DEF WatchLocal, WatchReread
  <2>2. CASE \/ WatchSubscribe(k) \/ CallEngine(k) \/ EngineReturns(k) \/ Failed(k)
             \/ CheckCancel(k) \/ StorePut(k)
    BY <2>2, <1>a DEF WatchSubscribe, CallEngine, EngineReturns, Failed, CheckCancel, StorePut
  <2>3. CASE RowDone(k) \/ RowFail(k) \/ RowError(k) \/ RowCancel(k)
    BY <2>3, <1>a DEF RowDone, RowFail, RowError, RowCancel, UpdateChunkStatus, Records
  <2>4. CASE NotifyLocal(k)
    <3>1. \A q \in Proc : ram'[q].cancel = ram[q].cancel
      BY <2>4 DEF NotifyLocal, TaskState
    <3>2. QED BY <2>4, <3>1, <1>a DEF NotifyLocal
  <2>5. CASE NotifyMarshal(k) \/ NotifySet(k)
    BY <2>5, <1>a DEF NotifyMarshal, NotifySet, Writes
  <2>6. QED BY <1>4, <2>1, <2>2, <2>3, <2>4, <2>5 DEF Running
<1>5. ASSUME NEW w \in Web, Cancelling(w) PROVE ~Flagged'
  <2> USE DEF stateVars, mainVars
  <2> DEFINE item == Refreshed(w, cheld[w])
  <2>0. cheld[w] \in TaskState /\ ~cheld[w].cancel /\ ~ram[w].cancel
    BY <1>a
  <2>a. item \in TaskState /\ ~item.cancel
    BY <2>0, RefreshedFields
  <2>1. CASE CancelArrives(w) \/ CancelGet(w)
    <3>1. \E value \in {key, NoState} : cheld' = [cheld EXCEPT ![w] = value]
      BY <2>1, GetReadsType DEF CancelArrives, CancelGet
    <3>2. \A v \in Web : ~cheld'[v].cancel
      BY <3>1, <1>a
    <3>3. QED BY <2>1, <3>2, <1>a DEF CancelArrives, CancelGet
  <2>2. CASE CancelPrecheck(w)
    BY <2>2, <2>a, <1>a DEF CancelPrecheck
  <2>3. CASE CancelFlag(w)
    <3>1. ram' = ram
      BY <2>3, <1>a DEF CancelFlag
    <3>2. QED BY <2>3, <3>1, <1>a DEF CancelFlag
  <2>4. CASE CancelSay(w) \/ CancelMarshal(w) \/ CancelSet(w) \/ CancelPublish(w)
    BY <2>4, <1>a DEF CancelSay, CancelMarshal, CancelSet, CancelPublish
  <2>5. CASE CancelRow(w)
    BY <2>5, <1>a DEF CancelRow
  <2>6. QED BY <1>5, <2>1, <2>2, <2>3, <2>4, <2>5 DEF Cancelling
<1>6. ASSUME NEW w \in Web, Polling(w) PROVE ~Flagged'
  <2>1. ~Refreshed(w, seen[w]).cancel
    BY <1>a, RefreshedFields
  <2>2. CASE PollReads(w)
    BY <2>2, <1>a DEF PollReads, stateVars, mainVars, cancelVars
  <2>3. CASE PollApplies(w)
    <3>1. \A q \in Proc : ~ram'[q].cancel
      BY <2>3, <2>1, <1>a DEF PollApplies
    <3>2. QED BY <2>3, <3>1, <1>a DEF PollApplies, mainVars, cancelVars
  <2>4. QED BY <1>6, <2>2, <2>3 DEF Polling
<1>7. CASE Reconcile \/ UNCHANGED vars
  BY <1>7, <1>a DEF Reconcile, vars, mainVars, cancelVars
<1>8. QED BY <1>1, <1>2, <1>3, <1>4, <1>5, <1>6, <1>7, CalmCases

(* Every trace of a cancel comes from a request that has got that far. *)
LEMMA BegunStep ==
    ASSUME TypeOK, OneRun, Begun, faults' = 0, [Next]_vars
    PROVE  Begun'
<1> Web \subseteq Proc /\ Worker \subseteq Proc /\ ~Fault
  BY NoFaultNow DEF Proc
<1>1. Spread("cancelled")' \/ Flagged' => CancelBegun'
  <2> SUFFICES ASSUME ~CancelBegun' PROVE ~Spread("cancelled")' /\ ~Flagged'
    OBVIOUS
  <2>1. ~CancelBegun
    BY BegunStays
  <2>2. ~Spread("cancelled")
    BY <2>1 DEF Begun
  <2>3. ASSUME NEW w \in Web PROVE ~CancelSay(w)
    BY <2>1 DEF CancelSay, CancelBegun
  <2>4. ASSUME NEW k \in Worker, NotifyLocal(k) PROVE SayFrom[pc[k]] # "cancelled"
    BY <2>4 DEF NotifyLocal, SayFrom
  <2>5. ~Spread("cancelled")'
    BY <2>2, <2>3, <2>4, SpreadStep DEF Terminal
  <2>6. QED BY <2>1, <2>5, FlagStep
<1>2. ASSUME NEW p \in Proc, sub'[p] = "msg" \/ pc'[p] = "rowcancel"
      PROVE  CancelBegun'
  <2>1. CASE CancelBegun
    BY <2>1, BegunStays
  <2>2. CASE ~CancelBegun
    <3>1. /\ \A q \in Proc : sub[q] # "msg" /\ pc[q] # "rowcancel" /\ ~ram[q].cancel
          /\ \A w \in Web : cpc[w] # "publish"
      BY <2>2 DEF Begun, CancelBegun, Flagged
    <3> USE DEF TypeOK, Goto
    <3>2. ASSUME NEW w \in Web, Submission(w) \/ Polling(w) PROVE FALSE
      BY <1>2, <3>1, <3>2, PollingFrame DEF Submission, Register, Send, Queued, mainVars
    <3>3. ASSUME NEW w \in Web, Cancelling(w) PROVE FALSE
      <4>1. ~CancelPublish(w)
        BY <3>1 DEF CancelPublish
      <4>2. UNCHANGED <<pc, sub>>
        BY <3>3, <4>1 DEF Cancelling, CancelArrives, CancelPrecheck, CancelGet,
           CancelFlag, CancelSay, CancelMarshal, CancelSet, CancelRow, mainVars
      <4>3. QED BY <1>2, <3>1, <4>2
    <3>4. ASSUME NEW k \in Worker, Deliver(k) \/ Listening(k) PROVE FALSE
      BY <1>2, <3>1, <3>4 DEF Deliver, Fewer, Listening, Hear, WatchJoins
    <3>5. ASSUME NEW q \in Proc, Preparation(q) PROVE FALSE
      BY <1>2, <3>1, <3>5, PreparationFrame DEF AfterOwner
    <3>6. ASSUME NEW k \in Worker, Running(k) PROVE FALSE
      <4>1. CASE WatchLocal(k) \/ WatchSubscribe(k) \/ WatchReread(k)
        BY <1>2, <3>1, <4>1 DEF WatchLocal, WatchSubscribe, WatchReread
      <4>2. CASE CallEngine(k) \/ EngineReturns(k) \/ Failed(k) \/ CheckCancel(k) \/ StorePut(k)
        BY <1>2, <3>1, <4>2 DEF CallEngine, EngineReturns, Failed, CheckCancel, StorePut
      <4>3. CASE RowDone(k) \/ RowFail(k) \/ RowError(k) \/ RowCancel(k)
        BY <1>2, <3>1, <4>3 DEF RowDone, RowFail, RowError, RowCancel, UpdateChunkStatus,
           Records, StopWatch
      <4>4. CASE NotifyLocal(k) \/ NotifyMarshal(k) \/ NotifySet(k)
        BY <1>2, <3>1, <4>4 DEF NotifyLocal, NotifyMarshal, NotifySet, AfterSay, StopWatch
      <4>5. QED BY <3>6, <4>1, <4>2, <4>3, <4>4 DEF Running
    <3>7. CASE Reconcile \/ UNCHANGED vars
      BY <1>2, <3>1, <3>7 DEF Reconcile, vars, mainVars
    <3>8. QED BY <3>2, <3>3, <3>4, <3>5, <3>6, <3>7, CalmCases
  <2>3. QED BY <2>1, <2>2
<1>3. CancelBegun' => \E w \in Web : cpc'[w] # "idle"
  <2>1. ASSUME NEW w \in Web, Cancelling(w) PROVE cpc'[w] # "idle"
    BY <2>1, CancellingFrame
  <2>2. CASE \A w \in Web : ~Cancelling(w)
    BY <2>2, CancelRests DEF Begun, CancelBegun, history
  <2>3. QED BY <2>1, <2>2
<1>4. QED BY <1>1, <1>2, <1>3 DEF Begun

LEMMA EndedInit == Init => Ended
BY DEF Init, Ended, Proc

(* The record a run leaves behind says what its row says. *)
LEMMA EndedStep ==
    ASSUME TypeOK, RowComesFirst, OneRun, FreshRun, Outcome, Begun, Ended,
           faults' = 0, [Next]_vars
    PROVE  Ended'
<1> SUFFICES ASSUME ~CancelBegun', NEW k \in Worker, pc'[k] \in {"rowerr", "end"}
             PROVE  /\ pc'[k] = "rowerr" => key'.status = "error"
                    /\ pc'[k] = "end" => key'.status = row'.status /\ row'.status \in Terminal
  BY DEF Ended
<1> k \in Proc /\ ~Fault
  BY NoFaultNow DEF Proc
<1>1. ~CancelBegun /\ pc[k] # "rowcancel"
  BY BegunStays DEF Begun
<1>2. pc[k] # "idle"
  BY IdleStays
<1>3. \A l \in Worker : l # k => pc[l] = "idle"
  BY <1>2 DEF OneRun
<1>4. CASE pc'[k] = pc[k] /\ key' = key
  <2>1. pc[k] = "end" => row' = row
    BY <1>1, <1>3, FinishedRowStays DEF Ended
  <2>2. QED BY <1>1, <1>4, <2>1 DEF Ended
<1>5. CASE Preparation(k)
  BY <1>5, PreparationFrame DEF AfterOwner
<1>6. ASSUME Listening(k) \/ Reconcile \/ (\E w \in Web : Polling(w)) \/ UNCHANGED vars
      PROVE  pc'[k] = pc[k] /\ key' = key
  BY <1>6, PollingFrame DEF Listening, Hear, WatchJoins, Reconcile, mainVars, vars
<1>7. ASSUME NEW w \in Web, Cancelling(w)
      PROVE  pc'[k] = pc[k] /\ key' = key
  <2>1. ~CancelSet(w)
    BY <1>1 DEF CancelBegun, CancelSet
  <2>2. QED
    BY <1>7, <2>1 DEF Cancelling, CancelArrives, CancelPrecheck, CancelGet, CancelFlag,
       CancelSay, CancelMarshal, CancelPublish, CancelRow, stateVars, mainVars
<1>8. CASE Running(k)
  <2> USE DEF TypeOK, Goto
  <2>1. CASE \/ WatchLocal(k) \/ WatchSubscribe(k) \/ WatchReread(k) \/ CallEngine(k)
             \/ EngineReturns(k) \/ Failed(k) \/ CheckCancel(k) \/ StorePut(k)
    BY <2>1 DEF WatchLocal, WatchSubscribe, WatchReread, CallEngine, EngineReturns,
       Failed, CheckCancel, StorePut
  <2>2. CASE RowDone(k) \/ RowFail(k) \/ RowCancel(k)
    BY <1>1, <2>2 DEF RowDone, RowFail, RowCancel, UpdateChunkStatus, Records
  <2>3. CASE RowError(k)
    <3>1. pc[k] = "rowerr" /\ pc'[k] = "end" /\ key' = key /\ row'.status = "error"
      BY <2>3 DEF RowError, UpdateChunkStatus, Records
    <3>2. QED BY <1>1, <3>1 DEF Ended, Terminal
  <2>4. CASE NotifyLocal(k) \/ NotifyMarshal(k)
    BY <2>4 DEF NotifyLocal, NotifyMarshal, AfterSay
  <2>5. CASE NotifySet(k)
    <3>1. key' = held[k] /\ row' = row
      BY <2>5 DEF NotifySet, Writes
    <3>2. \/ pc[k] = "setdone" /\ pc'[k] = "end"
          \/ pc[k] = "seterr" /\ pc'[k] = "rowerr"
      BY <2>5 DEF NotifySet
    <3>3. QED BY <3>1, <3>2 DEF Outcome, Terminal
  <2>6. QED BY <1>8, <2>1, <2>2, <2>3, <2>4, <2>5 DEF Running
<1>9. QED
  BY <1>2, <1>4, <1>5, <1>6, <1>7, <1>8, RunIsAlone

LEMMA LastingInit == Init => Lasting
BY DEF Init, Lasting, CancelStored, Proc

(* A process's copy keeps its owner mark, so a process that has no record  *)
(* to write back gets none.                                                *)
LEMMA WritingBegins ==
    ASSUME TypeOK, OneRun, faults' = 0, [Next]_vars, NEW p \in Proc,
           ~Writing(p), Writing(p)'
    PROVE  GetOrCreateRead(p) \/ (GetOrCreateHit(p) /\ pc'[p] = "own")
<1> Web \subseteq Proc /\ Worker \subseteq Proc
  BY DEF Proc
<1> USE DEF TypeOK
<1>1. CASE Preparation(p)
  <2>1. CASE GetOrCreatePut(p) \/ SetOwnerMarshal(p) \/ SetOwnerPut(p)
    BY <2>1 DEF GetOrCreatePut, SetOwnerMarshal, SetOwnerPut, Writing, AfterOwner, Goto
  <2>2. CASE SetOwner(p)
    BY <2>2 DEF SetOwner, Writing, AfterOwner, Goto
  <2>3. CASE GetOrCreateHit(p)
    BY <2>3 DEF GetOrCreateHit, Goto
  <2>4. QED BY <1>1, <2>1, <2>2, <2>3 DEF Preparation
<1>2. CASE pc'[p] = pc[p] /\ (ram[p].owner => ram'[p].owner)
  BY <1>2 DEF Writing
<1>3. ASSUME NEW w \in Web, Submission(w) PROVE pc'[p] = pc[p] \/ pc'[p] \in {"get", "sent"}
  BY <1>3, NoFaultNow DEF Submission, Register, Send, Queued, Goto
<1>4. ASSUME NEW k \in Worker, Deliver(k) PROVE pc'[p] = pc[p] \/ pc'[p] = "get"
  BY <1>4 DEF Deliver, Fewer, Goto
<1>5. ASSUME NEW w \in Web, Submission(w) PROVE ram' = ram
  BY <1>5 DEF Submission, Register, Send, Queued
<1>6. ASSUME NEW k \in Worker, Deliver(k) PROVE ram' = ram
  BY <1>6 DEF Deliver, Fewer
<1>7. ASSUME NEW k \in Worker, Running(k) PROVE FALSE
  <2>1. CASE k = p
    BY <1>7, <2>1, RunningFrame DEF Writing
  <2>2. CASE k # p
    BY <1>7, <2>2, <1>2, RunningFrame DEF Writing
  <2>3. QED BY <2>1, <2>2
<1>8. ASSUME NEW k \in Worker, Listening(k) PROVE FALSE
  BY <1>8, <1>2, CutFields DEF Listening, Hear, WatchJoins, Writing
<1>9. ASSUME NEW w \in Web, Polling(w) PROVE FALSE
  <2>1. pc'[p] = pc[p]
    BY <1>9, PollingFrame DEF mainVars
  <2>2. ram[p].owner => ram'[p].owner
    BY <1>9, RefreshedFields DEF Polling, PollReads, PollApplies, stateVars
  <2>3. QED BY <1>2, <2>1, <2>2 DEF Writing
<1>10. ASSUME NEW w \in Web, Cancelling(w) PROVE FALSE
  <2>1. pc'[p] = pc[p]
    BY <1>10, CancellingFrame
  <2>2. ram[p].owner => ram'[p].owner
    <3>1. CASE p # w
      BY <1>10, <3>1, CancellingFrame
    <3>2. CASE p = w /\ CancelPrecheck(w)
      BY <3>2, RefreshedFields DEF CancelPrecheck
    <3>3. CASE p = w /\ CancelFlag(w)
      <4> DEFINE item == Refreshed(w, cheld[w])
      <4>1. item \in TaskState /\ (ram[w].owner => item.owner)
        BY RefreshedFields
      <4>2. [item EXCEPT !.cancel = TRUE].owner = item.owner
        BY <4>1 DEF TaskState
      <4>3. ram' = ram \/ ram' = [ram EXCEPT ![w] = [item EXCEPT !.cancel = TRUE]]
        BY <3>3 DEF CancelFlag
      <4>4. ram'[w] \in {ram[w], [item EXCEPT !.cancel = TRUE]}
        BY <4>3
      <4>5. QED BY <3>3, <4>1, <4>2, <4>4
    <3>4. CASE p = w /\ CancelSay(w)
      BY <3>4 DEF CancelSay, TaskState
    <3>5. CASE \/ CancelArrives(w) \/ CancelGet(w) \/ CancelMarshal(w) \/ CancelSet(w)
               \/ CancelPublish(w) \/ CancelRow(w)
      BY <3>5 DEF CancelArrives, CancelGet, CancelMarshal, CancelSet, CancelPublish,
         CancelRow, stateVars
    <3>6. QED BY <1>10, <3>1, <3>2, <3>3, <3>4, <3>5 DEF Cancelling
  <2>3. QED BY <1>2, <2>1, <2>2 DEF Writing
<1>11. ASSUME NEW q \in Proc, Preparation(q), q # p PROVE FALSE
  BY <1>11, <1>2, PreparationFrame DEF Writing
<1>12. CASE Reconcile \/ UNCHANGED vars
  BY <1>12 DEF Reconcile, vars, mainVars, Writing
<1>13. QED
  BY <1>1, <1>3, <1>4, <1>5, <1>6, <1>7, <1>8, <1>9, <1>10, <1>11, <1>12, CalmCases
  DEF Writing

(* A cancel is stored by its SET, over what nobody is about to overwrite.  *)
LEMMA StoringIsClean ==
    ASSUME TypeOK, OneRun, faults' = 0, [Next]_vars, ~CancelStored, CancelStored', ~gap'
    PROVE  key'.status = "cancelled" /\ \A p \in Proc : ~Writing(p)'
<1> ~Fault
  BY NoFaultNow
<1>1. PICK w \in Web : Cancelling(w)
  BY CancelRests DEF CancelStored, history
<1>2. CancelSet(w)
  <2> USE DEF CancelStored, TypeOK, mainVars, history
  <2>1. ASSUME CancelArrives(w) \/ CancelPrecheck(w) \/ CancelGet(w) \/ CancelFlag(w) PROVE FALSE
    BY <2>1 DEF CancelArrives, CancelPrecheck, CancelGet, CancelFlag
  <2>2. ASSUME CancelSay(w) \/ CancelMarshal(w) \/ CancelRow(w) PROVE FALSE
    BY <2>2 DEF CancelSay, CancelMarshal, CancelRow
  <2>3. ASSUME CancelPublish(w) PROVE FALSE
    BY <2>3 DEF CancelPublish
  <2>4. QED BY <1>1, <2>1, <2>2, <2>3 DEF Cancelling
<1>3. /\ key' = cheld[w] /\ cheld[w].status = "cancelled"
      /\ \A p \in Proc : ~Writing(p)
      /\ UNCHANGED <<pc, ram>>
  BY <1>2 DEF CancelSet, mainVars
<1>4. QED BY <1>3 DEF Writing

(* Once a cancel is stored the record stays final: whoever will still      *)
(* write it read it after that.                                            *)
LEMMA LastingStep ==
    ASSUME TypeOK, OneRun, Early, FreshRun, Outcome, Lasting, faults' = 0, [Next]_vars
    PROVE  Lasting'
<1> SUFFICES ASSUME CancelStored', ~gap'
             PROVE  /\ key'.status \in Terminal
                    /\ \A w \in Web : ~Writing(w)'
                    /\ \A k \in Worker :
                          /\ pc'[k] = "put" => held'[k].status \in Terminal
                          /\ pc'[k] \in {"own", "ownmarshal"} /\ Writing(k)' =>
                                ram'[k].status \in Terminal
                          /\ pc'[k] = "ownput" => held'[k].status \in Terminal
  BY DEF Lasting
<1> ~Fault /\ Web \subseteq Proc /\ Worker \subseteq Proc /\ Web \cap Worker = {}
  BY NoFaultNow, ProcessAssumption DEF Proc
<1>1. CASE ~CancelStored
  <2>1. key'.status = "cancelled" /\ \A p \in Proc : ~Writing(p)'
    BY <1>1, StoringIsClean
  <2>2. QED BY <2>1 DEF Writing, Terminal
<1>2. CASE CancelStored
  <2>1. /\ key.status \in Terminal
        /\ \A w \in Web : ~Writing(w)
        /\ \A k \in Worker :
              /\ pc[k] = "put" => held[k].status \in Terminal
              /\ pc[k] \in {"own", "ownmarshal"} /\ Writing(k) => ram[k].status \in Terminal
              /\ pc[k] = "ownput" => held[k].status \in Terminal
    BY <1>2, BegunStays DEF Lasting
  <2>2. \A w \in Web : pc[w] # "get"
    <3>1. CancelBegun
      BY <1>2 DEF CancelStored, CancelBegun
    <3>2. QED BY <3>1 DEF Early, OneRun
  <2>3. \A w \in Web : ~Writing(w)'
    BY <2>1, <2>2, WritingBegins DEF GetOrCreateRead, GetOrCreateHit
  <2>4. key'.status \in Terminal
    <3>1. ASSUME NEW p \in Proc, Preparation(p) PROVE key'.status \in Terminal
      <4>1. CASE GetOrCreatePut(p)
        <5>1. pc[p] = "put" /\ p \in Worker
          BY <2>1, <4>1 DEF GetOrCreatePut, Writing, Proc
        <5>2. held[p] \in TaskState /\ held[p].status \in Terminal
          BY <2>1, <5>1 DEF TypeOK
        <5>3. Apply(Fresh, held[p]).status \in Terminal
          BY <5>2 DEF Apply, TaskState, Terminal
        <5>4. QED BY <4>1, <5>3 DEF GetOrCreatePut, Writes
      <4>2. CASE SetOwnerPut(p)
        BY <2>1, <4>2 DEF SetOwnerPut, Writes, Writing, Proc
      <4>3. QED
        BY <2>1, <3>1, <4>1, <4>2 DEF Preparation, GetOrCreateHit, GetOrCreateRead,
           SetOwner, SetOwnerMarshal, stateVars
    <3>2. ASSUME NEW k \in Worker, Running(k) PROVE key'.status \in Terminal
      <4>1. CASE NotifySet(k)
        BY <4>1 DEF NotifySet, Writes, Outcome, Terminal
      <4>2. QED
        BY <2>1, <3>2, <4>1 DEF Running, WatchLocal, WatchSubscribe, WatchReread,
           CallEngine, EngineReturns, Failed, CheckCancel, StorePut, RowDone, RowFail,
           RowError, RowCancel, NotifyLocal, NotifyMarshal, stateVars
    <3>3. ASSUME NEW w \in Web, Cancelling(w) PROVE key'.status \in Terminal
      <4>1. CASE CancelSet(w)
        <5>1. key' = cheld[w] /\ cheld[w].status = "cancelled"
          BY <4>1 DEF CancelSet
        <5>2. QED BY <5>1 DEF Terminal
      <4>2. QED
        BY <2>1, <3>3, <4>1 DEF Cancelling, CancelArrives, CancelPrecheck, CancelGet,
           CancelFlag, CancelSay, CancelMarshal, CancelPublish, CancelRow, stateVars
    <3>4. ASSUME NEW w \in Web, Submission(w) \/ Polling(w) PROVE key' = key
      BY <3>4, PollingFrame DEF Submission, Register, Send, Queued
    <3>5. ASSUME NEW k \in Worker, Deliver(k) \/ Listening(k) PROVE key' = key
      BY <3>5 DEF Deliver, Fewer, Listening, Hear, WatchJoins
    <3>6. ASSUME Reconcile \/ UNCHANGED vars PROVE key' = key
      BY <3>6 DEF Reconcile, vars
    <3>7. QED BY <2>1, <3>1, <3>2, <3>3, <3>4, <3>5, <3>6, CalmCases
  <2>5. ASSUME NEW k \in Worker, Writing(k)'
        PROVE  /\ pc'[k] = "put" => held'[k].status \in Terminal
               /\ pc'[k] \in {"own", "ownmarshal"} => ram'[k].status \in Terminal
               /\ pc'[k] = "ownput" => held'[k].status \in Terminal
    <3> USE DEF TypeOK, Goto
    <3>1. CASE ~Writing(k)
      <4>1. GetOrCreateRead(k)
        BY <2>5, <3>1, WritingBegins DEF GetOrCreateHit, FreshRun, NoState
      <4>2. QED BY <2>1, <4>1 DEF GetOrCreateRead, Reads
    <3>2. CASE Writing(k) /\ Preparation(k)
      <4>1. CASE GetOrCreatePut(k)
        <5>1. held[k] \in TaskState /\ held[k].status \in Terminal
          BY <2>1, <4>1 DEF GetOrCreatePut
        <5>2. Apply(Fresh, held[k]).status \in Terminal
          BY <5>1 DEF Apply, TaskState, Terminal
        <5>3. QED BY <4>1, <5>2 DEF GetOrCreatePut
      <4>2. CASE SetOwner(k)
        <5>1. ram'[k].status = ram[k].status
          BY <4>2 DEF SetOwner, TaskState
        <5>2. QED BY <2>1, <3>2, <4>2, <5>1 DEF SetOwner, AfterOwner
      <4>3. CASE SetOwnerMarshal(k)
        BY <2>1, <3>2, <4>3 DEF SetOwnerMarshal
      <4>4. CASE SetOwnerPut(k)
        BY <2>5, <4>4 DEF SetOwnerPut, AfterOwner, Writing
      <4>5. QED
        BY <3>2, <4>1, <4>2, <4>3, <4>4 DEF Preparation, GetOrCreateHit, GetOrCreateRead,
           Writing
    <3>3. CASE Writing(k) /\ pc'[k] = pc[k] /\ held'[k] = held[k] /\ ram'[k].status = ram[k].status
      BY <2>1, <3>3 DEF Writing
    <3>4. ASSUME Writing(k), ~Preparation(k)
          PROVE  pc'[k] = pc[k] /\ held'[k] = held[k] /\ ram'[k].status = ram[k].status
      <4>1. ASSUME NEW w \in Web, Submission(w) PROVE pc'[k] = pc[k] /\ UNCHANGED <<held, ram>>
        BY <4>1 DEF Submission, Register, Send, Queued
      <4>2. ASSUME NEW l \in Worker, Deliver(l) PROVE pc'[k] = pc[k] /\ UNCHANGED <<held, ram>>
        BY <4>2, <3>4 DEF Deliver, Fewer, Writing
      <4>3. QED
        BY <3>4, <4>1, <4>2, CalmCases, RunningFrame, PreparationFrame, PollingFrame,
           CancellingFrame, CutFields DEF Listening, Hear, WatchJoins, Reconcile, vars, mainVars, Writing
    <3>5. QED BY <3>1, <3>2, <3>3, <3>4
  <2>6. \A k \in Worker : pc'[k] \in {"put", "ownput"} => Writing(k)'
    BY DEF Writing
  <2>7. QED BY <2>3, <2>4, <2>5, <2>6
<1>3. QED BY <1>1, <1>2

LEMMA ReachedInit == Init => Reached
BY DEF Init, Reached

(* The engine call of a run is cut, or about to be, once a cancel that no  *)
(* process overwrites has been published.                                  *)
LEMMA ReachedStep ==
    ASSUME TypeOK, OneRun, FreshRun, Heard, Lasting, Reached, faults' = 0, [Next]_vars
    PROVE  Reached'
<1> SUFFICES ASSUME published', ~gap', ~unheard', NEW k \in Worker, pc'[k] \in {"call", "engine"}
             PROVE  ctx'[k] = "cut" \/ sub'[k] = "msg"
  BY DEF Reached
<1> ~Fault /\ k \in Proc
  BY NoFaultNow DEF Proc
<1> USE DEF TypeOK
<1>1. CASE ~published
  <2>1. PICK w \in Web : Cancelling(w)
    BY <1>1, CancelRests DEF history
  <2>2. CancelPublish(w)
    BY <1>1, <2>1 DEF Cancelling, CancelArrives, CancelPrecheck, CancelGet, CancelFlag,
       CancelSay, CancelMarshal, CancelSet, CancelRow, history
  <2>3. pc' = pc /\ (ctx[k] = "cut" \/ sub[k] # "none")
    BY <2>2 DEF FreshRun, CancelPublish
  <2>4. sub[k] # "asked"
    BY <2>2, <2>3, <1>1 DEF CancelPublish
  <2>5. QED BY <2>2, <2>3, <2>4 DEF CancelPublish
<1>2. CASE published
  <2>1. ~gap /\ ~unheard
    BY BegunStays
  <2>2. CASE pc[k] \in {"call", "engine"} /\ ~Running(k)
    <3>1. ctx[k] = "cut" \/ sub[k] = "msg"
      BY <1>2, <2>1, <2>2 DEF Reached
    <3>2. \/ (sub'[k] = sub[k] \/ sub'[k] = "msg") /\ ctx'[k] = ctx[k]
          \/ ctx'[k] = "cut"
      <4>1. ASSUME NEW w \in Web, Submission(w) PROVE UNCHANGED <<ctx, sub>>
        BY <4>1 DEF Submission, Register, Send, Queued
      <4>2. ASSUME NEW l \in Worker, Deliver(l) PROVE UNCHANGED <<ctx, sub>>
        BY <4>2 DEF Deliver, Fewer
      <4>3. ASSUME NEW l \in Worker, Listening(l)
            PROVE  (sub'[k] = sub[k] /\ ctx'[k] = ctx[k]) \/ ctx'[k] = "cut"
        BY <3>1, <4>3, CutFields DEF Listening, Hear, WatchJoins, Proc
      <4>4. ASSUME NEW p \in Proc, Preparation(p) PROVE UNCHANGED <<ctx, sub>>
        BY <4>4, PreparationFrame
      <4>5. ASSUME NEW l \in Worker, Running(l)
            PROVE  sub'[k] = sub[k] /\ ctx'[k] = ctx[k]
        BY <2>2, <4>5, RunningFrame DEF Proc
      <4>6. ASSUME NEW w \in Web, Polling(w) \/ Cancelling(w)
            PROVE  (sub'[k] = sub[k] \/ sub'[k] = "msg") /\ ctx'[k] = ctx[k]
        BY <4>6, PollingFrame, CancellingFrame DEF mainVars
      <4>7. ASSUME Reconcile \/ UNCHANGED vars PROVE UNCHANGED <<ctx, sub>>
        BY <4>7 DEF Reconcile, vars, mainVars
      <4>8. QED BY <4>1, <4>2, <4>3, <4>4, <4>5, <4>6, <4>7, CalmCases
    <3>3. QED BY <3>1, <3>2
  <2>3. CASE Running(k)
    <3> USE DEF Goto
    <3>1. CASE WatchLocal(k)
      BY <3>1, CutFields DEF WatchLocal
    <3>2. CASE WatchReread(k)
      <4>1. \A l \in Worker : pc[l] \notin Said
        BY <3>2 DEF OneRun, WatchReread, Said
      <4>2. key.status \notin {"done", "error"}
        BY <4>1 DEF Heard, Spread
      <4>3. key.status \in Terminal
        BY <1>2, <2>1 DEF Lasting, CancelStored
      <4>4. Stopped(key)
        BY <4>2, <4>3 DEF Stopped, Terminal
      <4>5. Cut(k)
        BY <3>2, <4>4 DEF WatchReread, Reads
      <4>6. QED BY <4>5, CutFields
    <3>3. CASE CallEngine(k)
      BY <3>3, <1>2, <2>1 DEF CallEngine, Reached
    <3>4. CASE WatchSubscribe(k) \/ EngineReturns(k) \/ Failed(k) \/ CheckCancel(k) \/ StorePut(k)
      BY <3>4 DEF WatchSubscribe, EngineReturns, Failed, CheckCancel, StorePut
    <3>5. CASE RowDone(k) \/ RowFail(k) \/ RowError(k) \/ RowCancel(k)
      BY <3>5 DEF RowDone, RowFail, RowError, RowCancel, UpdateChunkStatus, Records
    <3>6. CASE NotifyLocal(k) \/ NotifyMarshal(k) \/ NotifySet(k)
      BY <3>6 DEF NotifyLocal, NotifyMarshal, NotifySet, AfterSay
    <3>7. QED BY <2>3, <3>1, <3>2, <3>3, <3>4, <3>5, <3>6 DEF Running
  <2>4. CASE pc[k] \notin {"call", "engine"} /\ ~Running(k)
    <3>1. pc'[k] = pc[k] \/ pc'[k] \notin {"call", "engine"}
      <4>1. ASSUME NEW w \in Web, Submission(w) PROVE pc'[k] = pc[k]
        BY <4>1, ProcessAssumption DEF Submission, Register, Send, Queued, Goto
      <4>2. ASSUME NEW l \in Worker, Deliver(l) PROVE pc'[k] = pc[k] \/ pc'[k] = "get"
        BY <4>2 DEF Deliver, Fewer, Goto
      <4>3. ASSUME NEW p \in Proc, Preparation(p)
            PROVE  pc'[k] = pc[k] \/ pc'[k] \notin {"call", "engine"}
        BY <4>3, PreparationFrame DEF AfterOwner
      <4>4. ASSUME NEW l \in Worker, Running(l) PROVE pc'[k] = pc[k]
        BY <2>4, <4>4, RunningFrame DEF Proc
      <4>5. ASSUME NEW w \in Web, Polling(w) \/ Cancelling(w) PROVE pc' = pc
        BY <4>5, PollingFrame, CancellingFrame DEF mainVars
      <4>6. ASSUME (\E l \in Worker : Listening(l)) \/ Reconcile \/ UNCHANGED vars PROVE pc' = pc
        BY <4>6 DEF Listening, Hear, WatchJoins, Reconcile, vars, mainVars
      <4>7. QED BY <4>1, <4>2, <4>3, <4>4, <4>5, <4>6, CalmCases
    <3>2. QED BY <2>4, <3>1
  <2>5. QED BY <2>2, <2>3, <2>4
<1>3. QED BY <1>1, <1>2

(* A failed call, a crash and a loss are each counted, and for good. *)
LEMMA FaultsAdd ==
    ASSUME TypeOK, [Next]_vars
    PROVE  faults' \in {faults, faults + 1}
<1> USE DEF Fault, NoFault
<1>1. ASSUME NEW w \in Web, Submission(w) \/ Polling(w) PROVE faults' \in {faults, faults + 1}
  BY <1>1 DEF Submission, Register, Send, Queued, Polling, PollReads, PollApplies
<1>2. ASSUME NEW p \in Proc, Preparation(p) PROVE faults' \in {faults, faults + 1}
  BY <1>2 DEF Preparation, GetOrCreateHit, GetOrCreateRead, GetOrCreatePut, SetOwner,
     SetOwnerMarshal, SetOwnerPut, Reads, Writes
<1>3. ASSUME NEW p \in Proc, Running(p) PROVE faults' \in {faults, faults + 1}
  <2>1. CASE \/ WatchLocal(p) \/ WatchSubscribe(p) \/ WatchReread(p) \/ CallEngine(p)
             \/ EngineReturns(p) \/ Failed(p) \/ CheckCancel(p) \/ StorePut(p)
    BY <2>1 DEF WatchLocal, WatchSubscribe, WatchReread, CallEngine, EngineReturns,
       Failed, CheckCancel, StorePut, Reads
  <2>2. CASE RowDone(p) \/ RowFail(p) \/ RowError(p) \/ RowCancel(p)
    BY <2>2 DEF RowDone, RowFail, RowError, RowCancel, UpdateChunkStatus, Records
  <2>3. CASE NotifyLocal(p) \/ NotifyMarshal(p) \/ NotifySet(p)
    BY <2>3 DEF NotifyLocal, NotifyMarshal, NotifySet, Writes
  <2>4. QED BY <1>3, <2>1, <2>2, <2>3 DEF Running
<1>4. ASSUME NEW w \in Web, Cancelling(w) PROVE faults' \in {faults, faults + 1}
  BY <1>4 DEF Cancelling, CancelArrives, CancelPrecheck, CancelGet, CancelFlag, CancelSay,
     CancelMarshal, CancelSet, CancelPublish, CancelRow, GetReads, Reads, Records
<1>5. ASSUME NEW p \in Proc, Deliver(p) \/ Listening(p) \/ Crash(p)
      PROVE  faults' \in {faults, faults + 1}
  BY <1>5 DEF Deliver, Fewer, Listening, Hear, WatchJoins, Crash
<1>6. CASE Reconcile \/ LoseKey \/ LoseMessage \/ UNCHANGED vars
  BY <1>6 DEF Reconcile, LoseKey, LoseMessage, Fewer, vars
<1>7. QED
  BY <1>1, <1>2, <1>3, <1>4, <1>5, <1>6, ProcessAssumption DEF Next, Proc

CalmUntilFault == faults = 0 => Calm

LEMMA CalmInductive == Spec => []CalmUntilFault
<1>1. Init => CalmUntilFault
  BY OneRunInit, EarlyInit, FreshRunInit, OutcomeInit, HeardInit, BegunInit, EndedInit,
     LastingInit, ReachedInit DEF Calm, CalmUntilFault
<1>2. ASSUME IInv, faults = 0 => Calm, [Next]_vars, faults' = 0 PROVE Calm'
  <2>1. TypeOK /\ RowComesFirst
    BY <1>2 DEF IInv
  <2>2. faults = 0
    BY <1>2, <2>1, FaultsAdd, ProcessAssumption DEF TypeOK
  <2>3. /\ OneRun /\ Early /\ FreshRun /\ Outcome /\ Heard
        /\ Begun /\ Ended /\ Lasting /\ Reached
    BY <1>2, <2>2 DEF Calm
  <2>4. OneRun' /\ Early' /\ FreshRun' /\ Outcome'
    BY <1>2, <2>1, <2>3, OneRunStep, EarlyStep, FreshRunStep, OutcomeStep
  <2>5. Heard' /\ Begun' /\ Ended' /\ Lasting' /\ Reached'
    BY <1>2, <2>1, <2>3, HeardStep, BegunStep, EndedStep, LastingStep, ReachedStep
  <2>6. QED BY <2>4, <2>5 DEF Calm
<1>3. IInv /\ CalmUntilFault /\ [Next]_vars => CalmUntilFault'
  BY <1>2 DEF CalmUntilFault
<1>4. QED BY <1>1, <1>3, Inductive, PTL DEF Spec

(* As long as nothing has failed, a client that reads "done" at the Redis  *)
(* record finds the finished row, in every interleaving of the run with    *)
(* cancels, polls and the reconciler: synth.Run writes the row first, and  *)
(* nothing overwrites a finished row afterwards.                           *)
THEOREM DoneShowsInHistory == Spec => []DoneIsInHistory
<1>1. TypeOK /\ CalmUntilFault => DoneIsInHistory
  BY DEF CalmUntilFault, Calm, Heard, Spread, DoneIsInHistory
<1>2. QED BY <1>1, TypeCorrect, CalmInductive, PTL

(* As long as nothing has failed and nobody cancels, the Redis record and  *)
(* the row say the same once the run is over, also when the reconciler     *)
(* gave up on the row in the middle of it.                                 *)
THEOREM OutcomesAgree == Spec => []StoresAgree
<1>1. TypeOK /\ CalmUntilFault => StoresAgree
  <2> SUFFICES ASSUME TypeOK, Calm, \A w \in Web : cpc[w] = "idle",
                      NEW p \in Proc, pc[p] = "end"
               PROVE  key.status = row.status
    BY DEF StoresAgree, CalmUntilFault
  <2>1. p \in Worker
    BY DEF Calm, OneRun, Preparing, Proc
  <2>2. ~CancelBegun
    BY DEF Calm, Begun
  <2>3. QED BY <2>1, <2>2 DEF Calm, Ended
<1>2. QED BY <1>1, TypeCorrect, CalmInductive, PTL

(* As long as nothing has failed, a run that is over leaves a final status *)
(* at the Redis record, although a run that was cancelled announces        *)
(* nothing itself: the request that cancelled it has stored one, and no    *)
(* process that read the record earlier overwrites it, unless the cancel   *)
(* fell into one of the two gaps.                                          *)
THEOREM EndShows == Spec => []EndIsVisible
<1>1. TypeOK /\ CalmUntilFault => EndIsVisible
  <2> SUFFICES ASSUME TypeOK, Calm, ~gap,
                      \A w \in Web : cpc[w] \in {"idle", "refused", "done"},
                      NEW p \in Proc, pc[p] = "end"
               PROVE  key.status \in Terminal
    BY DEF EndIsVisible, CalmUntilFault
  <2>1. p \in Worker
    BY DEF Calm, OneRun, Preparing, Proc
  <2>2. CASE CancelBegun
    BY <2>2 DEF CancelBegun, CancelStored, Calm, Lasting
  <2>3. CASE ~CancelBegun
    BY <2>1, <2>3 DEF Calm, Ended
  <2>4. QED BY <2>2, <2>3
<1>2. QED BY <1>1, TypeCorrect, CalmInductive, PTL

(* As long as nothing has failed, a published cancel that fell into none   *)
(* of the gaps - not overwritten, not set back by a poll, not published    *)
(* between the re-read and a late SUBSCRIBE - reaches the run whatever the *)
(* order: an Engine call under way has been cut, or its subscription holds *)
(* the message that cuts it.                                               *)
THEOREM CancelReaches == Spec => []OnlyTheGapsLoseCancel
<1>1. TypeOK /\ CalmUntilFault => OnlyTheGapsLoseCancel
  <2> SUFFICES ASSUME TypeOK, Calm, published, ~gap, ~unheard, NEW p \in Proc, pc[p] = "engine"
               PROVE  ctx[p] = "cut" \/ sub[p] = "msg"
    BY DEF OnlyTheGapsLoseCancel, CalmUntilFault
  <2>1. p \in Worker
    BY DEF Calm, OneRun, Preparing, Proc
  <2>2. QED BY <2>1 DEF Calm, Reached
<1>2. QED BY <1>1, TypeCorrect, CalmInductive, PTL
=============================================================================
