---------------------------- MODULE JobQueueProofs ---------------------------
(* Theorems about JobQueue, for any tasks, workers, slots, cap and bounds.  *)
EXTENDS JobQueue, SequenceTheorems, FiniteSetTheorems, TLAPS

(* NoSecondRun and the bound on the slots are not inductive: they hold      *)
(* because an entry is in one place at a time.  The strengthening says so:  *)
(* an entry is in the stream once, is delivered once, and is not begun      *)
(* while it waits or is at hand.  What a task can still be run for is       *)
(* counted: its runs, its entries that have not begun, and the XADD that is *)
(* ahead of it are no more than one and the XADDs left unanswered.          *)

Sent == {stream[i] : i \in 1..Len(stream)}

(* Without a group nothing counts as delivered, so the group that a worker *)
(* creates from the beginning delivers nothing unanswered.                      *)
NothingDelivered == ~group => last = 0

SentOnce == \A i, j \in 1..Len(stream) : stream[i] = stream[j] => i = j

HandsFull == \A k \in Worker : wpc[k] \in {"hand", "ack"} => hand[k] \in Entry

ToSend(t) == t \in unsent \/ t \notin registered

(* The entries no XADD has made so far. *)
Ahead(e) ==
    \/ e.copy > unanswered[e.task]
    \/ e.copy = unanswered[e.task] /\ ToSend(e.task)

NotSentYet ==
    \A e \in Entry : Ahead(e) =>
        e \notin Sent /\ \A k \in Worker : ~Holds(k, e) /\ e \notin running[k]

DeliveredOnce ==
    \A e \in Entry, k \in Worker :
        /\ e \in Waiting => ~Holds(k, e) /\ e \notin running[k]
        /\ Holds(k, e) =>
              \A m \in Worker : e \notin running[m] /\ (Holds(m, e) => m = k)

Before(e) == e \in Waiting \/ \E k \in Worker : Holds(k, e)

Pending(t) == {n \in 0..MaxFaults : Before([task |-> t, copy |-> n])}

Count(t) ==
    starts[t] + Cardinality(Pending(t)) + (IF ToSend(t) THEN 1 ELSE 0)
        <= 1 + unanswered[t]

BegunOnce ==
    /\ unsent \subseteq registered
    /\ \A t \in Task : Count(t)

SlotsAreRuns ==
    \A k \in Worker :
        IsFiniteSet(running[k]) /\ slots[k] = Cardinality(running[k])

OnePlace ==
    /\ NothingDelivered
    /\ SentOnce
    /\ HandsFull
    /\ NotSentYet
    /\ DeliveredOnce
    /\ BegunOnce
    /\ SlotsAreRuns

FaultsCover == \A t \in Task : unanswered[t] <= faults

IInv == TypeOK /\ OnePlace /\ FaultsCover
-----------------------------------------------------------------------------
LEMMA EntryFields ==
    /\ \A e \in Entry : /\ e.task \in Task /\ e.copy \in 0..MaxFaults
                        /\ e = [task |-> e.task, copy |-> e.copy]
    /\ \A t \in Task, n \in 0..MaxFaults : [task |-> t, copy |-> n] \in Entry
BY DEF Entry

LEMMA PendingFinite ==
    ASSUME NEW t \in Task
    PROVE  /\ IsFiniteSet(Pending(t)) /\ Cardinality(Pending(t)) \in Nat
           /\ IsFiniteSet(Pending(t)') /\ Cardinality(Pending(t)') \in Nat
<1>1. IsFiniteSet(0..MaxFaults)
  BY FS_Interval, QueueAssumption
<1>2. Pending(t) \subseteq 0..MaxFaults /\ Pending(t)' \subseteq 0..MaxFaults
  BY DEF Pending
<1>3. QED BY <1>1, <1>2, FS_Subset, FS_CardinalityType

LEMMA OneMore ==
    ASSUME NEW S, IsFiniteSet(S), NEW x
    PROVE  /\ IsFiniteSet(S \cup {x}) /\ Cardinality(S \cup {x}) \in Nat
           /\ Cardinality(S \cup {x}) <= Cardinality(S) + 1
<1>1. IsFiniteSet(S \cup {x}) /\ Cardinality(S) \in Nat
  BY FS_AddElement, FS_CardinalityType
<1>2. Cardinality(S \cup {x}) \in {Cardinality(S), Cardinality(S) + 1}
  BY FS_AddElement
<1>3. ASSUME NEW a \in Nat, NEW b \in {a, a + 1} PROVE b \in Nat /\ b <= a + 1
  OBVIOUS
<1>4. QED BY <1>1, <1>2, <1>3

(* A step that begins no run of u and makes no entry of u keeps the count. *)
LEMMA CountStays ==
    ASSUME TypeOK, NEW u \in Task, Count(u),
           starts'[u] = starts[u], unanswered'[u] = unanswered[u],
           ToSend(u)' => ToSend(u),
           \A e \in Entry : e.task = u /\ Before(e)' => Before(e)
    PROVE  Count(u)'
<1>1. Pending(u)' \subseteq Pending(u)
  BY EntryFields DEF Pending
<1>2. Cardinality(Pending(u)') <= Cardinality(Pending(u))
  BY <1>1, PendingFinite, FS_Subset
<1>3. starts[u] \in Nat /\ unanswered[u] \in 0..MaxFaults
  BY DEF TypeOK
<1>4. /\ Cardinality(Pending(u)) \in Nat
      /\ Cardinality(Pending(u)') \in Nat
  BY PendingFinite
<1> DEFINE before == IF ToSend(u) THEN 1 ELSE 0
           after == IF ToSend(u)' THEN 1 ELSE 0
<1>5. before \in {0, 1} /\ after \in {0, 1} /\ after <= before
  OBVIOUS
<1>6. starts[u] + Cardinality(Pending(u)) + before <= 1 + unanswered[u]
  BY DEF Count
<1> HIDE DEF before, after
<1>7. starts'[u] + Cardinality(Pending(u)') + after <= 1 + unanswered'[u]
  BY <1>2, <1>3, <1>4, <1>5, <1>6, QueueAssumption
<1>8. QED BY <1>7 DEF Count, after

LEMMA Invariant0 == Init => IInv
<1> SUFFICES ASSUME Init PROVE IInv
  OBVIOUS
<1> USE DEF Init
<1>1. stream = <<>> /\ stream \in Seq(Entry) /\ Len(stream) = 0
  BY EmptySeq
<1>2. Waiting = {} /\ Sent = {}
  BY <1>1 DEF Waiting, Sent
<1>3. TypeOK
  <2>1. last \in 0..Len(stream) /\ faults \in 0..MaxFaults /\ restarts \in 0..MaxRestarts
    BY <1>1, QueueAssumption
  <2>2. slots \in [Worker -> 0..Slots] /\ starts \in [Task -> Nat]
        /\ unanswered \in [Task -> 0..MaxFaults]
    BY QueueAssumption
  <2>3. /\ wpc \in [Worker -> {"down", "boot", "loop", "read", "backoff", "hand",
                              "ack", "drain", "stopped"}]
        /\ hand \in [Worker -> Entry \cup {NoJob}]
        /\ stopping \in [Worker -> BOOLEAN]
        /\ running \in [Worker -> SUBSET Entry]
    OBVIOUS
  <2>4. group \in BOOLEAN
    OBVIOUS
  <2>5. QED BY <1>1, <2>1, <2>2, <2>3, <2>4 DEF TypeOK
<1>4. SlotsAreRuns
  BY FS_EmptySet DEF SlotsAreRuns
<1>5. NotSentYet /\ DeliveredOnce
  BY <1>2 DEF NotSentYet, DeliveredOnce, Holds
<1>5a. BegunOnce
  <2>1. \A t \in Task : Pending(t) = {}
    BY <1>2 DEF Pending, Before, Holds
  <2>2. \A t \in Task : Cardinality(Pending(t)) = 0
    BY <2>1, FS_EmptySet
  <2>3. \A t \in Task : starts[t] = 0 /\ unanswered[t] = 0
    OBVIOUS
  <2>4. \A t \in Task : Count(t)
    BY ONLY <2>2, <2>3, 0 + 0 + 1 <= 1 + 0, 0 + 0 + 0 <= 1 + 0 DEF Count
  <2>5. unsent \subseteq registered
    OBVIOUS
  <2>6. QED BY <2>4, <2>5 DEF BegunOnce
<1>6. NothingDelivered /\ SentOnce /\ HandsFull
  BY <1>1 DEF NothingDelivered, SentOnce, HandsFull
<1>7. QED BY <1>3, <1>4, <1>5, <1>5a, <1>6 DEF IInv, OnePlace, FaultsCover

(* What XADD does to the stream, whatever it trims. *)
LEMMA XAddStep ==
    ASSUME TypeOK, SentOnce, NEW e \in Entry, e \notin Sent, XAdd(e)
    PROVE  /\ stream' \in Seq(Entry) /\ last' \in 0..Len(stream')
           /\ lost' \subseteq Task /\ lost \subseteq lost'
           /\ last = 0 => last' = 0
           /\ SentOnce'
           /\ Sent' \subseteq Sent \cup {e}
           /\ Waiting' \subseteq Waiting \cup {e}
           /\ TasksOf(Waiting \cup {e}) \subseteq TasksOf(Waiting') \cup lost'
           /\ lost' # lost => Len(stream) - last >= MaxLen
<1> DEFINE long == Append(stream, e)
           n == Len(stream)
<1>1. n \in Nat /\ last \in 0..n /\ lost \subseteq Task
  BY LenProperties DEF TypeOK
<1>2. \A i \in 1..n : stream[i] \in Entry
  BY ElementOfSeq DEF TypeOK
<1>3. /\ long \in Seq(Entry)
      /\ Len(long) = n + 1
      /\ \A i \in 1..n : long[i] = stream[i]
      /\ long[n + 1] = e
  BY AppendProperties DEF TypeOK
<1>4. \A i \in 1..(n + 1) : long[i] \in Entry
  BY <1>1, <1>2, <1>3
<1>5. \A i \in 1..n : stream[i] # e
  BY DEF Sent
<1>6. \A i, j \in 1..(n + 1) : long[i] = long[j] => i = j
  BY <1>1, <1>3, <1>5 DEF SentOnce
<1>7. PICK cut \in 0..Len(long) :
        /\ cut = 0 \/ Len(long) - cut >= MaxLen
        /\ stream' = SubSeq(long, cut + 1, Len(long))
        /\ last' = IF cut < last THEN last - cut ELSE 0
        /\ lost' = lost \cup {long[i].task : i \in (last + 1)..cut}
  BY Zenon DEF XAdd
<1> HIDE DEF long, n
<1>8. cut \in 0..n
  BY <1>1, <1>3, <1>7, QueueAssumption
<1>9. /\ stream' \in Seq(Entry)
      /\ Len(stream') = n + 1 - cut
      /\ \A i \in 1..(n + 1 - cut) : stream'[i] = long[cut + i]
  <2> DEFINE from == cut + 1
             to == n + 1
  <2>1. from \in Int /\ to \in Int /\ from <= to /\ to - from + 1 = n + 1 - cut
    BY <1>1, <1>7, <1>8
  <2>2. \A i \in from..to : long[i] \in Entry
    BY <1>1, <1>4, <1>7
  <2>3. stream' = SubSeq(long, from, to)
    BY <1>3, <1>7
  <2> HIDE DEF from, to
  <2>4. SubSeq(long, from, to) \in Seq(Entry)
    BY <2>1, <2>2, SubSeqProperties, Zenon
  <2>5. Len(SubSeq(long, from, to)) = IF from <= to THEN to - from + 1 ELSE 0
    BY <2>1, <2>2, SubSeqProperties, Zenon
  <2>6. \A i \in 1..(to - from + 1) : SubSeq(long, from, to)[i] = long[from + i - 1]
    BY <2>1, <2>2, SubSeqProperties
  <2>7. \A i \in 1..(n + 1 - cut) : from + i - 1 = cut + i
    BY <1>1, <1>7 DEF from
  <2>8. Len(stream') = n + 1 - cut
    BY <2>1, <2>3, <2>5
  <2>9. \A i \in 1..(n + 1 - cut) : stream'[i] = long[cut + i]
    BY <2>1, <2>3, <2>6, <2>7
  <2>10. QED BY <2>3, <2>4, <2>8, <2>9
<1>10. last' \in 0..Len(stream') /\ (last = 0 => last' = 0)
  <2>1. Len(stream') = n + 1 - cut
    BY <1>9
  <2>2. last' = IF cut < last THEN last - cut ELSE 0
    BY <1>7
  <2>3. QED BY <1>1, <1>8, <2>1, <2>2
<1>11. lost' \subseteq Task /\ lost \subseteq lost'
  <2>1. \A i \in (last + 1)..cut : long[i] \in Entry
    BY <1>1, <1>4, <1>7, <1>8
  <2>2. QED BY <1>1, <1>7, <2>1, EntryFields
<1>12. \A i, j \in 1..Len(stream') : stream'[i] = stream'[j] => i = j
  BY <1>1, <1>6, <1>8, <1>9
<1>13. \A i \in 1..Len(stream') :
          \/ cut + i = n + 1 /\ stream'[i] = e
          \/ cut + i \in 1..n /\ stream'[i] = stream[cut + i]
  BY <1>1, <1>3, <1>8, <1>9
<1>14. Sent' \subseteq Sent \cup {e}
  BY <1>13 DEF Sent, n
<1>15. Waiting' \subseteq Waiting \cup {e}
  <2>1. \A i \in (last' + 1)..Len(stream') :
           \/ stream'[i] = e
           \/ cut + i \in (last + 1)..n /\ stream'[i] = stream[cut + i]
    BY <1>1, <1>7, <1>8, <1>9, <1>10, <1>13
  <2>2. QED BY <2>1 DEF Waiting, n
<1>16. TasksOf(Waiting \cup {e}) \subseteq TasksOf(Waiting') \cup lost'
  <2>1. \A i \in (last + 1)..(n + 1) :
           \/ i \in (last + 1)..cut
           \/ i - cut \in (last' + 1)..Len(stream') /\ stream'[i - cut] = long[i]
    <3>1. SUFFICES ASSUME NEW i \in (last + 1)..(n + 1), i \notin (last + 1)..cut
                   PROVE  /\ i - cut \in (last' + 1)..Len(stream')
                          /\ stream'[i - cut] = long[i]
      OBVIOUS
    <3>2. /\ i - cut \in (last' + 1)..Len(stream')
          /\ i - cut \in 1..(n + 1 - cut)
          /\ cut + (i - cut) = i
      BY <1>1, <1>7, <1>8, <1>9, <3>1
    <3>3. QED BY <1>9, <3>2
  <2>2. \A i \in (last + 1)..(n + 1) : long[i] \in Waiting' \/ long[i].task \in lost'
    BY <1>7, <2>1 DEF Waiting
  <2>3. n + 1 \in (last + 1)..(n + 1) /\ \A i \in (last + 1)..n : i \in (last + 1)..(n + 1) /\ i \in 1..n
    BY <1>1
  <2>4. e \in Waiting' \/ e.task \in lost'
    BY <1>3, <2>2, <2>3
  <2>5. \A i \in (last + 1)..n : stream[i] \in Waiting' \/ stream[i].task \in lost'
    BY <1>3, <2>2, <2>3
  <2>6. \A f \in Waiting \cup {e} : f \in Waiting' \/ f.task \in lost'
    BY <2>4, <2>5 DEF Waiting, n
  <2>7. QED BY <2>6 DEF TasksOf
<1>17. lost' # lost => n - last >= MaxLen
  <2>1. lost' # lost => last + 1 <= cut
    BY <1>1, <1>7, <1>8
  <2>2. QED BY <1>1, <1>3, <1>7, <1>8, <2>1, QueueAssumption
<1>18. QED
  BY <1>9, <1>10, <1>11, <1>12, <1>14, <1>15, <1>16, <1>17 DEF SentOnce, n
-----------------------------------------------------------------------------
(* Types *)

LEMMA RunsType ==
    ASSUME TypeOK, SlotsAreRuns, NEW k \in Worker, NEW e \in running[k]
    PROVE  slots[k] - 1 \in 0..Slots /\ e \in Entry
<1>1. IsFiniteSet(running[k]) /\ slots[k] = Cardinality(running[k])
  BY DEF SlotsAreRuns
<1>2. Cardinality(running[k] \ {e}) = Cardinality(running[k]) - 1
  BY <1>1, FS_RemoveElement
<1>3. Cardinality(running[k] \ {e}) \in Nat
  BY <1>1, FS_RemoveElement, FS_CardinalityType
<1>4. slots[k] \in 0..Slots /\ running[k] \subseteq Entry
  BY DEF TypeOK
<1>5. QED BY <1>1, <1>2, <1>3, <1>4, QueueAssumption

(* The entry of the next XADD is a new one. *)
LEMMA NextIsAhead ==
    ASSUME TypeOK, NotSentYet, NEW t \in unsent
    PROVE  /\ NextEntry(t) \in Entry
           /\ NextEntry(t).task = t /\ NextEntry(t).copy = unanswered[t]
           /\ NextEntry(t) \notin Sent
           /\ \A k \in Worker : ~Holds(k, NextEntry(t)) /\ NextEntry(t) \notin running[k]
<1>1. t \in Task /\ unanswered[t] \in 0..MaxFaults
  BY DEF TypeOK
<1> DEFINE e == [task |-> t, copy |-> unanswered[t]]
<1>2. e \in Entry /\ e.task = t /\ e.copy = unanswered[t]
  BY <1>1 DEF Entry
<1>3. Ahead(e)
  BY <1>2 DEF Ahead, ToSend
<1>4. QED BY <1>2, <1>3 DEF NotSentYet, NextEntry

LEMMA WebType ==
    ASSUME IInv,
           \/ \E t \in Task : Register(t) \/ Enqueue(t) \/ FinishInline(t)
           \/ WebDies
    PROVE  TypeOK'
<1> USE DEF TypeOK, Fault, NoFault, redisVars, workerVars, webVars, pastVars, bounds
<1>1. TypeOK /\ SentOnce /\ NotSentYet /\ FaultsCover
  BY DEF IInv, OnePlace
<1>2. ASSUME NEW t \in Task, Register(t) PROVE TypeOK'
  BY <1>1, <1>2 DEF Register
<1>3. ASSUME NEW t \in Task, Enqueue(t) PROVE TypeOK'
  <2>1. NextEntry(t) \in Entry /\ NextEntry(t) \notin Sent
    BY <1>1, <1>3, NextIsAhead DEF Enqueue
  <2>2. XAdd(NextEntry(t)) => /\ stream' \in Seq(Entry) /\ last' \in 0..Len(stream')
                              /\ lost' \subseteq Task
    BY <1>1, <2>1, XAddStep
  <2>3. GoLocal(t) => inline' \subseteq Task /\ starts' \in [Task -> Nat]
    BY <1>1 DEF GoLocal
  <2>4. faults' \in 0..MaxFaults /\ restarts' \in 0..MaxRestarts
    BY <1>1, <1>3, QueueAssumption DEF Enqueue
  <2>5. /\ stream' \in Seq(Entry) /\ last' \in 0..Len(stream')
        /\ lost' \subseteq Task
    BY <1>1, <1>3, <2>2 DEF Enqueue
  <2>6. inline' \subseteq Task /\ starts' \in [Task -> Nat]
    BY <1>1, <1>3, <2>3 DEF Enqueue
  <2>7. unanswered' \in [Task -> 0..MaxFaults]
    <3>1. \/ unanswered' = unanswered
          \/ faults < MaxFaults /\ unanswered' = [unanswered EXCEPT ![t] = @ + 1]
      BY <1>3 DEF Enqueue
    <3>2. unanswered[t] <= faults /\ unanswered[t] \in 0..MaxFaults /\ faults \in 0..MaxFaults
      BY <1>1 DEF FaultsCover
    <3>3. faults < MaxFaults => unanswered[t] + 1 \in 0..MaxFaults
      BY <3>2, QueueAssumption
    <3>4. QED BY <1>1, <3>1, <3>3
  <2>8. /\ unsent' \subseteq Task
        /\ UNCHANGED <<registered, group, acked, workerVars, written>>
    BY <1>1, <1>3 DEF Enqueue
  <2>9. QED BY <1>1, <2>4, <2>5, <2>6, <2>7, <2>8
<1>4. ASSUME NEW t \in Task, FinishInline(t) PROVE TypeOK'
  BY <1>1, <1>4, QueueAssumption DEF FinishInline, Outcome
<1>5. CASE WebDies
  BY <1>1, <1>5, QueueAssumption DEF WebDies
<1>6. QED BY <1>2, <1>3, <1>4, <1>5

LEMMA WorkerType ==
    ASSUME IInv, NEW k \in Worker,
           Start(k) \/ Loop(k) \/ Signal(k) \/ Crash(k) \/ \E e \in Entry : Finish(k, e)
    PROVE  TypeOK'
<1> USE DEF TypeOK, Fault, NoFault, redisVars, workerVars, webVars, pastVars, bounds,
            Goto
<1>1. TypeOK /\ HandsFull /\ SlotsAreRuns
  BY DEF IInv, OnePlace
<1>2. CASE Start(k)
  BY <1>1, <1>2 DEF Start
<1>3. CASE EnsureGroup(k)
  <2>1. last' \in 0..Len(stream')
    BY <1>1, <1>3, LenProperties DEF EnsureGroup
  <2>2. group' \in BOOLEAN
    BY <1>1, <1>3 DEF EnsureGroup
  <2>3. faults' \in 0..MaxFaults /\ restarts' \in 0..MaxRestarts
    BY <1>1, <1>3, QueueAssumption DEF EnsureGroup
  <2>4. /\ wpc' \in [Worker -> {"down", "boot", "loop", "read", "backoff", "hand",
                               "ack", "drain", "stopped"}]
        /\ UNCHANGED <<stream, acked, hand, stopping, slots, running, webVars, pastVars>>
    BY <1>1, <1>3 DEF EnsureGroup
  <2>5. QED BY <1>1, <2>1, <2>2, <2>3, <2>4
<1>4. CASE LoopTop(k)
  BY <1>1, <1>4 DEF LoopTop
<1>5. CASE Read(k)
  <2>1. last < Len(stream) => stream[last + 1] \in Entry /\ last + 1 \in 0..Len(stream)
    BY <1>1, ElementOfSeq, LenProperties
  <2>2. last' \in 0..Len(stream) /\ lost' \subseteq Task
    BY <1>1, <1>5, <2>1, EntryFields DEF Read
  <2>3. hand' \in [Worker -> Entry \cup {NoJob}]
    BY <1>1, <1>5, <2>1 DEF Read
  <2>4. wpc' \in [Worker -> {"down", "boot", "loop", "read", "backoff", "hand", "ack",
                            "drain", "stopped"}]
    BY <1>1, <1>5 DEF Read
  <2>5. faults' \in 0..MaxFaults /\ restarts' \in 0..MaxRestarts
    <3>1. UNCHANGED faults \/ (faults < MaxFaults /\ faults' = faults + 1)
      BY <1>5 DEF Read, Fault, NoFault
    <3>2. UNCHANGED restarts
      BY <1>5 DEF Read
    <3>3. QED BY <1>1, <3>1, <3>2, QueueAssumption
  <2>6. UNCHANGED <<stream, group, acked, stopping, slots, running, webVars, written,
                    starts, unanswered>>
    BY <1>5 DEF Read
  <2>7. QED BY <1>1, <2>2, <2>3, <2>4, <2>5, <2>6
<1>6. CASE Backoff(k)
  BY <1>1, <1>6 DEF Backoff
<1>7. CASE TakeSlot(k)
  <2>1. hand[k] \in Entry /\ hand[k].task \in Task
    BY <1>1, <1>7, EntryFields DEF TakeSlot, HandsFull
  <2>2. slots[k] + 1 \in 0..Slots
    BY <1>1, <1>7, QueueAssumption DEF TakeSlot
  <2>3. slots' \in [Worker -> 0..Slots] /\ running' \in [Worker -> SUBSET Entry]
    BY <1>1, <1>7, <2>1, <2>2 DEF TakeSlot
  <2>4. starts' \in [Task -> Nat]
    BY <1>1, <1>7, <2>1 DEF TakeSlot
  <2>5. /\ wpc' \in [Worker -> {"down", "boot", "loop", "read", "backoff", "hand",
                               "ack", "drain", "stopped"}]
        /\ UNCHANGED <<hand, stopping, webVars, redisVars, written, unanswered, lost, bounds>>
    BY <1>1, <1>7 DEF TakeSlot
  <2>6. QED BY <1>1, <2>3, <2>4, <2>5
<1>8. CASE DropAtStop(k)
  <2>1. hand[k] \in Entry /\ hand[k].task \in Task
    BY <1>1, <1>8, EntryFields DEF DropAtStop, HandsFull
  <2>2. QED BY <1>1, <1>8, <2>1 DEF DropAtStop
<1>9. CASE Ack(k)
  <2>1. hand[k] \in Entry
    BY <1>1, <1>9 DEF Ack, HandsFull
  <2>2. acked' \subseteq Entry
    BY <1>1, <1>9, <2>1 DEF Ack
  <2>3. faults' \in 0..MaxFaults /\ restarts' \in 0..MaxRestarts
    BY <1>1, <1>9, QueueAssumption DEF Ack
  <2>4. /\ hand' \in [Worker -> Entry \cup {NoJob}]
        /\ wpc' \in [Worker -> {"down", "boot", "loop", "read", "backoff", "hand",
                               "ack", "drain", "stopped"}]
        /\ UNCHANGED <<stream, last, group, stopping, slots, running, webVars, pastVars>>
    BY <1>1, <1>9 DEF Ack
  <2>5. QED BY <1>1, <2>2, <2>3, <2>4
<1>10. CASE Drain(k)
  BY <1>1, <1>10 DEF Drain
<1>11. CASE Signal(k)
  BY <1>1, <1>11, QueueAssumption DEF Signal
<1>12. CASE Crash(k)
  <2>1. lost' \subseteq Task
    BY <1>1, <1>12, EntryFields DEF Crash, TasksOf
  <2>2. /\ slots' \in [Worker -> 0..Slots]
        /\ running' \in [Worker -> SUBSET Entry]
        /\ hand' \in [Worker -> Entry \cup {NoJob}]
    BY <1>1, <1>12, QueueAssumption DEF Crash
  <2>3. QED BY <1>1, <1>12, <2>1, <2>2, QueueAssumption DEF Crash
<1>13. ASSUME NEW e \in Entry, Finish(k, e) PROVE TypeOK'
  <2>1. slots[k] - 1 \in 0..Slots
    BY <1>1, <1>13, RunsType DEF Finish
  <2>2. slots' \in [Worker -> 0..Slots] /\ running' \in [Worker -> SUBSET Entry]
    BY <1>1, <1>13, <2>1 DEF Finish
  <2>3. written' \subseteq Task /\ lost' \subseteq Task
    BY <1>1, <1>13, EntryFields DEF Finish, Outcome
  <2>4. faults' \in 0..MaxFaults /\ restarts' \in 0..MaxRestarts
    BY <1>1, <1>13, QueueAssumption DEF Finish, Outcome
  <2>5. UNCHANGED <<wpc, hand, stopping, webVars, redisVars, starts, unanswered>>
    BY <1>13 DEF Finish
  <2>6. QED BY <1>1, <2>2, <2>3, <2>4, <2>5
<1>14. QED
  BY <1>2, <1>3, <1>4, <1>5, <1>6, <1>7, <1>8, <1>9, <1>10, <1>11, <1>12, <1>13
  DEF Loop

LEMMA TypeStep == IInv /\ [Next]_vars => TypeOK'
<1> SUFFICES ASSUME IInv, [Next]_vars PROVE TypeOK'
  OBVIOUS
<1>1. TypeOK
  BY DEF IInv
<1>2. CASE UNCHANGED vars
  BY <1>1, <1>2 DEF vars, TypeOK
<1>3. CASE RedisRestart
  <2>1. stream' = <<>> /\ stream' \in Seq(Entry) /\ Len(stream') = 0
    BY <1>3, EmptySeq DEF RedisRestart
  <2>2. Waiting \subseteq Entry
    <3>1. \A i \in 1..Len(stream) : stream[i] \in Entry
      BY <1>1, ElementOfSeq DEF TypeOK
    <3>2. \A i \in (last + 1)..Len(stream) : i \in 1..Len(stream)
      BY <1>1, LenProperties DEF TypeOK
    <3>3. QED BY <3>1, <3>2 DEF Waiting
  <2>3. last' \in 0..Len(stream') /\ restarts' \in 0..MaxRestarts
    BY <1>1, <1>3, <2>1, QueueAssumption DEF RedisRestart, TypeOK
  <2>4. group' \in BOOLEAN
    BY <1>3 DEF RedisRestart
  <2>5. lost' \subseteq Task
    BY <1>1, <1>3, <2>2, EntryFields DEF RedisRestart, TypeOK, TasksOf
  <2>6. UNCHANGED <<acked, workerVars, webVars, written, starts, unanswered, faults>>
    BY <1>3 DEF RedisRestart
  <2>7. QED
    BY <1>1, <2>1, <2>3, <2>4, <2>5, <2>6 DEF TypeOK, workerVars, webVars
<1>4. QED BY <1>2, <1>3, WebType, WorkerType DEF Next
-----------------------------------------------------------------------------
(* One place at a time *)

LEMMA ReadStep ==
    ASSUME TypeOK, SentOnce, last < Len(stream), stream' = stream, last' = last + 1
    PROVE  /\ stream[last + 1] \in Entry
           /\ Waiting = Waiting' \cup {stream[last + 1]}
           /\ stream[last + 1] \notin Waiting'
<1>1. Len(stream) \in Nat /\ last \in 0..Len(stream)
  BY LenProperties DEF TypeOK
<1>2. last + 1 \in 1..Len(stream) /\ stream[last + 1] \in Entry
  BY <1>1, ElementOfSeq DEF TypeOK
<1>3. Waiting' = {stream[i] : i \in (last + 1 + 1)..Len(stream)}
  BY DEF Waiting
<1>4. (last + 1)..Len(stream) = {last + 1} \cup ((last + 1 + 1)..Len(stream))
  BY <1>1
<1>5. Waiting = Waiting' \cup {stream[last + 1]}
  BY <1>3, <1>4 DEF Waiting
<1>6. \A i \in (last + 1 + 1)..Len(stream) : i \in 1..Len(stream) /\ i # last + 1
  BY <1>1
<1>7. stream[last + 1] \notin Waiting'
  BY <1>2, <1>3, <1>6 DEF SentOnce
<1>8. QED BY <1>2, <1>5, <1>7

LEMMA WaitingIsSent == TypeOK => Waiting \subseteq Sent
<1> SUFFICES ASSUME TypeOK PROVE Waiting \subseteq Sent
  OBVIOUS
<1>1. \A i \in (last + 1)..Len(stream) : i \in 1..Len(stream)
  BY LenProperties DEF TypeOK
<1>2. QED BY <1>1 DEF Waiting, Sent

(* A step that moves no job keeps every job in one place. *)
LEMMA Quiet ==
    ASSUME IInv, HandsFull',
           UNCHANGED <<registered, stream, last, running, slots, starts, unanswered>>,
           unsent' \subseteq unsent,
           ~group' => last = 0,
           \A m \in Worker, e \in Entry : Holds(m, e)' => Holds(m, e)
    PROVE  OnePlace'
<1> USE DEF IInv, OnePlace
<1>1. Waiting' = Waiting /\ Sent' = Sent
  BY DEF Waiting, Sent
<1>2. NothingDelivered' /\ SentOnce'
  BY DEF NothingDelivered, SentOnce
<1>3. NotSentYet'
  <2>1. \A e \in Entry : Ahead(e)' => Ahead(e)
    BY DEF Ahead, ToSend
  <2>2. QED BY <1>1, <2>1 DEF NotSentYet
<1>4. DeliveredOnce'
  BY <1>1 DEF DeliveredOnce
<1>5. BegunOnce'
  <2>1. \A e \in Entry : Before(e)' => Before(e)
    BY <1>1 DEF Before
  <2>2. \A t \in Task : ToSend(t)' => ToSend(t)
    BY DEF ToSend
  <2>3. \A t \in Task : Count(t)'
    BY <2>1, <2>2, CountStays DEF BegunOnce
  <2>4. QED BY <2>3 DEF BegunOnce
<1>6. SlotsAreRuns'
  BY DEF SlotsAreRuns
<1>7. QED BY <1>2, <1>3, <1>4, <1>5, <1>6

LEMMA EnqueuePlace ==
    ASSUME IInv, NEW t \in Task, Enqueue(t)
    PROVE  OnePlace'
<1>1. TypeOK /\ OnePlace /\ SentOnce /\ NotSentYet /\ HandsFull
  BY DEF IInv, OnePlace
<1>2. /\ t \in unsent /\ unsent' \in {unsent, unsent \ {t}}
      /\ UNCHANGED <<registered, group, wpc, hand, slots, running>>
  BY DEF Enqueue, workerVars
<1>3. PICK e \in Entry :
        /\ e = NextEntry(t) /\ e.task = t /\ e.copy = unanswered[t]
        /\ e \notin Sent
        /\ \A k \in Worker : ~Holds(k, e) /\ e \notin running[k]
  BY <1>1, <1>2, NextIsAhead
<1>4. \/ XAdd(e)
      \/ UNCHANGED <<stream, last, lost, unanswered>> /\ faults' # faults
  BY <1>1, <1>3 DEF Enqueue, Fault, TypeOK
<1>5. /\ last = 0 => last' = 0
      /\ SentOnce'
      /\ Sent' \subseteq Sent \cup {e}
      /\ Waiting' \subseteq Waiting \cup {e}
      /\ UNCHANGED <<stream, last>> => Sent' = Sent /\ Waiting' = Waiting
  <2>1. UNCHANGED <<stream, last>> => Sent' = Sent /\ Waiting' = Waiting
    BY DEF Sent, Waiting
  <2>2. CASE XAdd(e)
    BY <1>1, <1>3, <2>1, <2>2, XAddStep
  <2>3. CASE UNCHANGED <<stream, last, lost, unanswered>>
    BY <1>1, <2>1, <2>3 DEF SentOnce
  <2>4. QED BY <1>4, <2>2, <2>3
<1>6. \A m \in Worker, f \in Entry : Holds(m, f)' <=> Holds(m, f)
  BY <1>2 DEF Holds
<1>7. /\ \A u \in Task \ {t} : /\ starts'[u] = starts[u]
                               /\ unanswered'[u] = unanswered[u]
                               /\ ToSend(u)' <=> ToSend(u)
      /\ ToSend(t)
      /\ \/ /\ ~ToSend(t)' /\ starts'[t] = starts[t]
            /\ unanswered'[t] = unanswered[t]
         \/ /\ unanswered'[t] = unanswered[t] + 1
            /\ \/ ToSend(t)' /\ starts'[t] = starts[t]
               \/ ~ToSend(t)' /\ starts'[t] = starts[t] + 1
         \/ /\ UNCHANGED <<stream, last>>
            /\ unanswered'[t] = unanswered[t]
            /\ \/ ToSend(t)' /\ starts'[t] = starts[t]
               \/ ~ToSend(t)' /\ starts'[t] = starts[t] + 1
  <2>1. unsent \subseteq registered
    BY <1>1 DEF OnePlace, BegunOnce
  <2>2. /\ ToSend(t) /\ (unsent' = unsent => ToSend(t)')
        /\ (unsent' = unsent \ {t} => ~ToSend(t)')
    BY <1>2, <2>1 DEF ToSend
  <2>3. \A u \in Task \ {t} : ToSend(u)' <=> ToSend(u)
    BY <1>2 DEF ToSend
  <2>4. \A u \in Task \ {t} : starts'[u] = starts[u] /\ unanswered'[u] = unanswered[u]
    BY <1>1 DEF Enqueue, GoLocal, TypeOK
  <2>5. \/ unsent' = unsent \ {t} /\ starts' = starts /\ unanswered' = unanswered
        \/ /\ unanswered' = [unanswered EXCEPT ![t] = @ + 1]
           /\ \/ unsent' = unsent /\ starts' = starts
              \/ unsent' = unsent \ {t} /\ starts' = [starts EXCEPT ![t] = @ + 1]
        \/ /\ UNCHANGED <<stream, last, unanswered>>
           /\ \/ unsent' = unsent /\ starts' = starts
              \/ unsent' = unsent \ {t} /\ starts' = [starts EXCEPT ![t] = @ + 1]
    BY DEF Enqueue, GoLocal
  <2>6. QED BY <1>1, <2>2, <2>3, <2>4, <2>5 DEF TypeOK
<1>8. NothingDelivered' /\ HandsFull' /\ SlotsAreRuns'
  BY <1>1, <1>2, <1>5 DEF OnePlace, NothingDelivered, HandsFull, SlotsAreRuns
<1>9. NotSentYet'
  <2>1. SUFFICES ASSUME NEW f \in Entry, Ahead(f)'
                 PROVE  /\ f \notin Sent'
                        /\ \A k \in Worker : ~Holds(k, f)' /\ f \notin running'[k]
    BY DEF NotSentYet
  <2>2. f.task \in Task /\ f.copy \in Nat /\ unanswered[f.task] \in Nat
    BY <1>1, EntryFields, QueueAssumption DEF TypeOK
  <2>3. Ahead(f) /\ (f # e \/ UNCHANGED <<stream, last>>)
    <3>1. CASE f.task # t
      BY <1>3, <1>7, <2>1, <2>2, <3>1 DEF Ahead
    <3>2. CASE f.task = t
      BY <1>3, <1>7, <2>1, <2>2, <3>2 DEF Ahead
    <3>3. QED BY <3>1, <3>2
  <2>4. QED BY <1>1, <1>2, <1>5, <1>6, <2>3 DEF NotSentYet
<1>10. DeliveredOnce'
  BY <1>1, <1>2, <1>3, <1>5, <1>6 DEF OnePlace, DeliveredOnce
<1>11. BegunOnce'
  <2>1. unsent' \subseteq registered'
    BY <1>1, <1>2 DEF OnePlace, BegunOnce
  <2>2. \A f \in Entry : Before(f)' => Before(f) \/ (f = e /\ ~UNCHANGED <<stream, last>>)
    BY <1>5, <1>6 DEF Before
  <2>3. ASSUME NEW u \in Task, u # t PROVE Count(u)'
    <3>1. \A f \in Entry : f.task = u /\ Before(f)' => Before(f)
      BY <1>3, <2>2, <2>3
    <3>2. Count(u)
      BY <1>1 DEF OnePlace, BegunOnce
    <3>3. QED BY <1>1, <1>7, <2>3, <3>1, <3>2, CountStays
  <2>4. Count(t)'
    <3> DEFINE P == Pending(t)
    <3>1. /\ Pending(t)' \subseteq P \cup {e.copy}
          /\ UNCHANGED <<stream, last>> => Pending(t)' \subseteq P
      BY <1>3, <2>2, EntryFields DEF Pending
    <3>2. /\ IsFiniteSet(P) /\ Cardinality(P) \in Nat
          /\ Cardinality(Pending(t)') \in Nat
      BY PendingFinite
    <3>3. /\ Cardinality(P \cup {e.copy}) <= Cardinality(P) + 1
          /\ IsFiniteSet(P \cup {e.copy})
          /\ Cardinality(P \cup {e.copy}) \in Nat
      BY <3>2, OneMore
    <3>4. /\ Cardinality(Pending(t)') <= Cardinality(P \cup {e.copy})
          /\ UNCHANGED <<stream, last>> => Cardinality(Pending(t)') <= Cardinality(P)
      BY <3>1, <3>2, <3>3, FS_Subset
    <3>5. starts[t] + Cardinality(P) + 1 <= 1 + unanswered[t]
      BY <1>1, <1>7 DEF OnePlace, BegunOnce, Count
    <3>6. starts[t] \in Nat /\ unanswered[t] \in Nat
      BY <1>1, QueueAssumption DEF TypeOK
    <3> DEFINE after == IF ToSend(t)' THEN 1 ELSE 0
    <3>7. (ToSend(t)' => after = 1) /\ (~ToSend(t)' => after = 0)
      OBVIOUS
    <3> HIDE DEF P, after
    <3>8. starts'[t] + Cardinality(Pending(t)') + after <= 1 + unanswered'[t]
      BY <1>7, <3>2, <3>3, <3>4, <3>5, <3>6, <3>7
    <3>9. QED BY <3>8 DEF Count, after
  <2>5. QED BY <2>1, <2>3, <2>4 DEF BegunOnce
<1>12. QED
  BY <1>5, <1>8, <1>9, <1>10, <1>11 DEF OnePlace

LEMMA ReadPlace ==
    ASSUME IInv, NEW k \in Worker, Read(k)
    PROVE  OnePlace'
<1>1. TypeOK /\ OnePlace /\ SentOnce /\ HandsFull
  BY DEF IInv, OnePlace
<1>2. /\ UNCHANGED <<registered, unsent, stream, group, slots, running, starts, unanswered>>
      /\ wpc[k] = "read"
  BY DEF Read, webVars
<1>3. CASE last' = last /\ hand' = hand
  <2>1. wpc'[k] # "hand" /\ wpc' = [wpc EXCEPT ![k] = wpc'[k]] /\ wpc'[k] # "ack"
    BY <1>1, <1>3 DEF Read, Goto, TypeOK
  <2>2. \A m \in Worker, e \in Entry : Holds(m, e)' => Holds(m, e)
    BY <1>1, <1>3, <2>1 DEF Holds, TypeOK
  <2>3. HandsFull'
    BY <1>1, <1>3, <2>1 DEF HandsFull, TypeOK
  <2>4. QED
    BY <1>1, <1>2, <1>3, <2>2, <2>3, Quiet DEF OnePlace, NothingDelivered
<1>4. CASE ~(last' = last /\ hand' = hand)
  <2> DEFINE job == stream[last + 1]
  <2>1. /\ group /\ last < Len(stream) /\ last' = last + 1
        /\ \/ hand' = [hand EXCEPT ![k] = job] /\ wpc' = [wpc EXCEPT ![k] = "hand"]
           \/ hand' = hand /\ wpc' = [wpc EXCEPT ![k] = wpc'[k]]
              /\ wpc'[k] \in {"read", "loop", "backoff"}
    BY <1>1, <1>4 DEF Read, Goto, TypeOK
  <2>2. /\ job \in Entry
        /\ Waiting = Waiting' \cup {job}
        /\ job \notin Waiting'
    BY <1>1, <1>2, <2>1, ReadStep
  <2> HIDE DEF job
  <2>3. \A m \in Worker, e \in Entry :
           Holds(m, e)' => Holds(m, e) \/ (m = k /\ e = job)
    BY <1>1, <2>1 DEF Holds, TypeOK
  <2>4. NothingDelivered' /\ SentOnce' /\ SlotsAreRuns'
    BY <1>1, <1>2, <2>1 DEF OnePlace, NothingDelivered, SentOnce, SlotsAreRuns
  <2>5. HandsFull'
    BY <1>1, <2>1, <2>2 DEF HandsFull, TypeOK
  <2>6. Sent' = Sent /\ job \in Sent
    BY <1>1, <1>2, <2>2, WaitingIsSent DEF Sent
  <2>7. NotSentYet'
    BY <1>1, <1>2, <2>3, <2>6 DEF OnePlace, NotSentYet, Ahead, ToSend
  <2>8. DeliveredOnce'
    BY <1>1, <1>2, <2>2, <2>3 DEF OnePlace, DeliveredOnce
  <2>9. BegunOnce'
    <3>1. \A e \in Entry : Before(e)' => Before(e)
      BY <2>2, <2>3 DEF Before
    <3>2. QED BY <1>1, <1>2, <3>1, CountStays DEF OnePlace, BegunOnce, ToSend
  <2>10. QED BY <2>4, <2>5, <2>7, <2>8, <2>9 DEF OnePlace
<1>5. QED BY <1>3, <1>4

LEMMA TakeSlotPlace ==
    ASSUME IInv, NEW k \in Worker, TakeSlot(k)
    PROVE  OnePlace'
<1>1. TypeOK /\ OnePlace /\ SentOnce /\ HandsFull /\ SlotsAreRuns
  BY DEF IInv, OnePlace
<1>2. PICK job \in Entry : job = hand[k]
  BY <1>1 DEF TakeSlot, HandsFull
<1>3. /\ wpc[k] = "hand" /\ wpc' = [wpc EXCEPT ![k] = "ack"]
      /\ slots' = [slots EXCEPT ![k] = @ + 1]
      /\ running' = [running EXCEPT ![k] = @ \cup {job}]
      /\ starts' = [starts EXCEPT ![job.task] = @ + 1]
      /\ UNCHANGED <<registered, unsent, stream, last, group, hand, unanswered>>
  BY <1>2 DEF TakeSlot, Goto, webVars, redisVars
<1>4. job \in Entry /\ job.task \in Task /\ Holds(k, job)
  BY <1>2, <1>3, EntryFields DEF Holds
<1>5. /\ job \notin Waiting /\ ~Ahead(job)
      /\ \A m \in Worker : job \notin running[m] /\ (Holds(m, job) => m = k)
  BY <1>1, <1>4 DEF OnePlace, DeliveredOnce, NotSentYet
<1>6. \A m \in Worker, e \in Entry : Holds(m, e)' => Holds(m, e) /\ m # k
  BY <1>1, <1>3 DEF Holds, TypeOK
<1>7. Waiting' = Waiting /\ Sent' = Sent
  BY <1>3 DEF Waiting, Sent
<1>8. NothingDelivered' /\ SentOnce'
  BY <1>1, <1>3 DEF OnePlace, NothingDelivered, SentOnce
<1>9. HandsFull'
  BY <1>2, <1>1, <1>3 DEF HandsFull, TypeOK
<1>10. \A e \in Entry, m \in Worker : e \in running'[m] => e \in running[m] \/ e = job
  BY <1>1, <1>3 DEF TypeOK
<1>11. \A t \in Task : t # job.task => starts'[t] = starts[t]
  BY <1>1, <1>3 DEF TypeOK
<1>12. NotSentYet'
  <2>1. \A e \in Entry : Ahead(e)' => Ahead(e)
    BY <1>3 DEF Ahead, ToSend
  <2>2. QED
    BY <1>1, <1>5, <1>6, <1>7, <1>10, <2>1 DEF OnePlace, NotSentYet
<1>13. \A m \in Worker : ~Holds(m, job)'
  BY <1>4, <1>5, <1>6
<1>14. DeliveredOnce'
  BY <1>1, <1>5, <1>6, <1>7, <1>10, <1>13 DEF OnePlace, DeliveredOnce
<1>15. BegunOnce'
  <2>1. \A e \in Entry : Before(e)' => Before(e) /\ e # job
    BY <1>5, <1>6, <1>7, <1>13 DEF Before
  <2>2. unsent' \subseteq registered' /\ \A t \in Task : ToSend(t)' <=> ToSend(t)
    BY <1>1, <1>3 DEF OnePlace, BegunOnce, ToSend
  <2>3. ASSUME NEW t \in Task, t # job.task PROVE Count(t)'
    BY <1>1, <1>3, <1>11, <2>1, <2>2, <2>3, CountStays DEF OnePlace, BegunOnce
  <2>4. PICK u \in Task : u = job.task
    BY <1>4
  <2>5. Count(u)'
    <3> DEFINE P == Pending(u)
    <3>1. job = [task |-> u, copy |-> job.copy] /\ job.copy \in 0..MaxFaults
      BY <1>4, <2>4, EntryFields
    <3>2. job.copy \in P
      BY <1>4, <3>1 DEF Pending, Before
    <3>3. Pending(u)' \subseteq P \ {job.copy}
      BY <2>1, <3>1, EntryFields DEF Pending
    <3>4. /\ IsFiniteSet(P) /\ Cardinality(P) \in Nat
          /\ Cardinality(Pending(u)') \in Nat
      BY PendingFinite
    <3>5. /\ IsFiniteSet(P \ {job.copy})
          /\ Cardinality(P \ {job.copy}) = Cardinality(P) - 1
      BY <3>2, <3>4, FS_RemoveElement
    <3>6. Cardinality(Pending(u)') <= Cardinality(P \ {job.copy})
      BY <3>3, <3>5, FS_Subset
    <3> DEFINE now == IF ToSend(u) THEN 1 ELSE 0
    <3>7. now \in {0, 1} /\ starts[u] + Cardinality(P) + now <= 1 + unanswered[u]
      BY <1>1 DEF OnePlace, BegunOnce, Count
    <3>8. starts'[u] = starts[u] + 1 /\ unanswered' = unanswered
          /\ starts[u] \in Nat /\ unanswered[u] \in Nat
      BY <1>1, <1>3, <2>4, QueueAssumption DEF TypeOK
    <3>9. now = IF ToSend(u)' THEN 1 ELSE 0
      BY <2>2
    <3> HIDE DEF P, now
    <3>10. starts'[u] + Cardinality(Pending(u)') + now <= 1 + unanswered'[u]
      BY <3>4, <3>5, <3>6, <3>7, <3>8
    <3>11. QED BY <3>9, <3>10 DEF Count
  <2>6. QED BY <2>2, <2>3, <2>4, <2>5 DEF BegunOnce
<1>16. SlotsAreRuns'
  <2>1. job \notin running[k] /\ IsFiniteSet(running[k])
    BY <1>1, <1>5 DEF SlotsAreRuns
  <2>2. /\ IsFiniteSet(running[k] \cup {job})
        /\ Cardinality(running[k] \cup {job}) = Cardinality(running[k]) + 1
    BY <2>1, FS_AddElement
  <2>3. QED BY <1>1, <1>3, <2>2 DEF SlotsAreRuns, TypeOK
<1>17. QED BY <1>8, <1>9, <1>12, <1>14, <1>15, <1>16 DEF OnePlace

(* A worker stops holding or running jobs; the other workers go on. *)
LEMMA LeavePlace ==
    ASSUME IInv, NEW k \in Worker,
           Crash(k) \/ \E e \in Entry : Finish(k, e)
    PROVE  OnePlace'
<1>1. TypeOK /\ OnePlace /\ SentOnce /\ HandsFull /\ SlotsAreRuns
  BY DEF IInv, OnePlace
<1>2. UNCHANGED <<registered, unsent, stream, last, group, starts, unanswered>>
  BY DEF Crash, Finish, webVars, redisVars
<1>3. Waiting' = Waiting /\ Sent' = Sent
  BY <1>2 DEF Waiting, Sent
<1>4. \A m \in Worker, e \in Entry : Holds(m, e)' => Holds(m, e)
  BY <1>1 DEF Holds, TypeOK, Crash, Finish, Goto
<1>5. \A m \in Worker : running'[m] \subseteq running[m]
  <2>1. running \in [Worker -> SUBSET Entry]
    BY <1>1 DEF TypeOK
  <2>2. \/ running' = [running EXCEPT ![k] = {}]
        \/ \E e \in Entry : running' = [running EXCEPT ![k] = @ \ {e}]
    BY DEF Crash, Finish
  <2>3. QED BY <2>1, <2>2
<1>6. NothingDelivered' /\ SentOnce'
  BY <1>1, <1>2 DEF OnePlace, NothingDelivered, SentOnce
<1>7. HandsFull'
  BY <1>1 DEF HandsFull, TypeOK, Crash, Finish, Goto
<1>8. NotSentYet' /\ DeliveredOnce'
  BY <1>1, <1>2, <1>3, <1>4, <1>5 DEF OnePlace, NotSentYet, DeliveredOnce, Ahead, ToSend
<1>9. BegunOnce'
  <2>1. \A e \in Entry : Before(e)' => Before(e)
    BY <1>3, <1>4 DEF Before
  <2>2. QED BY <1>1, <1>2, <2>1, CountStays DEF OnePlace, BegunOnce, ToSend
<1>10. SlotsAreRuns'
  <2>1. CASE Crash(k)
    BY <1>1, <2>1, FS_EmptySet DEF Crash, SlotsAreRuns, TypeOK
  <2>2. ASSUME NEW e \in Entry, Finish(k, e) PROVE SlotsAreRuns'
    <3>1. /\ e \in running[k]
          /\ running' = [running EXCEPT ![k] = @ \ {e}]
          /\ slots' = [slots EXCEPT ![k] = @ - 1]
      BY <2>2 DEF Finish
    <3>2. IsFiniteSet(running[k])
      BY <1>1 DEF SlotsAreRuns
    <3>3. /\ IsFiniteSet(running[k] \ {e})
          /\ Cardinality(running[k] \ {e}) = Cardinality(running[k]) - 1
      BY <3>1, <3>2, FS_RemoveElement
    <3>4. QED BY <1>1, <3>1, <3>3 DEF SlotsAreRuns, TypeOK
  <2>3. QED BY <2>1, <2>2
<1>11. QED BY <1>6, <1>7, <1>8, <1>9, <1>10 DEF OnePlace

LEMMA RegisterPlace ==
    ASSUME IInv, NEW t \in Task, Register(t)
    PROVE  OnePlace'
<1>1. TypeOK /\ OnePlace
  BY DEF IInv
<1>2. /\ t \notin registered
      /\ registered' = registered \cup {t} /\ unsent' = unsent \cup {t}
      /\ UNCHANGED <<stream, last, group, wpc, hand, running, slots, starts, unanswered>>
  BY DEF Register, redisVars, workerVars, pastVars
<1>3. /\ Waiting' = Waiting /\ Sent' = Sent
      /\ \A m \in Worker, e \in Entry : Holds(m, e)' <=> Holds(m, e)
  BY <1>2 DEF Waiting, Sent, Holds
<1>4. NothingDelivered' /\ SentOnce' /\ HandsFull' /\ SlotsAreRuns'
  BY <1>1, <1>2
  DEF OnePlace, NothingDelivered, SentOnce, HandsFull, SlotsAreRuns
<1>5. NotSentYet' /\ DeliveredOnce'
  BY <1>1, <1>2, <1>3 DEF OnePlace, NotSentYet, DeliveredOnce, Ahead, ToSend
<1>6. BegunOnce'
  <2>1. \A e \in Entry : Before(e)' => Before(e)
    BY <1>3 DEF Before
  <2>2. QED BY <1>1, <1>2, <2>1, CountStays DEF OnePlace, BegunOnce, ToSend
<1>7. QED BY <1>4, <1>5, <1>6 DEF OnePlace

LEMMA RestartPlace ==
    ASSUME IInv, RedisRestart
    PROVE  OnePlace'
<1>1. TypeOK /\ OnePlace
  BY DEF IInv
<1>2. /\ stream' = <<>> /\ last' = 0
      /\ UNCHANGED <<registered, unsent, wpc, hand, running, slots, starts, unanswered>>
  BY DEF RedisRestart, workerVars, webVars
<1>3. Len(stream') = 0
  BY <1>2, EmptySeq
<1>4. /\ Waiting' = {} /\ Sent' = {}
      /\ \A m \in Worker, e \in Entry : Holds(m, e)' <=> Holds(m, e)
  BY <1>2, <1>3 DEF Waiting, Sent, Holds
<1>5. NothingDelivered' /\ SentOnce' /\ HandsFull' /\ SlotsAreRuns'
  BY <1>1, <1>2, <1>3
  DEF OnePlace, NothingDelivered, SentOnce, HandsFull, SlotsAreRuns
<1>6. NotSentYet' /\ DeliveredOnce'
  BY <1>1, <1>2, <1>4 DEF OnePlace, NotSentYet, DeliveredOnce, Ahead, ToSend
<1>7. BegunOnce'
  <2>1. \A e \in Entry : Before(e)' => Before(e)
    BY <1>4 DEF Before
  <2>2. QED BY <1>1, <1>2, <2>1, CountStays DEF OnePlace, BegunOnce, ToSend
<1>8. QED BY <1>5, <1>6, <1>7 DEF OnePlace

LEMMA QuietPlace ==
    ASSUME IInv,
           \/ WebDies
           \/ \E t \in Task : FinishInline(t)
           \/ \E k \in Worker : \/ Start(k) \/ EnsureGroup(k) \/ LoopTop(k)
                                \/ Backoff(k) \/ DropAtStop(k) \/ Ack(k)
                                \/ Drain(k) \/ Signal(k)
    PROVE  OnePlace'
<1>1. TypeOK /\ NothingDelivered /\ HandsFull
  BY DEF IInv, OnePlace
<1> USE DEF redisVars, workerVars, webVars, pastVars, Goto
<1>2. CASE WebDies \/ \E t \in Task : FinishInline(t)
  <2>1. /\ UNCHANGED <<registered, redisVars, workerVars, starts, unanswered>>
        /\ unsent' \subseteq unsent
    BY <1>2 DEF WebDies, FinishInline
  <2>2. HandsFull' /\ \A m \in Worker, e \in Entry : Holds(m, e)' => Holds(m, e)
    BY <1>1, <2>1 DEF HandsFull, Holds
  <2>3. QED BY <1>1, <2>1, <2>2, Quiet DEF NothingDelivered
<1>3. ASSUME NEW k \in Worker,
             \/ Start(k) \/ LoopTop(k) \/ Backoff(k) \/ DropAtStop(k) \/ Ack(k)
             \/ Drain(k) \/ Signal(k)
      PROVE  OnePlace'
  <2>1. UNCHANGED <<registered, unsent, stream, last, group, running, slots, starts, unanswered>>
    BY <1>3 DEF Start, LoopTop, Backoff, DropAtStop, Ack, Drain, Signal
  <2>2. \/ wpc' = wpc /\ hand' = hand
        \/ /\ wpc' = [wpc EXCEPT ![k] = wpc'[k]] /\ wpc'[k] \notin {"hand", "ack"}
           /\ hand' = [hand EXCEPT ![k] = hand'[k]]
        \/ /\ wpc' = [wpc EXCEPT ![k] = "ack"] /\ wpc[k] = "hand"
           /\ hand' = hand
    <3>1. CASE Signal(k)
      BY <3>1 DEF Signal
    <3>2. CASE DropAtStop(k)
      BY <3>2 DEF DropAtStop
    <3>3. CASE Ack(k)
      BY <1>1, <3>3 DEF Ack, TypeOK
    <3>4. CASE Start(k) \/ LoopTop(k) \/ Backoff(k) \/ Drain(k)
      BY <1>1, <3>4 DEF Start, LoopTop, Backoff, Drain, TypeOK
    <3>5. QED BY <1>3, <3>1, <3>2, <3>3, <3>4
  <2>3. \A m \in Worker, e \in Entry : Holds(m, e)' => Holds(m, e)
    BY <1>1, <2>2 DEF Holds, TypeOK
  <2>4. HandsFull'
    BY <1>1, <2>2 DEF HandsFull, TypeOK
  <2>5. QED BY <1>1, <2>1, <2>3, <2>4, Quiet DEF NothingDelivered
<1>4. ASSUME NEW k \in Worker, EnsureGroup(k) PROVE OnePlace'
  <2>1. /\ UNCHANGED <<registered, unsent, stream, hand, running, slots, starts, unanswered>>
        /\ last' = last
        /\ group => group'
    BY <1>1, <1>4 DEF EnsureGroup, NothingDelivered
  <2>2. /\ wpc' = [wpc EXCEPT ![k] = wpc'[k]]
        /\ wpc'[k] \notin {"hand", "ack"}
    BY <1>1, <1>4 DEF EnsureGroup, TypeOK
  <2>3. \A m \in Worker, e \in Entry : Holds(m, e)' => Holds(m, e)
    BY <1>1, <2>1, <2>2 DEF Holds, TypeOK
  <2>4. HandsFull'
    BY <1>1, <2>1, <2>2 DEF HandsFull, TypeOK
  <2>5. QED BY <1>1, <2>1, <2>3, <2>4, Quiet DEF NothingDelivered
<1>5. QED BY <1>2, <1>3, <1>4

LEMMA PlaceStep == IInv /\ [Next]_vars => OnePlace'
<1> SUFFICES ASSUME IInv, [Next]_vars PROVE OnePlace'
  OBVIOUS
<1>1. CASE UNCHANGED vars
  <2>1. UNCHANGED <<registered, unsent, stream, last, group, running, slots, starts,
                    unanswered, wpc, hand>>
    BY <1>1 DEF vars
  <2>2. HandsFull' /\ \A m \in Worker, e \in Entry : Holds(m, e)' => Holds(m, e)
    BY <2>1 DEF IInv, OnePlace, HandsFull, Holds
  <2>3. QED BY <2>1, <2>2, Quiet DEF IInv, OnePlace, NothingDelivered
<1>2. CASE Next
  BY <1>2, EnqueuePlace, ReadPlace, TakeSlotPlace, LeavePlace, RegisterPlace,
     RestartPlace, QuietPlace DEF Next, Loop
<1>3. QED BY <1>1, <1>2

LEMMA FaultsStep == IInv /\ [Next]_vars => FaultsCover'
<1> SUFFICES ASSUME IInv, [Next]_vars, NEW u \in Task
             PROVE  unanswered'[u] <= faults'
  BY DEF FaultsCover
<1>1. TypeOK /\ unanswered[u] <= faults
  BY DEF IInv, FaultsCover
<1> USE DEF Fault, NoFault, bounds
<1>2. ASSUME NEW t \in Task, Enqueue(t) PROVE unanswered'[u] <= faults'
  <2>1. \/ UNCHANGED <<unanswered, faults>>
        \/ faults' = faults + 1 /\ UNCHANGED unanswered
        \/ faults' = faults + 1 /\ unanswered' = [unanswered EXCEPT ![t] = @ + 1]
    BY <1>2 DEF Enqueue
  <2>2. QED BY <1>1, <2>1, QueueAssumption DEF TypeOK
<1>3. CASE UNCHANGED unanswered /\ faults' \in {faults, faults + 1}
  BY <1>1, <1>3, QueueAssumption DEF TypeOK
<1>4. \/ \E t \in Task : Enqueue(t)
      \/ UNCHANGED unanswered /\ faults' \in {faults, faults + 1}
  BY DEF Next, Loop, vars, pastVars, Register, FinishInline, Outcome, WebDies, Start,
         EnsureGroup, LoopTop, Read, Backoff, TakeSlot, DropAtStop, Ack, Drain, Signal,
         Crash, Finish, RedisRestart
<1>5. QED BY <1>2, <1>3, <1>4

LEMMA Inductive == Spec => []IInv
<1>1. IInv /\ [Next]_vars => IInv'
  BY TypeStep, PlaceStep, FaultsStep DEF IInv
<1>2. QED BY Invariant0, <1>1, PTL DEF Spec

(* Every variable keeps to its kind; in particular the slots channel of a  *)
(* worker never holds more tokens than WORKER_MAX_IN_FLIGHT nor fewer than *)
(* none, however its runs start, end, and die.                             *)
THEOREM TypeCorrect == Spec => []TypeOK
<1>1. IInv => TypeOK
  BY DEF IInv
<1>2. QED BY Inductive, <1>1, PTL

(* For any number of workers, restarts of them and restarts of Redis, a    *)
(* task is run once, and once more for each XADD of it that was executed   *)
(* without its answer arriving, whether the client sent it again or gave   *)
(* up.                                                                     *)
THEOREM NeverRunTwice == Spec => []NoSecondRun
<1>1. IInv => NoSecondRun
  <2> SUFFICES ASSUME IInv, NEW t \in Task PROVE starts[t] <= 1 + unanswered[t]
    BY DEF NoSecondRun
  <2>1. Count(t) /\ starts[t] \in Nat /\ unanswered[t] \in Nat
    BY QueueAssumption DEF IInv, OnePlace, BegunOnce, TypeOK
  <2>2. Cardinality(Pending(t)) \in Nat
    BY PendingFinite
  <2>3. QED BY <2>1, <2>2 DEF Count
<1>2. QED BY Inductive, <1>1, PTL
-----------------------------------------------------------------------------
LEMMA LossStep ==
    ASSUME IInv, [Next]_vars, lost' # lost, UNCHANGED bounds
    PROVE  Len(stream) - last >= MaxLen \/ \E k \in Worker : stopping[k]
<1>1. TypeOK /\ SentOnce /\ NotSentYet
  BY DEF IInv, OnePlace
<1>2. faults' = faults /\ restarts' = restarts
  BY DEF bounds
<1>3. ~Fault /\ ~RedisRestart
  BY <1>1, <1>2 DEF Fault, RedisRestart, TypeOK
<1>4. \/ \E t \in Task : Enqueue(t)
      \/ \E k \in Worker : DropAtStop(k)
  BY <1>3
  DEF Next, Loop, vars, pastVars, Register, FinishInline, Outcome, WebDies, Start,
      EnsureGroup, LoopTop, Read, Backoff, TakeSlot, Ack, Drain, Signal, Crash, Finish
<1>5. CASE \E k \in Worker : DropAtStop(k)
  BY <1>5 DEF DropAtStop
<1>6. ASSUME NEW t \in Task, Enqueue(t) PROVE Len(stream) - last >= MaxLen
  <2>1. XAdd(NextEntry(t)) /\ t \in unsent
    BY <1>3, <1>6 DEF Enqueue
  <2>2. NextEntry(t) \in Entry /\ NextEntry(t) \notin Sent
    BY <1>1, <2>1, NextIsAhead
  <2>3. QED BY <1>1, <2>1, <2>2, XAddStep
<1>7. QED BY <1>4, <1>5, <1>6

(* The approximate trim of XADD takes an undelivered entry only when as    *)
(* many entries as the cap were waiting, whatever the cap and the history of *)
(* deliveries; without faults nothing else loses a job but a stop signal.  *)
THEOREM OnlyBurstsLoseJobs == Spec => NoLossBelowTheCap
<1>1. IInv /\ [Next]_vars =>
        [lost' # lost /\ UNCHANGED bounds =>
            Len(stream) - last >= MaxLen \/ \E k \in Worker : stopping[k]]_vars
  BY LossStep
<1>2. QED BY Inductive, <1>1, PTL DEF Spec, NoLossBelowTheCap
-----------------------------------------------------------------------------
(* A job on its way stays on its way, ends, or is counted as lost. *)

Kept(t) ==
    \/ t \in unsent \cup TasksOf(Waiting) \cup inline \cup written \cup lost
    \/ \E k \in Worker, e \in Entry : e.task = t /\ (e \in running[k] \/ Holds(k, e))

LEMMA KeptByEnqueue ==
    ASSUME IInv, NEW t \in Task, Enqueue(t), NEW u \in Task, Kept(u)
    PROVE  Kept(u)'
<1>1. TypeOK /\ SentOnce /\ NotSentYet
  BY DEF IInv, OnePlace
<1>2. PICK e \in Entry : e = NextEntry(t) /\ e.task = t /\ e \notin Sent
  BY <1>1, NextIsAhead DEF Enqueue
<1>3. /\ UNCHANGED <<wpc, hand, running, written>>
      /\ inline \subseteq inline'
      /\ TasksOf(Waiting) \subseteq TasksOf(Waiting') \cup lost'
      /\ lost \subseteq lost'
      /\ unsent \ {t} \subseteq unsent'
      /\ t \in unsent' \cup TasksOf(Waiting') \cup lost' \cup inline'
  <2>1. XAdd(e) => /\ TasksOf(Waiting) \subseteq TasksOf(Waiting') \cup lost'
                   /\ t \in TasksOf(Waiting') \cup lost'
                   /\ lost \subseteq lost'
    <3>1. TasksOf(Waiting) \subseteq TasksOf(Waiting \cup {e}) /\ t \in TasksOf(Waiting \cup {e})
      BY <1>2 DEF TasksOf
    <3>2. QED BY <1>1, <1>2, <3>1, XAddStep
  <2>2. UNCHANGED <<stream, last>> => Waiting' = Waiting
    BY DEF Waiting
  <2>3. UNCHANGED <<wpc, hand, running, written>>
    BY DEF Enqueue, workerVars
  <2>4. \/ XAdd(e) /\ inline' = inline
        \/ GoLocal(t) /\ UNCHANGED <<stream, last, lost>>
        \/ XAdd(e) /\ GoLocal(t)
        \/ unsent' = unsent /\ UNCHANGED <<stream, last, lost, inline>>
    BY <1>2 DEF Enqueue
  <2>5. GoLocal(t) => inline \subseteq inline' /\ t \in inline'
    BY DEF GoLocal
  <2>6. t \in unsent /\ unsent \ {t} \subseteq unsent'
    BY DEF Enqueue
  <2>7. QED BY <2>1, <2>2, <2>3, <2>4, <2>5, <2>6
<1>4. \A k \in Worker, f \in Entry : Holds(k, f)' <=> Holds(k, f)
  BY <1>3 DEF Holds
<1>5. QED BY <1>3, <1>4 DEF Kept

LEMMA KeptByRead ==
    ASSUME IInv, NEW k \in Worker, Read(k), NEW u \in Task, Kept(u)
    PROVE  Kept(u)'
<1>1. TypeOK /\ SentOnce
  BY DEF IInv, OnePlace
<1>2. /\ UNCHANGED <<unsent, stream, running, inline, written>>
      /\ wpc[k] = "read" /\ lost \subseteq lost'
  BY DEF Read, webVars
<1>3. \A m \in Worker, e \in Entry : Holds(m, e) => Holds(m, e)'
  BY <1>1, <1>2 DEF Holds, Read, Goto, TypeOK
<1>4. u \in TasksOf(Waiting) =>
         \/ u \in TasksOf(Waiting') \cup lost'
         \/ \E e \in Entry : e.task = u /\ Holds(k, e)'
  <2>1. CASE last' = last
    BY <1>2, <2>1 DEF Waiting, TasksOf
  <2>2. CASE last' # last
    <3> DEFINE job == stream[last + 1]
    <3>1. /\ last < Len(stream) /\ last' = last + 1
          /\ \/ hand' = [hand EXCEPT ![k] = job] /\ wpc' = [wpc EXCEPT ![k] = "hand"]
             \/ job.task \in lost'
      BY <2>2 DEF Read, Goto
    <3>2. job \in Entry /\ Waiting = Waiting' \cup {job}
      BY <1>1, <1>2, <3>1, ReadStep
    <3> HIDE DEF job
    <3>3. (hand'[k] = job /\ wpc'[k] = "hand") \/ job.task \in lost'
      BY <1>1, <3>1 DEF TypeOK
    <3>4. PICK e \in Entry : e = job
      BY <3>2
    <3>5. Holds(k, e)' \/ e.task \in lost'
      BY <3>3, <3>4 DEF Holds
    <3>6. u \in TasksOf(Waiting) => u \in TasksOf(Waiting') \/ u = e.task
      BY <3>2, <3>4 DEF TasksOf
    <3>7. QED BY <3>5, <3>6
  <2>3. QED BY <2>1, <2>2
<1>5. QED BY <1>2, <1>3, <1>4 DEF Kept

LEMMA KeptByWorker ==
    ASSUME IInv, NEW k \in Worker,
           \/ Start(k) \/ EnsureGroup(k) \/ LoopTop(k) \/ Backoff(k) \/ TakeSlot(k)
           \/ DropAtStop(k) \/ Ack(k) \/ Drain(k) \/ Signal(k) \/ Crash(k)
           \/ \E e \in Entry : Finish(k, e),
           NEW u \in Task, Kept(u)
    PROVE  Kept(u)'
<1>1. TypeOK /\ NothingDelivered
  BY DEF IInv, OnePlace
<1> USE DEF redisVars, workerVars, webVars, pastVars, Goto
<1>2. /\ Waiting' = Waiting /\ UNCHANGED <<unsent, inline>>
      /\ written \subseteq written' /\ lost \subseteq lost'
  <2>1. stream' = stream /\ last' = last
    BY <1>1 DEF Start, EnsureGroup, LoopTop, Backoff, TakeSlot, DropAtStop, Ack, Drain,
                Signal, Crash, Finish, NothingDelivered
  <2>2. /\ UNCHANGED <<unsent, inline>>
        /\ written \subseteq written' /\ lost \subseteq lost'
    BY DEF Start, EnsureGroup, LoopTop, Backoff, TakeSlot, DropAtStop, Ack, Drain,
           Signal, Crash, Finish, Outcome
  <2>3. QED BY <2>1, <2>2 DEF Waiting
<1>3. \A m \in Worker, e \in Entry : e \in running[m] =>
         e \in running'[m] \/ e.task \in written' \cup lost'
  <2> SUFFICES ASSUME NEW m \in Worker, NEW e \in Entry, e \in running[m]
               PROVE  e \in running'[m] \/ e.task \in written' \cup lost'
    OBVIOUS
  <2>1. CASE Crash(k)
    BY <1>1, <2>1 DEF Crash, TypeOK, TasksOf
  <2>2. ASSUME NEW f \in Entry, Finish(k, f)
        PROVE  e \in running'[m] \/ e.task \in written' \cup lost'
    BY <1>1, <2>2 DEF Finish, Outcome, TypeOK
  <2>3. CASE TakeSlot(k)
    BY <1>1, <2>3 DEF TakeSlot, TypeOK
  <2>4. CASE running' = running
    BY <2>4
  <2>5. \/ Crash(k) \/ TakeSlot(k) \/ running' = running
        \/ \E f \in Entry : Finish(k, f)
    BY DEF Start, EnsureGroup, LoopTop, Backoff, DropAtStop, Ack, Drain, Signal
  <2>6. QED BY <2>1, <2>2, <2>3, <2>4, <2>5
<1>4. \A m \in Worker, e \in Entry : Holds(m, e) =>
         Holds(m, e)' \/ e \in running'[m] \/ e.task \in lost'
  BY <1>1 DEF Start, EnsureGroup, LoopTop, Backoff, TakeSlot, DropAtStop, Ack, Drain,
              Signal, Crash, Finish, TypeOK, Holds, TasksOf
<1>5. QED BY <1>2, <1>3, <1>4 DEF Kept

LEMMA KeptByOthers ==
    ASSUME IInv, NEW u \in Task, Kept(u),
           \/ UNCHANGED vars
           \/ RedisRestart
           \/ WebDies
           \/ \E t \in Task : Register(t) \/ FinishInline(t)
    PROVE  Kept(u)'
<1> USE DEF redisVars, workerVars, webVars, pastVars, Kept, Holds, Waiting
<1>1. CASE UNCHANGED vars
  BY <1>1 DEF vars
<1>2. CASE RedisRestart
  BY <1>2 DEF RedisRestart
<1>3. CASE WebDies
  BY <1>3 DEF WebDies
<1>4. ASSUME NEW t \in Task, Register(t) PROVE Kept(u)'
  BY <1>4 DEF Register
<1>5. ASSUME NEW t \in Task, FinishInline(t) PROVE Kept(u)'
  BY <1>5 DEF FinishInline, Outcome
<1>6. QED BY <1>1, <1>2, <1>3, <1>4, <1>5

(* From its registration on, a job is in one of the places where something *)
(* still carries it on, or its outcome is written, or a fault, a burst or  *)
(* a stop signal that the model names took it: no order of calls, stops    *)
(* and restarts makes it vanish.                                           *)
THEOREM JobsAreKept == Spec => []NoJobVanishes
<1>1. NoJobVanishes <=> \A u \in registered : Kept(u)
  BY DEF NoJobVanishes, Kept, Holds
<1>2. Init => NoJobVanishes
  BY DEF Init, NoJobVanishes
<1>3. IInv /\ NoJobVanishes /\ [Next]_vars => NoJobVanishes'
  <2> SUFFICES ASSUME IInv, \A u \in registered : Kept(u), [Next]_vars,
                      NEW u \in registered'
               PROVE  Kept(u)'
    BY <1>1 DEF NoJobVanishes, Kept, Holds
  <2>1. u \in registered \/ u \in unsent'
    BY DEF Next, Loop, vars, webVars, Register, Enqueue, FinishInline, WebDies, Start,
           EnsureGroup, LoopTop, Read, Backoff, TakeSlot, DropAtStop, Ack, Drain,
           Signal, Crash, Finish, RedisRestart
  <2>2. CASE u \in unsent'
    BY <2>2 DEF Kept
  <2>3. CASE u \in registered
    <3>1. u \in Task /\ Kept(u)
      BY <2>3 DEF IInv, TypeOK
    <3>2. QED
      BY <3>1, KeptByEnqueue, KeptByRead, KeptByWorker, KeptByOthers DEF Next, Loop
  <2>4. QED BY <2>1, <2>2, <2>3
<1>4. QED BY Inductive, <1>2, <1>3, PTL DEF Spec
=============================================================================
