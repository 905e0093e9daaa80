------------------------------ MODULE JobQueue -------------------------------
(***************************************************************************)
(* The work queue between web processes and workers: the Redis stream      *)
(* tts:jobs, its consumer group, the read loop of each worker, the slots   *)
(* that bound its concurrent runs, and the in-process fallback of the web. *)
(*                                                                         *)
(* Redis keeps the entries and the position of the group in them; a        *)
(* restart loses both, since nothing is persisted.  A worker creates the   *)
(* group once, when it starts.  What a run does is SynthTask's business:   *)
(* here it starts, and ends with or without its outcome in the database.   *)
(***************************************************************************)
EXTENDS Integers, Sequences

CONSTANTS
    Task,           \* the task ids, one job each
    Worker,         \* the worker processes
    Slots,          \* WORKER_MAX_IN_FLIGHT
    MaxLen,         \* maxStreamLen
    MaxFaults,      \* bound on failed calls, stop signals and crashes
    MaxRestarts,    \* bound on Redis restarts
    NoJob           \* no job at hand

ASSUME QueueAssumption ==
    /\ Slots \in Nat \ {0}
    /\ MaxLen \in Nat \ {0}
    /\ MaxFaults \in Nat
    /\ MaxRestarts \in Nat
    /\ NoJob \notin [task : Task, copy : 0..MaxFaults]

(* An entry of the stream; the copies of a task are told apart by their    *)
(* ids, here by how many came before.                                      *)
Entry == [task : Task, copy : 0..MaxFaults]

VARIABLES
    registered, \* the tasks whose row is in the database
    unsent,     \* ... and whose submission has not called Enqueue yet
    stream,     \* the entries of tts:jobs, oldest first
    last,       \* how many of them the group has delivered
    group,      \* does the consumer group exist?
    acked,      \* the entries that were acknowledged
    wpc,        \* wpc[k]: where the main goroutine of worker k stands
    hand,       \* hand[k]: the job Consume passed to handle, or NoJob
    stopping,   \* stopping[k]: worker k has received its stop signal
    slots,      \* slots[k]: the tokens in the slots channel of worker k
    running,    \* running[k]: the entries whose synth.Run is under way at k
    inline,     \* the tasks the web process runs itself
    written,    \* the tasks whose run has recorded its outcome
    starts,     \* history: starts[t], how many runs of t were begun
    unanswered, \* history: unanswered[t], how many XADDs of t were executed
                \* without their answer arriving
    lost,       \* history: the tasks a fault took from the system
    faults,     \* the faults so far
    restarts    \* the Redis restarts so far

redisVars  == <<stream, last, group, acked>>
workerVars == <<wpc, hand, stopping, slots, running>>
webVars    == <<registered, unsent, inline>>
pastVars   == <<written, starts, unanswered, lost>>
bounds     == <<faults, restarts>>
vars == <<registered, unsent, stream, last, group, acked, wpc, hand, stopping, slots,
          running, inline, written, starts, unanswered, lost, faults, restarts>>

Fault   == faults < MaxFaults /\ faults' = faults + 1 /\ UNCHANGED restarts
NoFault == UNCHANGED bounds

(* Entries the group has not delivered; all of them when there is no group. *)
Waiting == {stream[i] : i \in (last + 1)..Len(stream)}
Hands   == {hand[k] : k \in Worker} \ {NoJob}
Holds(k, e) == wpc[k] = "hand" /\ hand[k] = e

TasksOf(entries) == {e.task : e \in entries}
Goto(k, place) == wpc' = [wpc EXCEPT ![k] = place]
-----------------------------------------------------------------------------
Init ==
    /\ registered = {}
    /\ unsent = {}
    /\ stream = <<>>
    /\ last = 0
    /\ group = FALSE
    /\ acked = {}
    /\ wpc = [k \in Worker |-> "down"]
    /\ hand = [k \in Worker |-> NoJob]
    /\ stopping = [k \in Worker |-> FALSE]
    /\ slots = [k \in Worker |-> 0]
    /\ running = [k \in Worker |-> {}]
    /\ inline = {}
    /\ written = {}
    /\ starts = [t \in Task |-> 0]
    /\ unanswered = [t \in Task |-> 0]
    /\ lost = {}
    /\ faults = 0
    /\ restarts = 0
-----------------------------------------------------------------------------
(* The web process: UnifiedHandler.Synthesize. *)

Register(t) ==
    /\ t \notin registered
    /\ registered' = registered \cup {t}
    /\ unsent' = unsent \cup {t}
    /\ UNCHANGED <<inline, redisVars, workerVars, pastVars, bounds>>

(* Mutant: the cap is off by one. *)
XAddShort(e) ==
    LET long == Append(stream, e) IN
    \E cut \in 0..Len(long) :
        /\ cut = 0 \/ Len(long) - cut >= MaxLen - 1
        /\ stream' = SubSeq(long, cut + 1, Len(long))
        /\ last' = IF cut < last THEN last - cut ELSE 0
        /\ lost' = lost \cup {long[i].task : i \in (last + 1)..cut}

(* XADD with MAXLEN ~: the stream never gets shorter than MaxLen by it, and *)
(* may stay longer.  An entry trimmed before its delivery is lost.          *)
XAdd(e) ==
    LET long == Append(stream, e) IN
    \E cut \in 0..Len(long) :
        /\ cut = 0 \/ Len(long) - cut >= MaxLen
        /\ stream' = SubSeq(long, cut + 1, Len(long))
        /\ last' = IF cut < last THEN last - cut ELSE 0
        /\ lost' = lost \cup {long[i].task : i \in (last + 1)..cut}

(* GoLocal: the web process starts a run of its own. *)
GoLocal(t) ==
    /\ inline' = inline \cup {t}
    /\ starts' = [starts EXCEPT ![t] = @ + 1]

NextEntry(t) == [task |-> t, copy |-> unanswered[t]]

(* The client sends an XADD again that got no answer, executed or not,     *)
(* before it gives up and the web process runs the task itself.            *)
Enqueue(t) ==
    /\ t \in unsent
    /\ \/ /\ XAdd(NextEntry(t))
          /\ unsent' = unsent \ {t}
          /\ NoFault
          /\ UNCHANGED <<inline, starts, unanswered>>
       \/ /\ Fault
          /\ \/ /\ XAdd(NextEntry(t))
                /\ unanswered' = [unanswered EXCEPT ![t] = @ + 1]
             \/ UNCHANGED <<stream, last, lost, unanswered>>
          /\ \/ GoLocal(t) /\ unsent' = unsent \ {t}
             \/ UNCHANGED <<unsent, inline, starts>>
    /\ UNCHANGED <<registered, group, acked, workerVars, written>>

(* synth.Run ends; its UPDATE may have failed, which is only logged. *)
Outcome(t) ==
    \/ /\ written' = written \cup {t}
       /\ NoFault
       /\ UNCHANGED lost
    \/ /\ lost' = lost \cup {t}
       /\ Fault
       /\ UNCHANGED written

FinishInline(t) ==
    /\ t \in inline
    /\ inline' = inline \ {t}
    /\ Outcome(t)
    /\ UNCHANGED <<registered, unsent, redisVars, workerVars, starts, unanswered>>

(* The web process dies, or exits once WaitLocal has run out of time. *)
WebDies ==
    /\ Fault
    /\ inline' = {}
    /\ unsent' = {}
    /\ lost' = lost \cup inline \cup unsent
    /\ UNCHANGED <<registered, redisVars, workerVars, written, starts, unanswered>>
-----------------------------------------------------------------------------
(* A worker: worker.Run around queue.Consume. *)

Start(k) ==
    /\ wpc[k] \in {"down", "stopped"}
    /\ Goto(k, "boot")
    /\ stopping' = [stopping EXCEPT ![k] = FALSE]
    /\ UNCHANGED <<hand, slots, running, webVars, redisVars, pastVars, bounds>>

(* Mutant: a worker that starts creates the group anew, from the beginning. *)
EnsureGroupAnew(k) ==
    /\ wpc[k] = "boot"
    /\ ~stopping[k]
    /\ group' = TRUE
    /\ last' = 0
    /\ Goto(k, "loop")
    /\ UNCHANGED <<stream, acked, hand, stopping, slots, running, webVars, pastVars,
                   bounds>>

(* XGROUP CREATE ... 0 MKSTREAM; a group that exists is left as it is.     *)
(* Any other failure ends the process, an answer that is lost too.         *)
EnsureGroup(k) ==
    /\ wpc[k] = "boot"
    /\ \/ /\ group' = TRUE
          /\ last' = IF group THEN last ELSE 0
       \/ UNCHANGED <<group, last>>
    /\ \/ group' /\ ~stopping[k] /\ Goto(k, "loop") /\ NoFault
       \/ Goto(k, "down") /\ IF stopping[k] THEN NoFault ELSE Fault
    /\ UNCHANGED <<stream, acked, hand, stopping, slots, running, webVars, pastVars>>

LoopTop(k) ==
    /\ wpc[k] = "loop"
    /\ Goto(k, IF stopping[k] THEN "drain" ELSE "read")
    /\ UNCHANGED <<hand, stopping, slots, running, webVars, redisVars, pastVars, bounds>>

(* XREADGROUP ">" hands the oldest entry the group has not delivered to    *)
(* one consumer; the reply may be lost, and nothing reads it again: the    *)
(* client's second attempt gets the entry after it.  A read under way goes *)
(* on when the stop signal comes.                                          *)
Read(k) ==
    /\ wpc[k] = "read"
    /\ \/ /\ group
          /\ last < Len(stream)
          /\ last' = last + 1
          /\ \/ /\ hand' = [hand EXCEPT ![k] = stream[last + 1]]
                /\ Goto(k, "hand")
                /\ NoFault
                /\ UNCHANGED lost
             \/ /\ lost' = lost \cup {stream[last + 1].task}
                /\ \/ UNCHANGED wpc
                   \/ Goto(k, IF stopping[k] THEN "loop" ELSE "backoff")
                /\ Fault
                /\ UNCHANGED hand
       \/ /\ group                          \* nothing within the timeout
          /\ last = Len(stream)
          /\ Goto(k, "loop")
          /\ NoFault
          /\ UNCHANGED <<last, lost, hand>>
       \/ /\ ~group                         \* NOGROUP
          /\ Goto(k, IF stopping[k] THEN "loop" ELSE "backoff")
          /\ NoFault
          /\ UNCHANGED <<last, lost, hand>>
    /\ UNCHANGED <<stream, group, acked, stopping, slots, running, webVars, written,
                   starts, unanswered>>

(* A second later, or at once when the stop signal comes. *)
Backoff(k) ==
    /\ wpc[k] = "backoff"
    /\ \/ Goto(k, "loop")
       \/ stopping[k] /\ Goto(k, "drain")
    /\ UNCHANGED <<hand, stopping, slots, running, webVars, redisVars, pastVars, bounds>>

(* handle: wait for a slot, or for the stop signal; when both are there,   *)
(* either may be taken, and the signal drops the job.                      *)
TakeSlot(k) ==
    /\ wpc[k] = "hand"
    /\ slots[k] < Slots
    /\ slots' = [slots EXCEPT ![k] = @ + 1]
    /\ running' = [running EXCEPT ![k] = @ \cup {hand[k]}]
    /\ starts' = [starts EXCEPT ![hand[k].task] = @ + 1]
    /\ Goto(k, "ack")
    /\ UNCHANGED <<hand, stopping, webVars, redisVars, written, unanswered, lost, bounds>>

DropAtStop(k) ==
    /\ wpc[k] = "hand"
    /\ stopping[k]
    /\ lost' = lost \cup {hand[k].task}
    /\ Goto(k, "ack")
    /\ UNCHANGED <<hand, stopping, slots, running, webVars, redisVars, written, starts,
                   unanswered, bounds>>

(* XACK right after handle has returned, under a context that may be over. *)
Ack(k) ==
    /\ wpc[k] = "ack"
    /\ \/ acked' = acked \cup {hand[k]} /\ NoFault
       \/ acked' = acked /\ IF stopping[k] THEN NoFault ELSE Fault
    /\ hand' = [hand EXCEPT ![k] = NoJob]
    /\ Goto(k, "loop")
    /\ UNCHANGED <<stream, last, group, stopping, slots, running, webVars, pastVars>>

(* Mutant: a run that ends keeps its slot. *)
FinishLeaks(k, e) ==
    /\ e \in running[k]
    /\ running' = [running EXCEPT ![k] = @ \ {e}]
    /\ Outcome(e.task)
    /\ UNCHANGED <<wpc, hand, stopping, slots, webVars, redisVars, starts, unanswered>>

(* A run ends: its outcome is written, then its slot is given back. *)
Finish(k, e) ==
    /\ e \in running[k]
    /\ running' = [running EXCEPT ![k] = @ \ {e}]
    /\ slots' = [slots EXCEPT ![k] = @ - 1]
    /\ Outcome(e.task)
    /\ UNCHANGED <<wpc, hand, stopping, webVars, redisVars, starts, unanswered>>

(* Mutant: the process ends without waiting for its runs. *)
DrainAtOnce(k) ==
    /\ wpc[k] = "drain"
    /\ running' = [running EXCEPT ![k] = {}]
    /\ slots' = [slots EXCEPT ![k] = 0]
    /\ Goto(k, "stopped")
    /\ UNCHANGED <<hand, stopping, webVars, redisVars, pastVars, bounds>>

(* wg.Wait, and the end of the process. *)
Drain(k) ==
    /\ wpc[k] = "drain"
    /\ running[k] = {}
    /\ Goto(k, "stopped")
    /\ UNCHANGED <<hand, stopping, slots, running, webVars, redisVars, pastVars, bounds>>
-----------------------------------------------------------------------------
(* The environment. *)

Signal(k) ==
    /\ Fault
    /\ wpc[k] \notin {"down", "stopped"}
    /\ ~stopping[k]
    /\ stopping' = [stopping EXCEPT ![k] = TRUE]
    /\ UNCHANGED <<wpc, hand, slots, running, webVars, redisVars, pastVars>>

Crash(k) ==
    /\ Fault
    /\ wpc[k] \notin {"down", "stopped"}
    /\ Goto(k, "down")
    /\ hand' = [hand EXCEPT ![k] = NoJob]
    /\ slots' = [slots EXCEPT ![k] = 0]
    /\ running' = [running EXCEPT ![k] = {}]
    /\ lost' = lost \cup TasksOf({e \in Entry : e \in running[k] \/ Holds(k, e)})
    /\ UNCHANGED <<stopping, webVars, redisVars, written, starts, unanswered>>

RedisRestart ==
    /\ restarts < MaxRestarts
    /\ restarts' = restarts + 1
    /\ stream' = <<>>
    /\ last' = 0
    /\ group' = FALSE
    /\ lost' = lost \cup TasksOf(Waiting)
    /\ UNCHANGED <<acked, workerVars, webVars, written, starts, unanswered, faults>>
-----------------------------------------------------------------------------
Loop(k) ==
    \/ EnsureGroup(k)
    \/ LoopTop(k)
    \/ Read(k)
    \/ Backoff(k)
    \/ TakeSlot(k)
    \/ DropAtStop(k)
    \/ Ack(k)
    \/ Drain(k)

Next ==
    \/ \E t \in Task : Register(t) \/ Enqueue(t) \/ FinishInline(t)
    \/ \E k \in Worker : Start(k) \/ Loop(k) \/ Signal(k) \/ Crash(k)
    \/ \E k \in Worker, e \in Entry : Finish(k, e)
    \/ WebDies
    \/ RedisRestart

Spec == Init /\ [][Next]_vars

(* Every goroutine gets its turn, every Redis call has a timeout, every    *)
(* run ends (the Engine call has a timeout of its own), and the deployment *)
(* restarts a worker that is gone.  Redis serves whoever reads: two        *)
(* workers that both read take turns.                                      *)
Fairness ==
    /\ \A k \in Worker : WF_vars(Start(k)) /\ WF_vars(Loop(k))
    /\ \A k \in Worker, e \in Entry : WF_vars(Finish(k, e))
    /\ \A t \in Task : WF_vars(FinishInline(t)) /\ WF_vars(Enqueue(t))

FairSpec == Spec /\ Fairness
-----------------------------------------------------------------------------
(* Properties *)

(* Every variable holds a value of its kind; a worker never runs more than *)
(* its slots allow.                                                        *)
TypeOK ==
    /\ registered \in SUBSET Task
    /\ unsent \in SUBSET Task
    /\ stream \in Seq(Entry)
    /\ last \in 0..Len(stream)
    /\ group \in BOOLEAN
    /\ acked \in SUBSET Entry
    /\ wpc \in [Worker -> {"down", "boot", "loop", "read", "backoff", "hand", "ack",
                           "drain", "stopped"}]
    /\ hand \in [Worker -> Entry \cup {NoJob}]
    /\ stopping \in [Worker -> BOOLEAN]
    /\ slots \in [Worker -> 0..Slots]
    /\ running \in [Worker -> SUBSET Entry]
    /\ inline \in SUBSET Task
    /\ written \in SUBSET Task
    /\ starts \in [Task -> Nat]
    /\ unanswered \in [Task -> 0..MaxFaults]
    /\ lost \in SUBSET Task
    /\ faults \in 0..MaxFaults
    /\ restarts \in 0..MaxRestarts

(* A registered chunk is on its way at every moment: about to be sent,     *)
(* waiting in the stream, at some worker's hand, running, or finished,     *)
(* unless one of the faults named above took it.  In particular a worker   *)
(* that stops cleanly finishes all it has started.                         *)
NoJobVanishes ==
    \A t \in registered :
        \/ t \in unsent \cup TasksOf(Waiting) \cup inline \cup written \cup lost
        \/ \E k \in Worker, e \in Entry : e.task = t /\ (e \in running[k] \/ Holds(k, e))

(* The group hands every entry out once, across workers that start, stop   *)
(* and restart: a chunk is synthesized again only for an XADD of it that   *)
(* was executed without its answer arriving - sent again by the client, or *)
(* given up for a run of the web process's own -, once for each of them.   *)
NoSecondRun == \A t \in Task : starts[t] <= 1 + unanswered[t]

(* With no fault in sight a job is lost only to a burst: MaxLen entries    *)
(* were waiting already.                                                   *)
NoLossBelowTheCap ==
    [][lost' # lost /\ UNCHANGED bounds =>
          Len(stream) - last >= MaxLen \/ \E k \in Worker : stopping[k]]_vars

Started(t) == starts[t] > 0

(* A job that waits, or that a worker holds while its slots are full, is   *)
(* started in the end, as long as the consumer group is there: slots come  *)
(* back, and a worker that is gone is replaced.                            *)
EveryJobStarts ==
    \A t \in Task :
        t \in TasksOf(Waiting \cup Hands) ~> Started(t) \/ t \in lost \/ ~group
=============================================================================
