------------------------------ MODULE SynthTask ------------------------------
(***************************************************************************)
(* One synthesis task, from POST /api/synthesize to its last status write, *)
(* across every process that touches it:                                   *)
(*                                                                         *)
(*   - a web process registers the row, creates the task and enqueues it;  *)
(*     when Enqueue reports an error it runs the task itself;              *)
(*   - a worker takes the message and executes synth.Run;                  *)
(*   - web processes serve cancel requests and status polls;               *)
(*   - the cron process reconciles rows that nobody finished.              *)
(*                                                                         *)
(* They share the tts_chunks row, the Redis key task:<id>, the Redis       *)
(* channel channel:task:<id>, the stream tts:jobs and the object store;    *)
(* each has its own copy of the task (a TaskItem) in RAM.  Every Redis     *)
(* command, SQL statement, store write and critical section of TaskItem.mu *)
(* is one step; whatever the code does between two of them interleaves.    *)
(*                                                                         *)
(* Tasks share nothing but slots and map locks, so one task is followed.   *)
(* Progress, error texts, formats and audio bytes are left out.            *)
(***************************************************************************)
EXTENDS Naturals

CONSTANTS
    Web,            \* the web processes
    Worker,         \* the worker processes
    Cancellers,     \* web processes that receive one cancel request each
    Pollers,        \* web processes that serve status polls meanwhile
    MaxFaults       \* bound on the failed calls, crashes and losses

ASSUME ProcessAssumption ==
    /\ Web \cap Worker = {}
    /\ Cancellers \subseteq Web
    /\ Pollers \subseteq Web
    /\ MaxFaults \in Nat

Proc == Web \cup Worker

VARIABLES
    row,        \* the tts_chunks row: status, and whether audio_path is set
    stored,     \* is the audio object in the store?
    key,        \* the record at the Redis key task:<id>
    msg,        \* the stream entries: "none", one "queued", queued "twice", or
                \* "gone" (delivered, lost)
    ram,        \* ram[p]: the TaskItem in the map of process p
    pc,         \* pc[p]: where the request or the run of process p stands
    role,       \* role[p]: p's main thread serves the submission or runs the task
    held,       \* held[p]: the record that thread read or marshalled, not yet written
    ctx,        \* ctx[p]: the context of the Engine call, "live" or "cut"
    sub,        \* sub[p]: WatchCancel's subscription: "asked" while SUBSCRIBE is on
                \* its way, "open" in Redis, "msg" once it holds a cancel
    cpc,        \* cpc[w]: where the cancel request at w stands
    cheld,      \* cheld[w]: the record that request read or marshalled
    seen,       \* seen[w]: the record a status poll at w read, not yet applied
    faults,     \* how many faults have happened
    published,  \* history: a cancel was stored and published
    gap,        \* history: a cancel was stored while some process was between
                \* its read of the record and its write of its copy, or was
                \* stored from a copy that a poll had set back meanwhile
    unheard     \* history: a cancel was published after a run had re-read the
                \* record and before Redis had its SUBSCRIBE

stateVars  == <<row, stored, key, msg, ram>>
mainVars   == <<pc, role, held, ctx, sub>>
cancelVars == <<cpc, cheld>>
history    == <<published, gap, unheard>>
vars == <<row, stored, key, msg, ram, pc, role, held, ctx, sub, cpc, cheld, seen,
          faults, published, gap, unheard>>
-----------------------------------------------------------------------------
(* Records of a task: what marshalState writes and TaskItem keeps. *)

Terminal   == {"done", "error", "cancelled"}
TaskStatus == {"none", "processing"} \cup Terminal
TaskState  == [status : TaskStatus, cancel : BOOLEAN, owner : BOOLEAN]
RowState   == [status : {"none", "pending"} \cup Terminal, path : BOOLEAN]

NoState == [status |-> "none", cancel |-> FALSE, owner |-> FALSE]
Fresh   == [status |-> "processing", cancel |-> FALSE, owner |-> FALSE]

(* applyRemoteState, on an item and a record that may be missing. *)
Apply(item, remote) ==
    IF remote.status = "none" THEN item
    ELSE [remote EXCEPT !.owner = item.owner \/ remote.owner]

(* The test WatchCancel makes on the record it re-reads. *)
Stopped(record) == record.cancel \/ record.status = "cancelled"

(* A call that fails, as opposed to one that goes through. *)
Fault    == faults < MaxFaults /\ faults' = faults + 1
NoFault  == UNCHANGED faults

(* The value a GET of the key returns; a failed GET reads like a missing key. *)
Reads(value) ==
    \/ value = key /\ NoFault
    \/ value = NoState /\ Fault

(* A SET of the key; the code ignores its error. *)
Writes(value) ==
    \/ key' = value /\ NoFault
    \/ key' = key /\ Fault

(* An UPDATE of the row; the code logs its error and goes on. *)
Records(newRow) ==
    \/ row' = newRow /\ NoFault
    \/ row' = row /\ Fault

Goto(p, to) == pc' = [pc EXCEPT ![p] = to]

(* GetOrCreate holds TaskManager.mu from its GET to its SET, and so keeps  *)
(* every lookup of that process waiting.                                   *)
MapLocked(p) == pc[p] = "put"
-----------------------------------------------------------------------------
Init ==
    /\ row = [status |-> "none", path |-> FALSE]
    /\ stored = FALSE
    /\ key = NoState
    /\ msg = "none"
    /\ ram = [p \in Proc |-> NoState]
    /\ pc = [p \in Proc |-> "idle"]
    /\ role = [p \in Proc |-> IF p \in Web THEN "submit" ELSE "run"]
    /\ held = [p \in Proc |-> NoState]
    /\ ctx = [p \in Proc |-> "live"]
    /\ sub = [p \in Proc |-> "none"]
    /\ cpc = [w \in Web |-> "idle"]
    /\ cheld = [w \in Web |-> NoState]
    /\ seen = [w \in Web |-> NoState]
    /\ faults = 0
    /\ published = FALSE
    /\ gap = FALSE
    /\ unheard = FALSE
-----------------------------------------------------------------------------
(* Submission: UnifiedHandler.Synthesize on web process w. *)

(* RegisterJobAndChunk; a second submission of the same task_id fails on   *)
(* the primary key and changes nothing.                                    *)
Register(w) ==
    /\ pc[w] = "idle"
    /\ row.status = "none"
    /\ row' = [status |-> "pending", path |-> FALSE]
    /\ Goto(w, "get")
    /\ UNCHANGED <<stored, key, msg, ram, role, held, ctx, sub, cancelVars, seen,
                   faults, history>>

Queued == IF msg \in {"queued", "twice"} THEN "twice" ELSE "queued"

(* Enqueue.  XADD may fail, or be executed and its answer lost: go-redis    *)
(* then sends it again, or gives up, and the process runs the task itself.  *)
Send(w) ==
    /\ pc[w] = "send"
    /\ \/ /\ msg' = Queued
          /\ Goto(w, "sent")
          /\ UNCHANGED <<role, faults>>
       \/ /\ msg' = Queued
          /\ Fault
          /\ UNCHANGED <<pc, role>>
       \/ /\ msg' \in {msg, Queued}
          /\ role' = [role EXCEPT ![w] = "run"]
          /\ Goto(w, "get")
          /\ Fault
    /\ UNCHANGED <<row, stored, key, ram, held, ctx, sub, cancelVars, seen, history>>

Fewer == IF msg = "twice" THEN "queued" ELSE "gone"

(* Consume hands a message to one worker of the group, once. *)
Deliver(k) ==
    /\ msg \in {"queued", "twice"}
    /\ pc[k] = "idle"
    /\ msg' = Fewer
    /\ Goto(k, "get")
    /\ UNCHANGED <<row, stored, key, ram, role, held, ctx, sub, cancelVars, seen,
                   faults, history>>
-----------------------------------------------------------------------------
(* TaskManager.GetOrCreate and TaskItem.SetOwner, called by the submission *)
(* and again at the start of every run.                                    *)

GetOrCreateHit(p) ==
    /\ pc[p] = "get"
    /\ ram[p].status # "none"
    /\ Goto(p, "own")
    /\ UNCHANGED <<stateVars, role, held, ctx, sub, cancelVars, seen, faults, history>>

GetOrCreateRead(p) ==
    /\ pc[p] = "get"
    /\ ram[p].status = "none"
    /\ \E value \in TaskState :
          /\ Reads(value)
          /\ held' = [held EXCEPT ![p] = value]
    /\ Goto(p, "put")
    /\ UNCHANGED <<stateVars, role, ctx, sub, cancelVars, seen, history>>

(* Mutant: the new item goes out without the record read a moment before. *)
GetOrCreatePutBlind(p) ==
    /\ pc[p] = "put"
    /\ ram' = [ram EXCEPT ![p] = Fresh]
    /\ Writes(Fresh)
    /\ held' = [held EXCEPT ![p] = NoState]
    /\ Goto(p, "own")
    /\ UNCHANGED <<row, stored, msg, role, ctx, sub, cancelVars, seen, history>>

GetOrCreatePut(p) ==
    /\ pc[p] = "put"
    /\ ram' = [ram EXCEPT ![p] = Apply(Fresh, held[p])]
    /\ Writes(Apply(Fresh, held[p]))
    /\ held' = [held EXCEPT ![p] = NoState]
    /\ Goto(p, "own")
    /\ UNCHANGED <<row, stored, msg, role, ctx, sub, cancelVars, seen, history>>

AfterOwner(p) == IF role[p] = "submit" THEN "send" ELSE "watch"

SetOwner(p) ==
    /\ pc[p] = "own"
    /\ ram' = [ram EXCEPT ![p].owner = TRUE]
    /\ Goto(p, IF ram[p].owner THEN AfterOwner(p) ELSE "ownmarshal")
    /\ UNCHANGED <<row, stored, key, msg, role, held, ctx, sub, cancelVars, seen,
                   faults, history>>

SetOwnerMarshal(p) ==
    /\ pc[p] = "ownmarshal"
    /\ held' = [held EXCEPT ![p] = ram[p]]
    /\ Goto(p, "ownput")
    /\ UNCHANGED <<stateVars, role, ctx, sub, cancelVars, seen, faults, history>>

SetOwnerPut(p) ==
    /\ pc[p] = "ownput"
    /\ Writes(held[p])
    /\ held' = [held EXCEPT ![p] = NoState]
    /\ Goto(p, AfterOwner(p))
    /\ UNCHANGED <<row, stored, msg, ram, role, ctx, sub, cancelVars, seen, history>>
-----------------------------------------------------------------------------
(* TaskItem.WatchCancel: look at the local flag, subscribe, re-read the    *)
(* key, then listen.  Subscribe only writes the command, on a connection   *)
(* of its own: Redis may execute the GET of the re-read before it.         *)

Cut(p) ==
    /\ ram' = [ram EXCEPT ![p].cancel = TRUE]
    /\ ctx' = [ctx EXCEPT ![p] = "cut"]

WatchLocal(p) ==
    /\ pc[p] = "watch"
    /\ ram[p].cancel
    /\ Cut(p)
    /\ Goto(p, "call")
    /\ UNCHANGED <<row, stored, key, msg, role, held, sub, cancelVars, seen, faults,
                   history>>

WatchSubscribe(p) ==
    /\ pc[p] = "watch"
    /\ ~ram[p].cancel
    /\ sub' = [sub EXCEPT ![p] = "asked"]
    /\ Goto(p, "reread")
    /\ UNCHANGED <<stateVars, role, held, ctx, cancelVars, seen, faults, history>>

(* Redis executes the SUBSCRIBE. *)
WatchJoins(p) ==
    /\ sub[p] = "asked"
    /\ sub' = [sub EXCEPT ![p] = "open"]
    /\ UNCHANGED <<row, stored, key, msg, ram, pc, role, held, ctx, cancelVars, seen,
                   faults, history>>

WatchReread(p) ==
    /\ pc[p] = "reread"
    /\ \E value \in TaskState :
          /\ Reads(value)
          /\ \/ /\ Stopped(value)
                /\ Cut(p)
                /\ sub' = [sub EXCEPT ![p] = "none"]
             \/ /\ ~Stopped(value)
                /\ UNCHANGED <<ram, ctx, sub>>
    /\ Goto(p, "call")
    /\ UNCHANGED <<row, stored, key, msg, role, held, cancelVars, seen, history>>

(* The listening goroutine, which starts once WatchCancel returns. *)
Hear(p) ==
    /\ sub[p] = "msg"
    /\ pc[p] # "reread"
    /\ Cut(p)
    /\ sub' = [sub EXCEPT ![p] = "none"]
    /\ UNCHANGED <<row, stored, key, msg, pc, role, held, cancelVars, seen, faults,
                   history>>
-----------------------------------------------------------------------------
(* synth.Run from the Engine call to its last status write.                *)

(* A call under a context that is already cut fails before it is sent. *)
CallEngine(p) ==
    /\ pc[p] = "call"
    /\ Goto(p, IF ctx[p] = "cut" THEN "failed" ELSE "engine")
    /\ UNCHANGED <<stateVars, role, held, ctx, sub, cancelVars, seen, faults, history>>

(* The reply and the cut race, so either can win. *)
EngineReturns(p) ==
    /\ pc[p] = "engine"
    /\ \/ Goto(p, "check")
       \/ Goto(p, "failed")
    /\ UNCHANGED <<stateVars, role, held, ctx, sub, cancelVars, seen, faults, history>>

(* Mutant: the error branch writes the row and announces nothing. *)
FailedSilently(p) ==
    /\ pc[p] = "failed"
    /\ Goto(p, IF ram[p].cancel THEN "rowcancel" ELSE "rowerr")
    /\ UNCHANGED <<stateVars, role, held, ctx, sub, cancelVars, seen, faults, history>>

Failed(p) ==
    /\ pc[p] = "failed"
    /\ Goto(p, IF ram[p].cancel THEN "rowcancel" ELSE "sayerr")
    /\ UNCHANGED <<stateVars, role, held, ctx, sub, cancelVars, seen, faults, history>>

CheckCancel(p) ==
    /\ pc[p] = "check"
    /\ Goto(p, IF ram[p].cancel THEN "rowcancel" ELSE "store")
    /\ UNCHANGED <<stateVars, role, held, ctx, sub, cancelVars, seen, faults, history>>

(* Mutant: the error of Put is ignored. *)
StorePutUnchecked(p) ==
    /\ pc[p] = "store"
    /\ stored' \in {stored, TRUE}
    /\ Goto(p, "rowdone")
    /\ UNCHANGED <<row, key, msg, ram, role, held, ctx, sub, cancelVars, seen, faults,
                   history>>

(* Mutant: done is announced, and its row never written. *)
StorePutNoRow(p) ==
    /\ pc[p] = "store"
    /\ \/ stored' = TRUE /\ Goto(p, "saydone")
       \/ stored' = stored /\ Goto(p, "rowfail")
    /\ UNCHANGED <<row, key, msg, ram, role, held, ctx, sub, cancelVars, seen, faults,
                   history>>

(* A failed Put keeps the audio in RAM only, and the task ends in error. *)
StorePut(p) ==
    /\ pc[p] = "store"
    /\ \/ stored' = TRUE /\ Goto(p, "rowdone")
       \/ stored' = stored /\ Goto(p, "rowfail")
    /\ UNCHANGED <<row, key, msg, ram, role, held, ctx, sub, cancelVars, seen, faults,
                   history>>

(* stopWatch runs when Run returns. *)
StopWatch(p) ==
    /\ ctx' = [ctx EXCEPT ![p] = "cut"]
    /\ sub' = [sub EXCEPT ![p] = "none"]

(* Mutant: the outcome of a run is written to an unfinished row only. *)
UpdateUnfinishedOnly(status, path) ==
    Records(IF row.status = "pending" THEN [status |-> status, path |-> row.path \/ path]
                                      ELSE row)

(* UpdateChunkStatus sets the status whatever the row says. *)
UpdateChunkStatus(status, path) ==
    Records([status |-> status, path |-> row.path \/ path])

RowDone(p) ==
    /\ pc[p] = "rowdone"
    /\ UpdateChunkStatus("done", TRUE)
    /\ Goto(p, "saydone")
    /\ UNCHANGED <<stored, key, msg, ram, role, held, ctx, sub, cancelVars, seen, history>>

RowFail(p) ==
    /\ pc[p] = "rowfail"
    /\ UpdateChunkStatus("error", FALSE)
    /\ Goto(p, "sayfail")
    /\ UNCHANGED <<stored, key, msg, ram, role, held, ctx, sub, cancelVars, seen, history>>

RowError(p) ==
    /\ pc[p] = "rowerr"
    /\ UpdateChunkStatus("error", FALSE)
    /\ Goto(p, "end")
    /\ StopWatch(p)
    /\ UNCHANGED <<stored, key, msg, ram, role, held, cancelVars, seen, history>>

RowCancel(p) ==
    /\ pc[p] = "rowcancel"
    /\ UpdateChunkStatus("cancelled", FALSE)
    /\ Goto(p, "end")
    /\ StopWatch(p)
    /\ UNCHANGED <<stored, key, msg, ram, role, held, cancelVars, seen, history>>
-----------------------------------------------------------------------------
(* TaskItem.Notify in a run: the item under its lock, then the marshalled  *)
(* record under the same lock again, then the pipeline.  Nobody listens    *)
(* here for the "done" and "error" it publishes.                           *)

SayFrom == [saydone |-> "done", sayfail |-> "error", sayerr |-> "error"]
AfterSay == [saydone |-> "mardone", sayfail |-> "mardone", sayerr |-> "marerr"]

NotifyLocal(p) ==
    /\ pc[p] \in {"saydone", "sayfail", "sayerr"}
    /\ ram' = [ram EXCEPT ![p].status = SayFrom[pc[p]]]
    /\ Goto(p, AfterSay[pc[p]])
    /\ UNCHANGED <<row, stored, key, msg, role, held, ctx, sub, cancelVars, seen,
                   faults, history>>

NotifyMarshal(p) ==
    /\ pc[p] \in {"mardone", "marerr"}
    /\ held' = [held EXCEPT ![p] = ram[p]]
    /\ Goto(p, IF pc[p] = "mardone" THEN "setdone" ELSE "seterr")
    /\ UNCHANGED <<stateVars, role, ctx, sub, cancelVars, seen, faults, history>>

NotifySet(p) ==
    /\ Writes(held[p])
    /\ held' = [held EXCEPT ![p] = NoState]
    /\ \/ /\ pc[p] = "setdone"
          /\ Goto(p, "end")
          /\ StopWatch(p)
       \/ /\ pc[p] = "seterr"
          /\ Goto(p, "rowerr")
          /\ UNCHANGED <<ctx, sub>>
    /\ UNCHANGED <<row, stored, msg, ram, role, cancelVars, seen, history>>
-----------------------------------------------------------------------------
(* A cancel request at web process w: TasksHandler.CancelTask, by the      *)
(* owner of the task.  TaskManager.Get runs in it again and again: a copy  *)
(* in RAM that is terminal is returned as it is, any other is refreshed    *)
(* from the key, a missing one is rebuilt from it.                         *)

(* TaskManager.Get up to its GET; nothing is read for a terminal copy. *)
GetReads(w, value) ==
    /\ ~MapLocked(w)
    /\ IF ram[w].status \in Terminal
         THEN value = NoState /\ NoFault
         ELSE Reads(value)

(* ... and what it then leaves in RAM. *)
Refreshed(w, value) == Apply(ram[w], value)

CancelArrives(w) ==
    /\ cpc[w] = "idle"
    /\ row.status # "none"
    /\ \E value \in TaskState :
          /\ GetReads(w, value)
          /\ cheld' = [cheld EXCEPT ![w] = value]
    /\ cpc' = [cpc EXCEPT ![w] = "precheck"]
    /\ UNCHANGED <<stateVars, mainVars, seen, history>>

(* A task that is over is not cancelled: the request gets a 400. *)
CancelPrecheck(w) ==
    /\ cpc[w] = "precheck"
    /\ ~MapLocked(w)
    /\ LET item == Refreshed(w, cheld[w]) IN
          /\ ram' = [ram EXCEPT ![w] = item]
          /\ cpc' = [cpc EXCEPT ![w] =
                        IF item.status \in Terminal THEN "refused" ELSE "get"]
    /\ cheld' = [cheld EXCEPT ![w] = NoState]
    /\ UNCHANGED <<row, stored, key, msg, mainVars, seen, faults, history>>

(* TaskManager.Cancel looks the task up again, and does not check again. *)
CancelGet(w) ==
    /\ cpc[w] = "get"
    /\ \E value \in TaskState :
          /\ GetReads(w, value)
          /\ cheld' = [cheld EXCEPT ![w] = value]
    /\ cpc' = [cpc EXCEPT ![w] = "flag"]
    /\ UNCHANGED <<stateVars, mainVars, seen, history>>

CancelFlag(w) ==
    /\ cpc[w] = "flag"
    /\ ~MapLocked(w)
    /\ LET item == Refreshed(w, cheld[w]) IN
          \/ /\ item.status = "none"        \* found nowhere: only the row is written
             /\ ram' = ram
             /\ cpc' = [cpc EXCEPT ![w] = "row"]
          \/ /\ item.status # "none"
             /\ ram' = [ram EXCEPT ![w] = [item EXCEPT !.cancel = TRUE]]
             /\ cpc' = [cpc EXCEPT ![w] = "say"]
    /\ cheld' = [cheld EXCEPT ![w] = NoState]
    /\ UNCHANGED <<row, stored, key, msg, mainVars, seen, faults, history>>

CancelSay(w) ==
    /\ cpc[w] = "say"
    /\ ram' = [ram EXCEPT ![w].status = "cancelled"]
    /\ cpc' = [cpc EXCEPT ![w] = "marshal"]
    /\ UNCHANGED <<row, stored, key, msg, mainVars, cheld, seen, faults, history>>

CancelMarshal(w) ==
    /\ cpc[w] = "marshal"
    /\ cheld' = [cheld EXCEPT ![w] = ram[w]]
    /\ cpc' = [cpc EXCEPT ![w] = "set"]
    /\ UNCHANGED <<stateVars, mainVars, seen, faults, history>>

(* Process p has read the record, and will write its own copy of it.      *)
Writing(p) ==
    \/ pc[p] \in {"put", "ownmarshal", "ownput"}
    \/ pc[p] = "own" /\ ~ram[p].owner

(* The SET of the pipeline; when the pipeline fails nothing is published. *)
CancelSet(w) ==
    /\ cpc[w] = "set"
    /\ \/ /\ key' = cheld[w]
          /\ cpc' = [cpc EXCEPT ![w] = "publish"]
          /\ gap' = (gap \/ cheld[w].status # "cancelled" \/ \E p \in Proc : Writing(p))
          /\ NoFault
       \/ /\ Fault
          /\ cpc' = [cpc EXCEPT ![w] = "row"]
          /\ UNCHANGED <<key, gap>>
    /\ cheld' = [cheld EXCEPT ![w] = NoState]
    /\ UNCHANGED <<row, stored, msg, ram, mainVars, seen, published, unheard>>

(* The PUBLISH of the pipeline reaches whoever is subscribed now. *)
CancelPublish(w) ==
    /\ cpc[w] = "publish"
    /\ \/ /\ sub' = [p \in Proc |-> IF sub[p] = "open" THEN "msg" ELSE sub[p]]
          /\ published' = TRUE
          /\ unheard' = (unheard \/ \E p \in Proc : sub[p] = "asked" /\ pc[p] # "reread")
          /\ NoFault
       \/ /\ Fault
          /\ UNCHANGED <<sub, published, unheard>>
    /\ cpc' = [cpc EXCEPT ![w] = "row"]
    /\ UNCHANGED <<stateVars, pc, role, held, ctx, cheld, seen, gap>>

(* Mutants: every row that exists is unfinished; only a "processing" one is. *)
UnfinishedAlways(status) == status # "none"
UnfinishedOnceStarted(status) == status = "processing"

Unfinished(status) == status \in {"pending", "processing"}

(* CancelTTSChunk touches an unfinished row only. *)
CancelRow(w) ==
    /\ cpc[w] = "row"
    /\ Records(IF Unfinished(row.status) THEN [row EXCEPT !.status = "cancelled"]
                                         ELSE row)
    /\ cpc' = [cpc EXCEPT ![w] = "done"]
    /\ UNCHANGED <<stored, key, msg, ram, mainVars, cheld, seen, history>>
-----------------------------------------------------------------------------
(* A status poll, the owner check of any task request, or the first lookup *)
(* of an SSE stream at w: one TaskManager.Get that changes something.      *)

PollReads(w) ==
    /\ seen[w] = NoState
    /\ key # NoState
    /\ ram[w].status \notin Terminal
    /\ ~MapLocked(w)
    /\ seen' = [seen EXCEPT ![w] = key]
    /\ UNCHANGED <<stateVars, mainVars, cancelVars, faults, history>>

PollApplies(w) ==
    /\ seen[w] # NoState
    /\ ~MapLocked(w)
    /\ ram' = [ram EXCEPT ![w] = Refreshed(w, seen[w])]
    /\ seen' = [seen EXCEPT ![w] = NoState]
    /\ UNCHANGED <<row, stored, key, msg, mainVars, cancelVars, faults, history>>

(* cron: ReconcileStaleChunks.  updated_at is not refreshed between the    *)
(* insert and the last write, so any unfinished row may be old enough.     *)
Reconcile ==
    /\ Unfinished(row.status)
    /\ row' = [row EXCEPT !.status = "error"]
    /\ UNCHANGED <<stored, key, msg, ram, mainVars, cancelVars, seen, faults, history>>
-----------------------------------------------------------------------------
(* What the environment may do, within the bound on faults. *)

(* Process p dies: its RAM, its threads and its subscriptions are gone.    *)
Crash(p) ==
    /\ Fault
    /\ Goto(p, IF pc[p] \in {"idle", "sent", "end"} THEN pc[p] ELSE "dead")
    /\ ram' = [ram EXCEPT ![p] = NoState]
    /\ held' = [held EXCEPT ![p] = NoState]
    /\ sub' = [sub EXCEPT ![p] = "none"]
    /\ cpc' = [w \in Web |-> IF w = p /\ cpc[w] \notin {"idle", "refused", "done"}
                             THEN "dead" ELSE cpc[w]]
    /\ cheld' = [w \in Web |-> IF w = p THEN NoState ELSE cheld[w]]
    /\ seen' = [w \in Web |-> IF w = p THEN NoState ELSE seen[w]]
    /\ UNCHANGED <<row, stored, key, msg, role, ctx, history>>

(* The key expires, or Redis restarts without its data. *)
LoseKey ==
    /\ Fault
    /\ key' = NoState
    /\ UNCHANGED <<row, stored, msg, ram, mainVars, cancelVars, seen, history>>

(* The entry is trimmed, dropped by a worker that shuts down, or lost with Redis. *)
LoseMessage ==
    /\ Fault
    /\ msg \in {"queued", "twice"}
    /\ msg' = Fewer
    /\ UNCHANGED <<row, stored, key, ram, mainVars, cancelVars, seen, history>>
-----------------------------------------------------------------------------
Submission(w) == Register(w) \/ Send(w)

Preparation(p) ==
    \/ GetOrCreateHit(p)
    \/ GetOrCreateRead(p)
    \/ GetOrCreatePut(p)
    \/ SetOwner(p)
    \/ SetOwnerMarshal(p)
    \/ SetOwnerPut(p)

Running(p) ==
    \/ WatchLocal(p)
    \/ WatchSubscribe(p)
    \/ WatchReread(p)
    \/ CallEngine(p)
    \/ EngineReturns(p)
    \/ Failed(p)
    \/ CheckCancel(p)
    \/ StorePut(p)
    \/ RowDone(p)
    \/ RowFail(p)
    \/ RowError(p)
    \/ RowCancel(p)
    \/ NotifyLocal(p)
    \/ NotifyMarshal(p)
    \/ NotifySet(p)

Listening(p) == WatchJoins(p) \/ Hear(p)

Cancelling(w) ==
    \/ CancelArrives(w)
    \/ CancelPrecheck(w)
    \/ CancelGet(w)
    \/ CancelFlag(w)
    \/ CancelSay(w)
    \/ CancelMarshal(w)
    \/ CancelSet(w)
    \/ CancelPublish(w)
    \/ CancelRow(w)

Polling(w) == PollReads(w) \/ PollApplies(w)

Next ==
    \/ \E w \in Web : Submission(w)
    \/ \E k \in Worker : Deliver(k)
    \/ \E p \in Proc : Preparation(p) \/ Running(p) \/ Listening(p) \/ Crash(p)
    \/ \E w \in Cancellers : Cancelling(w)
    \/ \E w \in Pollers : Polling(w)
    \/ Reconcile
    \/ LoseKey
    \/ LoseMessage

Spec == Init /\ [][Next]_vars

(* Threads that can move do move: the Go scheduler runs every goroutine,   *)
(* every Redis and SQL call has a timeout, the Engine client has one too,  *)
(* and the cron process scans for ever.  Nobody has to submit or cancel.   *)
Fairness ==
    /\ \A w \in Web : WF_vars(Send(w))
    /\ WF_vars(\E k \in Worker : Deliver(k))
    /\ \A p \in Proc : WF_vars(Preparation(p) \/ Running(p))
    /\ \A p \in Proc : WF_vars(Hear(p))
    /\ WF_vars(Reconcile)

FairSpec == Spec /\ Fairness
-----------------------------------------------------------------------------
(* Properties *)

MainPlace ==
    {"idle", "get", "put", "own", "ownmarshal", "ownput", "send", "sent", "watch",
     "reread", "call", "engine", "failed", "check", "store", "rowdone", "saydone",
     "mardone", "setdone", "rowfail", "sayfail", "sayerr", "marerr", "seterr",
     "rowerr", "rowcancel", "end", "dead"}
CancelPlace ==
    {"idle", "precheck", "get", "flag", "say", "marshal", "set", "publish", "row",
     "done", "refused", "dead"}

(* Every variable holds a value of its kind. *)
TypeOK ==
    /\ row \in RowState
    /\ stored \in BOOLEAN
    /\ key \in TaskState
    /\ msg \in {"none", "queued", "twice", "gone"}
    /\ ram \in [Proc -> TaskState]
    /\ pc \in [Proc -> MainPlace]
    /\ role \in [Proc -> {"submit", "run"}]
    /\ held \in [Proc -> TaskState]
    /\ ctx \in [Proc -> {"live", "cut"}]
    /\ sub \in [Proc -> {"none", "asked", "open", "msg"}]
    /\ cpc \in [Web -> CancelPlace]
    /\ cheld \in [Web -> TaskState]
    /\ seen \in [Web -> TaskState]
    /\ faults \in 0..MaxFaults
    /\ published \in BOOLEAN
    /\ gap \in BOOLEAN
    /\ unheard \in BOOLEAN

(* Wherever a reader may learn that the task is done (the row history is   *)
(* made from, the Redis record, any process's copy), the audio is already  *)
(* in the store, whatever fails or crashes: synth.Run stores first, writes *)
(* the row next and announces last, and a failed Put never becomes "done". *)
DoneIsDurable ==
    /\ row.status = "done" => row.path
    /\ row.path => stored
    /\ key.status = "done" => stored
    /\ \A p \in Proc : ram[p].status = "done" => stored

(* When the Redis record says done, so does the row: a client that reacts  *)
(* to the last progress event finds the chunk finished in its history.     *)
DoneIsInHistory == faults = 0 /\ key.status = "done" => row.status = "done"

(* A run can miss a cancel in three ways only: the cancel was stored while *)
(* some process stood between its read of the record and its write of it   *)
(* (GetOrCreate, SetOwner); a poll at the cancelling process set the item  *)
(* back between two critical sections of the cancel; or it was published   *)
(* after the re-read of WatchCancel and before Redis had its SUBSCRIBE.    *)
(* In every other order, a run whose Engine call is under way has been     *)
(* cut, or holds the message that will cut it.                             *)
OnlyTheGapsLoseCancel ==
    faults = 0 /\ published /\ ~gap /\ ~unheard =>
        \A p \in Proc : pc[p] = "engine" => ctx[p] = "cut" \/ sub[p] = "msg"

(* WatchCancel's comment claims more: "No single execution falls through   *)
(* both gaps at once" (task_item.go), even if SUBSCRIBE is in time.        *)
NoCancelFallsThrough ==
    faults = 0 /\ published /\ ~unheard =>
        \A p \in Proc : pc[p] = "engine" => ctx[p] = "cut" \/ sub[p] = "msg"

(* A run that is over leaves a final status at the key, so that pollers on *)
(* every process stop waiting, unless a cancel fell into one of those gaps *)
(* or is still being served: a cancelled run itself announces nothing.     *)
EndIsVisible ==
    faults = 0 /\ ~gap /\ (\A w \in Web : cpc[w] \in {"idle", "refused", "done"}) =>
        \A p \in Proc : pc[p] = "end" => key.status \in Terminal

(* With no cancel, the two stores a user can ask agree once the run ends,  *)
(* even when the reconciler gave up on the row while the run was going on. *)
StoresAgree ==
    faults = 0 /\ (\A w \in Web : cpc[w] = "idle") =>
        \A p \in Proc : pc[p] = "end" => key.status = row.status

(* The row as ChunkLifecycle describes it; a run is open as long as its    *)
(* write of the row is ahead.                                              *)
BeforeRow ==
    MainPlace \ {"sent", "saydone", "mardone", "setdone", "sayfail", "end", "dead"}

Open == {p \in Proc : pc[p] \in BeforeRow}

Chunk == INSTANCE ChunkLifecycle WITH
            Run     <- Proc,
            status  <- row.status,
            path    <- row.path,
            durable <- stored,
            open    <- Open

(* The row keeps the promise of ChunkLifecycle: a cancel or a reconcile    *)
(* never overwrites a finished row, a run writes one outcome at most, and  *)
(* "done" only over stored audio.                                          *)
ImplementsChunk == Chunk!Spec

(* No chunk stays unfinished for ever, whatever crashes or is lost: the    *)
(* run writes its outcome or the reconciler gives up on it.                *)
EventuallySettled == row.status = "pending" ~> row.status \in Terminal
=============================================================================
