------------------------------- MODULE JobRows -------------------------------
(***************************************************************************)
(* The rows of tts_jobs and tts_chunks, and the two views of them: the     *)
(* summaries of the history list, grouped by SQL, and the detail of a job, *)
(* put together in Go.                                                     *)
(*                                                                         *)
(* A chunk row is named by its task, and the tasks are numbered as they    *)
(* are submitted.  One number stands for the request that submits a task   *)
(* ("sent", and "job" between the two statements of RegisterJobAndChunk;   *)
(* "refused" leaves no row) and for the row it inserts.  What becomes of a *)
(* row is up to the worker, which modules ChunkLifecycle and SynthTask     *)
(* describe.                                                               *)
(***************************************************************************)
EXTENDS Integers, FiniteSets

CONSTANTS
    User,       \* the user names
    Me,         \* the user of the browser, an administrator
    Nobody,     \* no user
    Job,        \* the job ids, which are compared as the text of tts_jobs.id is
    Earlier,    \* Earlier[j]: owner and creation time of a job that exists, ...
    Later,      \* ... and how much newer than the newest one a new job can be
    NumChunks,  \* the chunks of a text
    MaxTasks,   \* bound: the requests to synthesize
    MaxFaults   \* bound: failed statements, lost answers, second runs of a task

ASSUME RowsAssumption ==
    /\ Me \in User /\ Nobody \notin User
    /\ Job \subseteq Nat \ {0}
    /\ \A j \in Job : Earlier[j] \in [user : User \cup {Nobody}, at : Nat]
    /\ Later \subseteq Nat
    /\ NumChunks \in Nat \ {0}
    /\ MaxTasks \in Nat /\ MaxFaults \in Nat

VARIABLES
    job,        \* tts_jobs; a job without a user does not exist
    task,       \* the requests to synthesize, and the rows of tts_chunks
    built,      \* how many there are
    strayed,    \* tasks announced as done whose row was not made so, or not left so
    faults      \* how much of MaxFaults is spent

rowVars == <<job, task, built, strayed, faults>>

Task == 1..MaxTasks
Chunk == 1..NumChunks
RowStatus == {"pending", "done", "error", "cancelled"} \* nothing writes "processing"
NoTask == [job |-> 0, index |-> 0, status |-> "none"]

Fault == faults < MaxFaults /\ faults' = faults + 1
Become(t, status) == task' = [task EXCEPT ![t].status = status]

Exists(j) == job[j].user # Nobody
JobsOf(u) == {j \in Job : job[j].user = u}

RowsInit ==
    \* ... at the start, or Nobody's
    /\ job = [j \in Job |-> [user |-> Earlier[j].user, at |-> Earlier[j].at, total |-> 1]]
    /\ task = [t \in Task |-> NoTask]
    /\ built = 0
    /\ strayed = {}
    /\ faults = 0
-----------------------------------------------------------------------------
(* The two views *)

Rows(j) == {t \in Task : task[t].job = j /\ task[t].status \in RowStatus}
Indexes(S) == {task[t].index : t \in S}
Greater(m, n) == IF m > n THEN m ELSE n

(* Mutant: the rows are counted, and not the indexes they have. *)
SummaryCountingRows(j) ==
    LET rows == Rows(j)
        done == Cardinality({t \in rows : task[t].status = "done"})
        total == Greater(job[j].total, Cardinality(rows))
    IN [done |-> done, total |-> total, complete |-> done = total /\ total > 0]

(* ListUserHistorySummaries and the progress getHistoryForUser makes of it. *)
Summary(j) ==
    LET rows == Rows(j)
        done == Cardinality(Indexes({t \in rows : task[t].status = "done"}))
        total == Greater(job[j].total, Cardinality(Indexes(rows)))
    IN [done |-> done, total |-> total, complete |-> done = total /\ total > 0]

(* statusPriority *)
Priority == [done |-> 4, processing |-> 3, pending |-> 2, error |-> 1, cancelled |-> 1]

(* GetJobDetail: for an index, one of the rows that have come furthest.     *)
Best(rows, i) ==
    LET at == {t \in rows : task[t].index = i}
    IN {t \in at : \A s \in at : Priority[task[s].status] <= Priority[task[t].status]}

DetailStatuses(j) ==
    LET rows == Rows(j)
    IN [i \in Indexes(rows) |-> {task[t].status : t \in Best(rows, i)}]
-----------------------------------------------------------------------------
(* The handlers, and what becomes of a row *)

(* EnsureTTSJob.  The new row is the newest, or was made in the same moment *)
(* as the newest; an existing one stays as it is.                           *)
Newest == {n \in {job[j].at : j \in Job} : \A j \in Job : job[j].at <= n}
Ensure(u, j) ==
    IF Exists(j) THEN UNCHANGED job
    ELSE \E n \in Newest : \E d \in Later :
            job' = [job EXCEPT ![j] = [user |-> u, at |-> n + d, total |-> NumChunks]]

(* Mutant: whose job it is is not looked at. *)
EnsureJobOfAnybody(t) ==
    /\ task[t].status = "sent"
    /\ \/ Ensure(Me, task[t].job) /\ Become(t, "job") /\ UNCHANGED faults
       \/ UNCHANGED job /\ Become(t, "refused") /\ Fault
    /\ UNCHANGED <<built, strayed>>

(* RegisterJobAndChunk, the first statement: 403 if the job is another's,  *)
(* 500 if the statement fails.                                             *)
EnsureJob(t) ==
    /\ task[t].status = "sent"
    /\ \/ /\ job[task[t].job].user \in {Me, Nobody}
          /\ Ensure(Me, task[t].job)
          /\ Become(t, "job")
          /\ UNCHANGED faults
       \/ /\ job[task[t].job].user \notin {Me, Nobody}
          /\ Become(t, "refused")
          /\ UNCHANGED <<job, faults>>
       \/ UNCHANGED job /\ Become(t, "refused") /\ Fault
    /\ UNCHANGED <<built, strayed>>

(* The second statement; when it fails, the job remains, perhaps empty.    *)
CreateChunk(t) ==
    /\ task[t].status = "job"
    /\ \/ Become(t, "pending") /\ UNCHANGED faults
       \/ Become(t, "refused") /\ Fault
    /\ UNCHANGED <<job, built, strayed>>

Unfinished == {"pending", "error", "cancelled"}

(* A cancel or the reconciler withdraws the row, or its run reports on it;  *)
(* the run may do so after the row was withdrawn (ChunkLifecycle).          *)
TaskEnds(t) ==
    /\ task[t].status \in Unfinished
    /\ \E status \in {"done", "error", "cancelled"} : Become(t, status)
    /\ UNCHANGED <<job, built, strayed, faults>>

(* The run has stored the audio and its UPDATE of the row fails: that is    *)
(* logged, and the task is announced as done all the same.                  *)
EndUnsaved(t) ==
    /\ task[t].status \in Unfinished
    /\ Fault
    /\ strayed' = strayed \cup {t}
    /\ UNCHANGED <<job, task, built>>

(* A second run of the task puts its end over the first one's (JobQueue).   *)
EndAgain(t) ==
    /\ task[t].status = "done"
    /\ Fault
    /\ \E status \in {"error", "cancelled"} : Become(t, status)
    /\ strayed' = strayed \cup {t}
    /\ UNCHANGED <<job, built>>

(* Run announces a task as done after the UPDATE, whether or not it failed. *)
Told(t) == task[t].status = "done" \/ t \in strayed

RowsNext ==
    \E t \in Task :
       EnsureJob(t) \/ CreateChunk(t) \/ TaskEnds(t) \/ EndUnsaved(t) \/ EndAgain(t)
-----------------------------------------------------------------------------
RowsTypeOK ==
    /\ job \in [Job -> [user : User \cup {Nobody}, at : Nat, total : Nat]]
    /\ task \in [Task -> [job : Job \cup {0}, index : Chunk \cup {0},
                          status : {"none", "sent", "job", "refused"} \cup RowStatus]]
    /\ built \in 0..MaxTasks
    /\ strayed \subseteq Task
    /\ faults \in 0..MaxFaults

(* The progress "done/total" of the history list and what GetJobDetail      *)
(* shows of a job agree whenever both look at the same rows, however often  *)
(* a chunk was tried again: the first is counted by SQL, the second comes   *)
(* out of the scan with its priorities (getHistoryForUser, GetJobDetail).   *)
DetailAgrees ==
    \A j \in Job :
       LET listed == Summary(j)
           shown == DetailStatuses(j)
           done == {i \in DOMAIN shown : shown[i] = {"done"}}
       IN /\ listed.done = Cardinality(done)
          /\ listed.total = Greater(job[j].total, Cardinality(DOMAIN shown))
          /\ listed.complete => done = DOMAIN shown

(* Nobody's chunk is in a job of somebody else: two browsers may choose the *)
(* same id, and an administrator can load the job of another user and let   *)
(* it go on (EnsureTTSJob, RegisterJobAndChunk).                            *)
ChunksAreTheOwners == \A j \in Job : Rows(j) # {} => job[j].user = Me
=============================================================================
