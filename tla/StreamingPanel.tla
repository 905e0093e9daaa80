--------------------------- MODULE StreamingPanel ---------------------------
(***************************************************************************)
(* The StreamingPanel of a browser, on the rows of module JobRows: it has  *)
(* a text synthesized chunk by chunk, tries each again when it fails, and  *)
(* plays what is ready; or it is loaded with a job of the history.         *)
(*                                                                         *)
(* A handler of the browser runs up to its next await: the steps of the    *)
(* panel are what lies between two of them.  Its loop is normally the only *)
(* one, but nothing keeps InitJob's answer from starting a second one.     *)
(***************************************************************************)
EXTENDS JobRows

CONSTANTS
    FreshJob,   \* the ids a new job may get ('job_' + Date.now())
    Attempts    \* the attempts at a chunk, 3

ASSUME PanelAssumption == FreshJob \subseteq Job /\ Attempts \in Nat \ {0}

VARIABLES
    panel,      \* the state of the component
    loop,       \* the runs of generateChunksLoop: where they wait, for what
    orphans,    \* what the loops of closed panels are going to submit
    detail,     \* reloadedJob of the App, a detail as it was read once
    dropped     \* history: tasks whose result nobody waits for, or knows of, any more

vars == <<rowVars, panel, loop, orphans, detail, dropped>>

Runs == {1, 2}
NoLoop == [at |-> "none", cur |-> 1, attempt |-> 1, task |-> 0]
NoDetail == [job |-> 0, had |-> {}, here |-> FALSE]

(* shown is the status of a chunk, url the chunks with something to play,   *)
(* dead permanentError, play currentPlayIndex (0 for none), paused          *)
(* isCancelled.  For the properties: restored are the chunks that were      *)
(* loaded and not synthesized here, doubled that two loops have been at     *)
(* work side by side.                                                       *)
Closed ==
    [open |-> FALSE, init |-> FALSE, job |-> 0, shown |-> [i \in Chunk |-> "pending"],
     url |-> {}, dead |-> {}, play |-> 0, paused |-> FALSE, completed |-> FALSE,
     generating |-> FALSE, restored |-> {}, doubled |-> FALSE]

Init ==
    /\ RowsInit
    /\ panel = Closed
    /\ loop = [l \in Runs |-> NoLoop]
    /\ orphans = {}
    /\ detail = NoDetail
    /\ dropped = {}
-----------------------------------------------------------------------------
(* generateChunksLoop *)

Seen(p, i, status) == [p EXCEPT !.shown[i] = status]
SameChunk(j, i) == {t \in Task : task[t].job = j /\ task[t].index = i}

Submit(j, i) ==
    /\ built < MaxTasks
    /\ built' = built + 1
    /\ task' = [task EXCEPT ![built'] = [job |-> j, index |-> i, status |-> "sent"]]

(* synthesize, of chunk i by loop l.  A chunk that plays is not "ready", and *)
(* is submitted again; two loops submit what the other one waits for.       *)
Post(l, i, attempt, p, gone) ==
    /\ Submit(p.job, i)
    /\ loop' = [loop EXCEPT ![l] = [at |-> "post", cur |-> i, attempt |-> attempt,
                                    task |-> built']]
    /\ panel' = p
    /\ dropped' = gone \cup
          IF p.shown[i] = "playing" \/ p.doubled
          THEN SameChunk(p.job, i) ELSE {}

(* The run that starts next; which of two is the first makes no difference. *)
Free(l) == loop[l].at = "none" /\ \A k \in Runs : k < l => loop[k].at # "none"

(* A loop starts, from chunk 1. *)
Started(p) ==
    [p EXCEPT !.generating = TRUE, !.doubled = @ \/ \E k \in Runs : loop[k].at # "none"]

Ended(l, p, gone) ==
    /\ loop' = [loop EXCEPT ![l] = NoLoop]
    /\ panel' = [p EXCEPT !.generating = FALSE]
    /\ dropped' = gone
    /\ UNCHANGED <<task, built>>

(* Mutant: what is ready already is not skipped. *)
ToDoAll(p, i) == {k \in Chunk : k >= i /\ k \notin p.dead}

ToDo(p, i) == {k \in Chunk : k >= i /\ p.shown[k] # "ready" /\ k \notin p.dead}

(* Loop l goes on from chunk i, to the next await or to its end. *)
Loop(l, i, p, gone) ==
    \/ p.paused /\ Ended(l, p, gone)
    \/ /\ ~p.paused /\ ToDo(p, i) = {}
       /\ Ended(l, [p EXCEPT !.completed = TRUE], gone)
    \/ /\ ~p.paused
       /\ \E k \in ToDo(p, i) :
             /\ \A n \in ToDo(p, i) : k <= n
             /\ Post(l, k, 1, p, gone)

(* An attempt has failed: the next one, or the next chunk.  A session that  *)
(* is over ends the loop as if the text were done.                          *)
TryAgain(l, gone) ==
    LET i == loop[l].cur
        given == [Seen(panel, i, "error") EXCEPT !.dead = @ \cup {i}]
    IN  \/ panel.paused /\ Ended(l, panel, gone)
        \/ /\ ~panel.paused /\ loop[l].attempt < Attempts
           /\ panel' = Seen(panel, i, "retrying")
           /\ loop' = [loop EXCEPT ![l] = [at |-> "backoff", cur |-> i, task |-> 0,
                                           attempt |-> loop[l].attempt + 1]]
           /\ dropped' = gone
           /\ UNCHANGED <<task, built>>
        \/ /\ ~panel.paused /\ loop[l].attempt = Attempts
           /\ \/ Loop(l, i + 1, given, gone)
              \/ /\ task[loop[l].task].status = "refused"
                 /\ Ended(l, [given EXCEPT !.completed = TRUE], gone)

(* The wait is over; whether the user has paused meanwhile does not matter. *)
Backoff(l) ==
    /\ loop[l].at = "backoff"
    /\ Post(l, loop[l].cur, loop[l].attempt, panel, dropped)
    /\ UNCHANGED <<job, strayed, faults, orphans, detail>>

(* The answer to synthesize: accepted, refused, lost. *)
Answered(l) ==
    /\ loop[l].at = "post"
    /\ \/ /\ task[loop[l].task].status \in RowStatus
          /\ loop' = [loop EXCEPT ![l].at = "stream"]
          /\ UNCHANGED <<task, built, panel, dropped, faults>>
       \/ /\ task[loop[l].task].status = "refused"
          /\ TryAgain(l, dropped)
          /\ UNCHANGED faults
       \/ Fault /\ TryAgain(l, dropped \cup {loop[l].task})
    /\ UNCHANGED <<job, strayed, orphans, detail>>

(* What has come; chunk 1 starts to play unless another one has been played. *)
Arrived(i) ==
    LET first == i = 1 /\ panel.play = 0
    IN  [Seen(panel, i, IF first THEN "playing" ELSE "ready") EXCEPT
           !.url = @ \cup {i}, !.restored = @ \ {i}, !.play = IF first THEN 1 ELSE @]

(* Mutant: the stream resolves whatever the end is. *)
StreamDoneAnyhow(l) ==
    /\ loop[l].at = "stream"
    /\ Told(loop[l].task) \/ task[loop[l].task].status = "error"
    /\ \/ panel.paused /\ Ended(l, panel, dropped \cup {loop[l].task})
       \/ ~panel.paused /\ Loop(l, loop[l].cur + 1, Arrived(loop[l].cur), dropped)
    /\ UNCHANGED <<job, strayed, faults, orphans, detail>>

(* The stream says done, whatever the row says, and the audio is there.     *)
(* What comes while the panel is paused is thrown away.                     *)
StreamDone(l) ==
    /\ loop[l].at = "stream" /\ Told(loop[l].task)
    /\ \/ panel.paused /\ Ended(l, panel, dropped \cup {loop[l].task})
       \/ ~panel.paused /\ Loop(l, loop[l].cur + 1, Arrived(loop[l].cur), dropped)
    /\ UNCHANGED <<job, strayed, faults, orphans, detail>>

(* The stream says error or cancelled, perhaps before the row does; or it   *)
(* is closed for good, or the audio cannot be fetched.                      *)
StreamFails(l) ==
    /\ loop[l].at = "stream"
    /\ TryAgain(l, dropped \cup {loop[l].task})
    /\ \/ task[loop[l].task].status # "done" /\ UNCHANGED faults
       \/ Fault
    /\ UNCHANGED <<job, strayed, orphans, detail>>
-----------------------------------------------------------------------------
(* The handlers of the panel *)

(* startStreamingJob with a new text; a click while another panel is open   *)
(* closes that one first.  With a detail at hand it is Remount.             *)
Start(j) ==
    /\ ~panel.open /\ ~detail.here
    /\ job[j].user # Me
    /\ panel' = [Closed EXCEPT !.open = TRUE, !.init = TRUE, !.job = j]
    /\ UNCHANGED <<rowVars, loop, orphans, detail, dropped>>

(* InitJob, and its answer, which the panel does not look at. *)
InitAnswered(l) ==
    /\ panel.init /\ Free(l)
    /\ \/ Ensure(Me, panel.job) /\ UNCHANGED faults
       \/ UNCHANGED job /\ Fault
    /\ Loop(l, 1, Started([panel EXCEPT !.init = FALSE]), dropped)
    /\ UNCHANGED <<strayed, orphans, detail>>

(* handleCancel *)
Pause ==
    /\ panel.open /\ ~panel.completed /\ ~panel.paused
    /\ panel' = [panel EXCEPT !.paused = TRUE]
    /\ UNCHANGED <<rowVars, loop, orphans, detail, dropped>>

(* handleResume; while a loop is generating, the click does nothing. *)
Resume(l) ==
    /\ panel.open /\ panel.paused /\ ~panel.completed /\ ~panel.generating
    /\ Free(l)
    /\ Loop(l, 1, Started([panel EXCEPT !.paused = FALSE]), dropped)
    /\ UNCHANGED <<job, strayed, faults, orphans, detail>>

(* playChunk; handleAudioEnded goes on to the next chunk, if it can. *)
Playing(p, i) ==
    LET q == IF p.play # 0 /\ p.shown[p.play] = "playing" THEN Seen(p, p.play, "ready") ELSE p
    IN  [Seen(q, i, "playing") EXCEPT !.play = i]

Play(i) ==
    /\ i \in panel.url
    /\ panel' = Playing(panel, i)
    /\ UNCHANGED <<rowVars, loop, orphans, detail, dropped>>

AudioEnded ==
    /\ panel.play # 0
    /\ panel' = LET over == Seen(panel, panel.play, "ready") IN
                IF panel.play + 1 \in panel.url THEN Playing(over, panel.play + 1) ELSE over
    /\ UNCHANGED <<rowVars, loop, orphans, detail, dropped>>

(* The panel goes: its loops stop at the next check of isCancelled.  After  *)
(* a backoff there is none before the next request.                         *)
Leave(gone) ==
    /\ loop' = [l \in Runs |-> NoLoop]
    /\ orphans' = orphans \cup {[job |-> panel.job, index |-> loop[l].cur] :
                                   l \in {k \in Runs : loop[k].at = "backoff"}}
    /\ dropped' = dropped \cup ({loop[l].task : l \in Runs} \ {0}) \cup gone
    /\ UNCHANGED job \/ (panel.init /\ Ensure(Me, panel.job))
    /\ UNCHANGED <<task, built, strayed, faults>>

(* handleCloseStreaming; a detail that is under way still comes. *)
Close ==
    /\ panel.open
    /\ Leave({})
    /\ panel' = Closed
    /\ detail' = IF detail.here THEN NoDetail ELSE detail

OrphanPost(o) ==
    /\ Submit(o.job, o.index)
    /\ orphans' = orphans \ {o}
    /\ dropped' = dropped \cup SameChunk(o.job, o.index) \cup {built'}
    /\ UNCHANGED <<job, strayed, faults, panel, loop, detail>>

(* reloadJob: the detail is read, and comes later (handleReloadJob).  Bound: *)
(* one at a time, under way or here.                                        *)
ReadDetail(j) ==
    /\ detail = NoDetail /\ Rows(j) # {}
    /\ detail' = [job |-> j, had |-> Indexes(Rows(j)), here |-> FALSE]
    /\ UNCHANGED <<rowVars, panel, loop, orphans, dropped>>

DetailComes ==
    /\ detail # NoDetail
    /\ detail' = [detail EXCEPT !.here = TRUE]
    /\ UNCHANGED <<rowVars, panel, loop, orphans, dropped>>

(* The GenericEnginePanel has the detail opened, at once or when it is      *)
(* mounted again, and as often: in a panel that takes the place of the open *)
(* one.  A chunk that had a row is ready, whatever its status; of those     *)
(* that have got one since, the panel does not know.                        *)
Remount ==
    /\ detail.here
    /\ Leave({t \in Task : task[t].job = detail.job /\ task[t].index \notin detail.had})
    /\ LET had == detail.had
           p == [Closed EXCEPT !.open = TRUE, !.job = detail.job, !.paused = TRUE, !.url = had,
                   !.shown = [i \in Chunk |-> IF i \in had THEN "ready" ELSE "pending"],
                   !.completed = had = Chunk, !.restored = had]
       IN  panel' = IF 1 \in had THEN Playing(p, 1) ELSE p
    /\ UNCHANGED detail
-----------------------------------------------------------------------------
Next ==
    \/ RowsNext /\ UNCHANGED <<panel, loop, orphans, detail, dropped>>
    \/ \E j \in FreshJob : Start(j)
    \/ \E l \in Runs :
          InitAnswered(l) \/ Resume(l) \/ Backoff(l) \/ Answered(l) \/ StreamDone(l)
          \/ StreamFails(l)
    \/ Pause \/ AudioEnded \/ Close \/ DetailComes \/ Remount
    \/ \E i \in Chunk : Play(i)
    \/ \E o \in orphans : OrphanPost(o)
    \/ \E j \in Job : ReadDetail(j)

Spec == Init /\ [][Next]_vars
-----------------------------------------------------------------------------
(* What the panel has synthesized itself and shows as ready is done in the  *)
(* job's row, and once all of it is, the history says that the job is       *)
(* complete; but for the chunks of a task announced as done whose UPDATE    *)
(* failed, or that ran a second time to another end, and for those loaded   *)
(* from the history (generateChunksLoop, startStreamingJob, Run).           *)
ReadyIsInHistory ==
    LET ready == {i \in Chunk : panel.shown[i] \in {"ready", "playing"}}
                 \ (panel.restored \cup Indexes(Rows(panel.job) \cap strayed))
        done == Indexes({t \in Rows(panel.job) : task[t].status = "done"})
    IN  panel.open =>
           /\ ready \subseteq done
           /\ ready = Chunk => Summary(panel.job).complete

(* A chunk is submitted again only if what was submitted before was refused, *)
(* or nobody waits for it any more (a stream that told of its end or was    *)
(* closed, a lost answer, a pause or a close), or the panel plays it, or a  *)
(* second loop or the loop of a closed panel submits it, or the panel was   *)
(* loaded from a detail without it: every task costs the Engine a run       *)
(* (generateChunksLoop, subscribeTaskStream, handleReloadJob).              *)
WorkIsNotRepeated ==
    [][built' # built =>
         \A t \in 1..built :
            /\ task[t].job = task'[built'].job
            /\ task[t].index = task'[built'].index
            => task[t].status = "refused" \/ t \in dropped']_built
=============================================================================
