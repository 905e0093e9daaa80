---------------------------- MODULE JobViewsProofs ----------------------------
(* Theorems about the two views that a browser has of the jobs: the          *)
(* StreamingPanel, and below it the HistoryModal, both on the rows of        *)
(* JobRows; for any jobs, users, chunks, attempts, pages and bounds.         *)
EXTENDS StreamingPanel, HistoryModal, FiniteSetTheorems, FunctionTheorems, SequenceTheorems, TLAPS

-----------------------------------------------------------------------------
(* The rows *)

(* A request is for a job and a chunk; one that has come to the job's owner *)
(* finds the user of the browser there.                                     *)
Settled ==
    \A t \in Task :
       /\ t <= built => task[t].job \in Job /\ task[t].index \in Chunk
       /\ t > built => task[t] = NoTask
       /\ task[t].status \in {"job"} \cup RowStatus => task[t].job \in Job /\ job[task[t].job].user = Me
       /\ t \in strayed => task[t].status \in RowStatus
Totals == \A j \in Job : job[j].total \in {1, NumChunks}
RowsOK == RowsTypeOK /\ Settled /\ Totals

-----------------------------------------------------------------------------
(* The panel *)

Sight == {"pending", "ready", "playing", "retrying", "error"}
PanelType ==
    [open : BOOLEAN, init : BOOLEAN, job : Job \cup {0}, shown : [Chunk -> Sight],
     url : SUBSET Chunk, dead : SUBSET Chunk, play : Chunk \cup {0}, paused : BOOLEAN,
     completed : BOOLEAN, generating : BOOLEAN, restored : SUBSET Chunk, doubled : BOOLEAN]
LoopType ==
    [at : {"none", "post", "backoff", "stream"}, cur : Chunk, attempt : 1..Attempts,
     task : 0..MaxTasks]
TypeOK ==
    /\ panel \in PanelType
    /\ loop \in [Runs -> LoopType]
    /\ orphans \subseteq [job : Job, index : Chunk]
    /\ dropped \subseteq Task
    /\ detail = NoDetail \/ detail \in [job : Job, had : SUBSET Chunk, here : BOOLEAN]

(* A loop waits for a task of its own, of the panel's job.                  *)
Working ==
    /\ panel.init => panel.open
    /\ panel.open => panel.job \in Job
    /\ \A l \in Runs :
          /\ loop[l].at # "none" => panel.open
          /\ loop[l].at \in {"none", "backoff"} => loop[l].task = 0
          /\ loop[l].at \in {"post", "stream"} =>
                /\ loop[l].task \in 1..built
                /\ task[loop[l].task].job = panel.job
                /\ task[loop[l].task].index = loop[l].cur
    /\ ~panel.doubled => \A k, l \in Runs : loop[k].at # "none" /\ loop[l].at # "none" => k = l

(* What can be played was loaded, or is said to be done; what is ready can  *)
(* be played.                                                               *)
SaidOf(j) == Indexes({t \in Rows(j) : Told(t)})
DoneOf(j) == Indexes({t \in Rows(j) : task[t].status = "done"})
Playable ==
    panel.open =>
      /\ panel.play # 0 => panel.play \in panel.url
      /\ \A i \in Chunk : panel.shown[i] \in {"ready", "playing"} => i \in panel.url
      /\ panel.url \ panel.restored \subseteq SaidOf(panel.job)

(* A task that may still be wanted: not refused, and not left by everyone.  *)
Wanted(t) == t \in 1..built /\ task[t].status # "refused" /\ t \notin dropped
Awaited(t) == \E l \in Runs : loop[l].task = t
Of(t, j, i) == task[t].job = j /\ task[t].index = i

(* It is waited for or said to be done; if it is the panel's and not waited *)
(* for, it is shown so; and a loop is alone with its chunk.                 *)
Accounted == \A t \in Task : Wanted(t) => Awaited(t) \/ Told(t)
Shown ==
    panel.open /\ ~panel.doubled =>
       \A t \in Task, i \in Chunk :
          Wanted(t) /\ Of(t, panel.job, i) /\ ~Awaited(t) => panel.shown[i] \in {"ready", "playing"}
Single ==
    ~panel.doubled =>
       \A l \in Runs, t \in Task :
          loop[l].at # "none" /\ Wanted(t) /\ Of(t, panel.job, loop[l].cur) => loop[l].task = t
PanelOK == TypeOK /\ Working /\ Playable /\ Accounted /\ Shown /\ Single

-----------------------------------------------------------------------------
(* One step on, seen by the panel *)

(* What is ready to see of a panel p, if it were the next one. *)
ViewOK(p) ==
    /\ p \in PanelType
    /\ p.init => p.open
    /\ p.open =>
         /\ p.job \in Job
         /\ p.play # 0 => p.play \in p.url
         /\ \A i \in Chunk : p.shown[i] \in {"ready", "playing"} => i \in p.url
         /\ p.url \ p.restored \subseteq SaidOf(p.job)

(* Loop l hands panel p and the tasks that are gone to whatever is next: it *)
(* has left its own, and all that is wanted still is shown.                 *)
Handed(l, p, gone) ==
    /\ ViewOK(p) /\ p.open /\ panel.open /\ p.job = panel.job
    /\ dropped \subseteq gone /\ gone \subseteq Task
    /\ \/ loop[l].task \in {0} \cup gone
       \/ task[loop[l].task].status = "refused"
       \/ Told(loop[l].task)
    /\ ~p.doubled =>
         /\ \A k \in Runs : k # l => loop[k].at = "none"
         /\ \A t \in Task, i \in Chunk :
               Wanted(t) /\ t \notin gone /\ Of(t, p.job, i) => p.shown[i] \in {"ready", "playing"}

(* Panels that differ in nothing but what the button shows. *)
Alike(p, q) ==
    /\ q.open = p.open /\ q.init = p.init /\ q.job = p.job /\ q.shown = p.shown
    /\ q.url = p.url /\ q.play = p.play /\ q.restored = p.restored /\ q.doubled = p.doubled

LEMMA HandedAlike ==
    ASSUME NEW l, NEW gone, NEW p, NEW q \in PanelType, Handed(l, p, gone), Alike(p, q)
    PROVE  Handed(l, q, gone)
BY DEF Handed, ViewOK, Alike

LEMMA ButtonType ==
    ASSUME NEW p \in PanelType, NEW b \in BOOLEAN
    PROVE  /\ [p EXCEPT !.generating = b] \in PanelType /\ Alike(p, [p EXCEPT !.generating = b])
           /\ [p EXCEPT !.completed = b] \in PanelType /\ Alike(p, [p EXCEPT !.completed = b])
           /\ [p EXCEPT !.paused = b] \in PanelType /\ Alike(p, [p EXCEPT !.paused = b])
BY DEF PanelType, Alike

LEMMA ChunkOne == 1 \in Chunk /\ 0 \notin Chunk
BY RowsAssumption DEF Chunk

LEMMA ClosedType ==
    /\ Closed \in PanelType /\ ~Closed.open /\ ~Closed.init /\ Closed.play = 0
    /\ Closed.url = {} /\ Closed.shown = [i \in Chunk |-> "pending"] /\ ~Closed.doubled
    /\ Closed.job = 0 /\ Closed.restored = {}
<1>1. /\ Closed \in PanelType /\ Closed.open = FALSE /\ Closed.init = FALSE /\ Closed.play = 0
      /\ Closed.url = {} /\ Closed.shown = [i \in Chunk |-> "pending"] /\ Closed.doubled = FALSE
      /\ Closed.job = 0 /\ Closed.restored = {}
  BY DEF Closed, PanelType, Sight
<1>2. QED BY <1>1

LEMMA NoLoopType == NoLoop \in LoopType /\ NoLoop.at = "none" /\ NoLoop.task = 0
BY ChunkOne, PanelAssumption, RowsAssumption DEF NoLoop, LoopType

(* q is panel p with chunk i shown otherwise. *)
Shows(p, q, i, status) ==
    /\ q.shown[i] = status
    /\ \A k \in Chunk : k # i => q.shown[k] = p.shown[k]
    /\ q.open = p.open /\ q.init = p.init /\ q.job = p.job /\ q.url = p.url
    /\ q.play = p.play /\ q.restored = p.restored /\ q.doubled = p.doubled

LEMMA SeenFacts ==
    ASSUME NEW p \in PanelType, NEW i \in Chunk, NEW s \in Sight
    PROVE  Seen(p, i, s) \in PanelType /\ Shows(p, Seen(p, i, s), i, s)
BY DEF Seen, PanelType, Shows

(* A new request, at the end of the rows. *)
LEMMA SubmitFacts ==
    ASSUME RowsOK, NEW j \in Job, NEW i \in Chunk, Submit(j, i), UNCHANGED strayed
    PROVE  /\ built' = built + 1 /\ built' \in Task /\ built \in Nat
           /\ task'[built'].job = j /\ task'[built'].index = i /\ task'[built'].status = "sent"
           /\ \A t \in Task : t # built' => task'[t] = task[t]
           /\ \A t \in Task : t \in 1..built' <=> t = built' \/ t \in 1..built
           /\ task[built'] = NoTask
           /\ \A k \in Job : SaidOf(k)' = SaidOf(k)
<1>1. built \in Nat /\ built < MaxTasks /\ MaxTasks \in Nat
  BY RowsAssumption DEF RowsOK, RowsTypeOK, Submit
<1>2. built' = built + 1 /\ built' \in Task
  BY <1>1 DEF Submit, Task
<1>3. task' = [task EXCEPT ![built'] = [job |-> j, index |-> i, status |-> "sent"]]
  BY DEF Submit
<1>4. /\ task'[built'] = [job |-> j, index |-> i, status |-> "sent"]
      /\ \A t \in Task : t # built' => task'[t] = task[t]
  BY <1>2, <1>3 DEF RowsOK, RowsTypeOK
<1>5. /\ task'[built'].job = j /\ task'[built'].index = i /\ task'[built'].status = "sent"
  BY <1>4
<1>6. task[built'] = NoTask
  BY <1>1, <1>2 DEF RowsOK, Settled
<1>7. \A t \in Task : t \in 1..built' <=> t = built' \/ t \in 1..built
  BY <1>1, <1>2 DEF Task
<1>8. ASSUME NEW k \in Job PROVE SaidOf(k)' = SaidOf(k)
  <2>1. task[built'].status = "none" /\ strayed' = strayed
    BY <1>6 DEF NoTask
  <2>2. \A t \in Task : t # built' => (Told(t)' <=> Told(t))
    BY <1>4, <2>1 DEF Told
  <2>3. \A t : t \in {s \in Rows(k)' : Told(s)'} <=> t \in {s \in Rows(k) : Told(s)}
    BY <1>4, <1>5, <2>1, <2>2 DEF Rows, RowStatus
  <2>4. \A t : t \in {s \in Rows(k) : Told(s)} => t \in Task /\ t # built'
    BY <2>1 DEF Rows, RowStatus
  <2>5. SaidOf(k)' = {task'[t].index : t \in {s \in Rows(k)' : Told(s)'}}
    BY DEF SaidOf, Indexes
  <2>6. SaidOf(k) = {task[t].index : t \in {s \in Rows(k) : Told(s)}}
    BY DEF SaidOf, Indexes
  <2>7. {s \in Rows(k)' : Told(s)'} = {s \in Rows(k) : Told(s)}
    BY <2>3
  <2>8. QED BY <1>4, <2>4, <2>5, <2>6, <2>7
<1>9. QED BY <1>1, <1>2, <1>4, <1>5, <1>6, <1>7, <1>8

-----------------------------------------------------------------------------
(* The rows in a step *)

(* Jobs are created, and never change hands. *)
JobsKept ==
    /\ job' \in [Job -> [user : User \cup {Nobody}, at : Nat, total : Nat]]
    /\ \A j \in Job : /\ job'[j].total \in {1, NumChunks}
                      /\ job[j].user = Me => job'[j].user = Me
    /\ faults' \in 0..MaxFaults

LEMMA JobsSame ==
    ASSUME RowsOK, job' = job, faults' = faults \/ Fault
    PROVE  JobsKept
<1>1. faults' \in 0..MaxFaults
  BY RowsAssumption DEF RowsOK, RowsTypeOK, Fault
<1>2. QED BY <1>1 DEF RowsOK, RowsTypeOK, Totals, JobsKept

LEMMA EnsureKeeps ==
    ASSUME RowsOK, NEW j \in Job, Ensure(Me, j), faults' = faults
    PROVE  JobsKept /\ (job[j].user \in {Me, Nobody} => job'[j].user = Me)
<1>1. CASE Exists(j)
  BY <1>1, JobsSame DEF Ensure, Exists
<1>2. CASE ~Exists(j)
  <2>1. PICK n \in Newest : \E d \in Later :
             job' = [job EXCEPT ![j] = [user |-> Me, at |-> n + d, total |-> NumChunks]]
    BY <1>2 DEF Ensure
  <2>2. PICK d \in Later :
             job' = [job EXCEPT ![j] = [user |-> Me, at |-> n + d, total |-> NumChunks]]
    BY <2>1
  <2>3. n \in Nat
    BY DEF Newest, RowsOK, RowsTypeOK
  <2>4. n + d \in Nat
    BY <2>2, <2>3, RowsAssumption
  <2>5. [user |-> Me, at |-> n + d, total |-> NumChunks] \in [user : User \cup {Nobody}, at : Nat, total : Nat]
    BY <2>4, RowsAssumption
  <2>6. job' \in [Job -> [user : User \cup {Nobody}, at : Nat, total : Nat]]
    BY <2>2, <2>5 DEF RowsOK, RowsTypeOK
  <2>7. /\ job'[j].user = Me /\ job'[j].total = NumChunks
        /\ \A k \in Job : k # j => job'[k] = job[k]
    BY <2>2 DEF RowsOK, RowsTypeOK
  <2>8. QED BY <2>6, <2>7 DEF JobsKept, RowsOK, RowsTypeOK, Totals
<1>3. QED BY <1>1, <1>2

LEMMA SameRows ==
    ASSUME RowsOK, JobsKept, UNCHANGED <<task, built, strayed>>
    PROVE  RowsOK'
BY DEF RowsOK, RowsTypeOK, Settled, Totals, JobsKept

LEMMA SubmitRows ==
    ASSUME RowsOK, JobsKept, NEW j \in Job, NEW i \in Chunk, Submit(j, i), UNCHANGED strayed
    PROVE  RowsOK'
<1>1. /\ built' = built + 1 /\ built' \in Task /\ built \in Nat
      /\ task'[built'].job = j /\ task'[built'].index = i /\ task'[built'].status = "sent"
      /\ \A t \in Task : t # built' => task'[t] = task[t]
  BY SubmitFacts
<1>2. RowsTypeOK'
  <2>1. task' = [task EXCEPT ![built'] = [job |-> j, index |-> i, status |-> "sent"]]
    BY DEF Submit
  <2>2. QED BY <1>1, <2>1, RowsAssumption DEF RowsOK, RowsTypeOK, JobsKept, Task
<1>3. ASSUME NEW t \in Task
      PROVE  /\ t <= built' => task'[t].job \in Job /\ task'[t].index \in Chunk
             /\ t > built' => task'[t] = NoTask
             /\ task'[t].status \in {"job"} \cup RowStatus =>
                   task'[t].job \in Job /\ job'[task'[t].job].user = Me
             /\ t \in strayed => task'[t].status \in RowStatus
  <2>1. CASE t = built'
    <3>1. task[t] = NoTask /\ NoTask.status \notin RowStatus
      BY <2>1, SubmitFacts DEF NoTask, RowStatus
    <3>2. t \notin strayed
      BY <3>1 DEF RowsOK, Settled
    <3>3. QED BY <1>1, <2>1, <3>2 DEF RowStatus, Task
  <2>2. CASE t # built'
    BY <1>1, <2>2 DEF RowsOK, Settled, Task, JobsKept
  <2>3. QED BY <2>1, <2>2
<1>4. QED BY <1>2, <1>3 DEF RowsOK, Settled, Totals, JobsKept

(* A request or a row moves on. *)
LEMMA BecomeRows ==
    ASSUME RowsOK, JobsKept, UNCHANGED built, NEW t \in Task,
           NEW s \in {"job", "refused"} \cup RowStatus, Become(t, s), task[t].status # "none",
           s \in {"job"} \cup RowStatus => job'[task[t].job].user = Me,
           strayed' \in {strayed, strayed \cup {t}}, t \in strayed' => s \in RowStatus
    PROVE  /\ RowsOK'
           /\ task'[t].job = task[t].job /\ task'[t].index = task[t].index /\ task'[t].status = s
           /\ \A r \in Task : r # t => task'[r] = task[r]
           /\ t \in 1..built
<1>1. /\ task' = [task EXCEPT ![t].status = s]
      /\ task[t] \in [job : Job \cup {0}, index : Chunk \cup {0},
                      status : {"none", "sent", "job", "refused"} \cup RowStatus]
  BY DEF Become, RowsOK, RowsTypeOK
<1>2. /\ task'[t] = [task[t] EXCEPT !.status = s]
      /\ \A r \in Task : r # t => task'[r] = task[r]
  BY <1>1 DEF RowsOK, RowsTypeOK
<1>3. /\ task'[t].job = task[t].job /\ task'[t].index = task[t].index /\ task'[t].status = s
  BY <1>1, <1>2
<1>4. RowsTypeOK'
  BY <1>1 DEF RowsOK, RowsTypeOK, JobsKept, RowStatus
<1>5. t \in 1..built /\ built' = built
  BY DEF RowsOK, RowsTypeOK, Settled, NoTask, Task
<1>6. ASSUME NEW r \in Task
      PROVE  /\ r <= built => task'[r].job \in Job /\ task'[r].index \in Chunk
             /\ r > built => task'[r] = NoTask
             /\ task'[r].status \in {"job"} \cup RowStatus =>
                   task'[r].job \in Job /\ job'[task'[r].job].user = Me
             /\ r \in strayed' => task'[r].status \in RowStatus
  <2>1. /\ r <= built => task[r].job \in Job /\ task[r].index \in Chunk
        /\ r > built => task[r] = NoTask
        /\ task[r].status \in {"job"} \cup RowStatus =>
              task[r].job \in Job /\ job[task[r].job].user = Me
        /\ r \in strayed => task[r].status \in RowStatus
    BY DEF RowsOK, Settled
  <2>2. CASE r = t
    <3>1. r <= built /\ ~(r > built)
      BY <1>5, <2>2 DEF RowsOK, RowsTypeOK
    <3>2. QED BY <1>3, <2>1, <2>2, <3>1
  <2>3. CASE r # t
    BY <1>2, <2>1, <2>3 DEF JobsKept
  <2>4. QED BY <2>2, <2>3
<1>7. QED BY <1>2, <1>3, <1>4, <1>5, <1>6 DEF RowsOK, Settled, Totals, JobsKept

LEMMA RowsInitOK == RowsInit => RowsOK
<1> SUFFICES ASSUME RowsInit PROVE RowsOK
  OBVIOUS
<1>1. \A j \in Job : Earlier[j].user \in User \cup {Nobody} /\ Earlier[j].at \in Nat
  BY RowsAssumption
<1>2. job \in [Job -> [user : User \cup {Nobody}, at : Nat, total : Nat]] /\ Totals
  BY <1>1 DEF RowsInit, Totals
<1>3. NoTask \in [job : Job \cup {0}, index : Chunk \cup {0},
                 status : {"none", "sent", "job", "refused"} \cup RowStatus]
  BY DEF NoTask
<1>4. RowsTypeOK
  BY <1>2, <1>3, RowsAssumption DEF RowsTypeOK, RowsInit
<1>5. Settled
  BY DEF RowsInit, Settled, Task, NoTask, RowStatus
<1>6. QED BY <1>2, <1>4, <1>5 DEF RowsOK

-----------------------------------------------------------------------------
(* What a loop does next *)

(* Loop l ends. *)
LEMMA EndKeeps ==
    ASSUME PanelOK, NEW l \in Runs, NEW p, NEW gone, Handed(l, p, gone), Ended(l, p, gone),
           UNCHANGED <<orphans, strayed, detail>>
    PROVE  PanelOK'
<1> DEFINE q == [p EXCEPT !.generating = FALSE]
<1>1. p \in PanelType
  BY DEF Handed, ViewOK
<1>2. q \in PanelType /\ Alike(p, q)
  BY <1>1, ButtonType
<1>3. Handed(l, q, gone)
  BY <1>1, <1>2, HandedAlike
<1>4. /\ panel' = q /\ dropped' = gone /\ UNCHANGED <<task, built>>
      /\ loop' = [loop EXCEPT ![l] = NoLoop]
  BY DEF Ended
<1> HIDE DEF q
<1>5. /\ loop' \in [Runs -> LoopType]
      /\ loop'[l].at = "none" /\ loop'[l].task = 0
      /\ \A k \in Runs : k # l => loop'[k] = loop[k]
  BY <1>4, NoLoopType DEF PanelOK, TypeOK
<1>6. ViewOK(panel)'
  BY <1>3, <1>4 DEF Handed, ViewOK, SaidOf, Told, Rows, Indexes
<1>7. \A t \in Task : Wanted(t)' => Wanted(t) /\ t \notin gone
  BY <1>3, <1>4 DEF Wanted, Handed
<1>8. \A t \in Task : Wanted(t)' => (Awaited(t)' \/ Told(t)')
  <2> SUFFICES ASSUME NEW t \in Task, Wanted(t)', ~Awaited(t)' PROVE Told(t)
    BY <1>4 DEF Told
  <2>1. Wanted(t) /\ t \notin gone
    BY <1>7
  <2>2. CASE loop[l].task = t
    BY <2>1, <2>2, <1>3, RowsAssumption DEF Handed, Wanted, Task
  <2>3. CASE loop[l].task # t
    <3>1. ~Awaited(t)
      BY <1>5, <2>3 DEF Awaited
    <3>2. QED BY <2>1, <3>1 DEF PanelOK, Accounted
  <2>4. QED BY <2>2, <2>3
<1>9. Shown'
  BY <1>3, <1>4, <1>7 DEF Shown, Handed, Of
<1>10. Single'
  BY <1>3, <1>4, <1>5 DEF Single, Handed
<1>11. ASSUME NEW k \in Runs
       PROVE  /\ loop'[k].at # "none" => panel'.open
              /\ loop'[k].at \in {"none", "backoff"} => loop'[k].task = 0
              /\ loop'[k].at \in {"post", "stream"} =>
                    /\ loop'[k].task \in 1..built
                    /\ task[loop'[k].task].job = panel'.job
                    /\ task[loop'[k].task].index = loop'[k].cur
  BY <1>3, <1>4, <1>5 DEF Handed, PanelOK, Working
<1>12. ~panel'.doubled => \A k, m \in Runs : loop'[k].at # "none" /\ loop'[m].at # "none" => k = m
  BY <1>3, <1>4, <1>5 DEF Handed
<1>13. dropped' \subseteq Task
  BY <1>3, <1>4 DEF Handed
<1>14. TypeOK' /\ Working' /\ Playable'
  BY <1>4, <1>5, <1>6, <1>11, <1>12, <1>13 DEF TypeOK, Working, Playable, ViewOK, PanelOK
<1>15. Accounted'
  BY <1>8 DEF Accounted
<1>16. QED BY <1>9, <1>10, <1>14, <1>15 DEF PanelOK

(* The tasks of another request for the same chunk are done with. *)
NotRepeated ==
    built' # built =>
         \A t \in 1..built :
            /\ task[t].job = task'[built'].job
            /\ task[t].index = task'[built'].index
            => task[t].status = "refused" \/ t \in dropped'

(* Loop l submits chunk i. *)
LEMMA PostKeeps ==
    ASSUME PanelOK, RowsOK, JobsKept, NEW l \in Runs, NEW p, NEW gone, Handed(l, p, gone),
           NEW i \in Chunk, NEW attempt \in 1..Attempts, Post(l, i, attempt, p, gone),
           \/ p.doubled \/ p.shown[i] = "playing"
           \/ \A t \in Task : Wanted(t) /\ t \notin gone => ~Of(t, p.job, i),
           UNCHANGED <<orphans, strayed, detail>>
    PROVE  PanelOK' /\ RowsOK' /\ NotRepeated
<1>0. p \in PanelType /\ p.job \in Job /\ p.job = panel.job /\ p.open
  BY DEF Handed, ViewOK
<1>1. /\ Submit(p.job, i) /\ panel' = p
      /\ loop' = [loop EXCEPT ![l] = [at |-> "post", cur |-> i, attempt |-> attempt, task |-> built']]
      /\ dropped' = gone \cup IF p.shown[i] = "playing" \/ p.doubled THEN SameChunk(p.job, i) ELSE {}
  BY DEF Post
<1>2. /\ built' = built + 1 /\ built' \in Task /\ built \in Nat
      /\ task'[built'].job = p.job /\ task'[built'].index = i /\ task'[built'].status = "sent"
      /\ \A t \in Task : t # built' => task'[t] = task[t]
      /\ \A t \in Task : t \in 1..built' <=> t = built' \/ t \in 1..built
      /\ \A k \in Job : SaidOf(k)' = SaidOf(k)
  BY <1>0, <1>1, SubmitFacts
<1>a. \A t \in 1..built : t \in Task /\ t # built' /\ t \in 1..built'
  BY <1>2, RowsAssumption DEF Task
<1>3. /\ loop'[l] = [at |-> "post", cur |-> i, attempt |-> attempt, task |-> built']
      /\ \A k \in Runs : k # l => loop'[k] = loop[k]
      /\ loop' \in [Runs -> LoopType]
  BY <1>1, <1>2, RowsAssumption DEF PanelOK, TypeOK, LoopType, Task
<1>4. loop'[l].at = "post" /\ loop'[l].cur = i /\ loop'[l].task = built'
  BY <1>3
<1>5. gone \subseteq dropped' /\ dropped' \subseteq Task
  BY <1>1 DEF Handed, SameChunk
<1>6. ASSUME NEW t \in Task, Wanted(t)', t # built' PROVE Wanted(t) /\ t \notin gone
  BY <1>2, <1>5, <1>6 DEF Wanted, Handed
<1>7. ASSUME NEW t \in Task, Wanted(t)', t # built', task[t].job = p.job, task[t].index = i PROVE FALSE
  <2>1. Wanted(t) /\ t \notin gone /\ t \notin dropped'
    BY <1>6, <1>7 DEF Wanted
  <2>2. Of(t, p.job, i)
    BY <1>7 DEF Of
  <2>3. CASE p.doubled \/ p.shown[i] = "playing"
    BY <1>1, <1>7, <2>1, <2>3 DEF SameChunk
  <2>4. QED BY <2>1, <2>2, <2>3
<1>8. Accounted'
  <2> SUFFICES ASSUME NEW t \in Task, Wanted(t)', ~Awaited(t)' PROVE Told(t)'
    BY DEF Accounted
  <2>1. t # built'
    BY <1>4 DEF Awaited
  <2>2. Wanted(t) /\ t \notin gone /\ task'[t] = task[t] /\ t # 0
    BY <1>2, <1>6, <2>1, RowsAssumption DEF Task
  <2>3. Told(t)' <=> Told(t)
    BY <2>2 DEF Told
  <2>4. CASE loop[l].task = t
    BY <2>2, <2>3, <2>4 DEF Handed, Wanted
  <2>5. CASE loop[l].task # t
    <3>1. ~Awaited(t)
      BY <1>3, <2>5 DEF Awaited
    <3>2. QED BY <2>2, <2>3, <3>1 DEF PanelOK, Accounted
  <2>6. QED BY <2>4, <2>5
<1>9. Shown'
  <2> SUFFICES ASSUME ~p.doubled, NEW t \in Task, NEW k \in Chunk,
                      Wanted(t)', Of(t, p.job, k)', ~Awaited(t)'
               PROVE  p.shown[k] \in {"ready", "playing"}
    BY <1>1 DEF Shown, Of
  <2>1. t # built'
    BY <1>4 DEF Awaited
  <2>2. Wanted(t) /\ t \notin gone /\ Of(t, p.job, k)
    BY <1>1, <1>2, <1>6, <2>1 DEF Of
  <2>3. QED BY <2>2 DEF Handed
<1>10. Single'
  <2> SUFFICES ASSUME ~p.doubled, NEW k \in Runs, NEW t \in Task, loop'[k].at # "none", Wanted(t)',
                      task'[t].job = p.job, task'[t].index = loop'[k].cur
               PROVE  loop'[k].task = t
    BY <1>1 DEF Single, Of
  <2>1. k = l
    BY <1>3 DEF Handed
  <2>2. t = built'
    BY <1>2, <1>4, <1>7, <2>1
  <2>3. QED BY <1>4, <2>1, <2>2
<1>11. ASSUME NEW k \in Runs
       PROVE  /\ loop'[k].at # "none" => panel'.open
              /\ loop'[k].at \in {"none", "backoff"} => loop'[k].task = 0
              /\ loop'[k].at \in {"post", "stream"} =>
                    /\ loop'[k].task \in 1..built'
                    /\ task'[loop'[k].task].job = panel'.job
                    /\ task'[loop'[k].task].index = loop'[k].cur
  <2>1. CASE k = l
    BY <1>0, <1>1, <1>2, <1>4, <2>1
  <2>2. CASE k # l
    <3>1. loop'[k] = loop[k] /\ panel'.open /\ panel'.job = panel.job
      BY <1>0, <1>1, <1>3, <2>2
    <3>2. ASSUME loop[k].task \in 1..built
          PROVE  loop[k].task \in 1..built' /\ task'[loop[k].task] = task[loop[k].task]
      BY <1>2, <1>a, <3>2
    <3>3. QED BY <3>1, <3>2 DEF PanelOK, Working
  <2>3. QED BY <2>1, <2>2
<1>12. ~panel'.doubled => \A k, m \in Runs : loop'[k].at # "none" /\ loop'[m].at # "none" => k = m
  BY <1>1, <1>3 DEF Handed
<1>13. ViewOK(panel)'
  BY <1>0, <1>1, <1>2 DEF Handed, ViewOK
<1>14. TypeOK' /\ Working' /\ Playable'
  BY <1>3, <1>5, <1>11, <1>12, <1>13 DEF TypeOK, Working, Playable, ViewOK, PanelOK
<1>15. NotRepeated
  <2> SUFFICES ASSUME NEW t \in 1..built, task[t].job = p.job, task[t].index = i,
                      task[t].status # "refused", t \notin dropped'
               PROVE  FALSE
    BY <1>2 DEF NotRepeated
  <2>1. t \in Task /\ t # built'
    BY <1>a
  <2>2. Wanted(t)'
    BY <1>2, <1>a, <2>1 DEF Wanted
  <2>3. QED BY <1>7, <2>1, <2>2
<1>16. RowsOK'
  BY <1>0, <1>1, SubmitRows
<1>17. QED BY <1>8, <1>9, <1>10, <1>14, <1>15, <1>16 DEF PanelOK

(* Loop l goes on from chunk i. *)
LEMMA LoopKeeps ==
    ASSUME PanelOK, RowsOK, JobsKept, NEW l \in Runs, NEW p, NEW gone, Handed(l, p, gone),
           NEW i, Loop(l, i, p, gone), UNCHANGED <<orphans, strayed, detail>>
    PROVE  PanelOK' /\ RowsOK' /\ NotRepeated
<1>0. p \in PanelType
  BY DEF Handed, ViewOK
<1>1. ASSUME NEW q, Handed(l, q, gone), Ended(l, q, gone) PROVE PanelOK' /\ RowsOK' /\ NotRepeated
  <2>1. PanelOK'
    BY <1>1, EndKeeps
  <2>2. UNCHANGED <<task, built>>
    BY <1>1 DEF Ended
  <2>3. QED BY <2>1, <2>2, SameRows DEF NotRepeated
<1>2. CASE Ended(l, p, gone)
  BY <1>1, <1>2
<1>3. CASE Ended(l, [p EXCEPT !.completed = TRUE], gone)
  <2>1. Handed(l, [p EXCEPT !.completed = TRUE], gone)
    BY <1>0, ButtonType, HandedAlike
  <2>2. QED BY <1>1, <1>3, <2>1
<1>4. ASSUME NEW k \in ToDo(p, i), Post(l, k, 1, p, gone)
      PROVE  PanelOK' /\ RowsOK' /\ NotRepeated
  <2>1. k \in Chunk /\ p.shown[k] # "ready" /\ 1 \in 1..Attempts
    BY PanelAssumption DEF ToDo
  <2>2. \/ p.doubled \/ p.shown[k] = "playing"
        \/ \A t \in Task : Wanted(t) /\ t \notin gone => ~Of(t, p.job, k)
    BY <2>1 DEF Handed
  <2>3. QED BY <1>4, <2>1, <2>2, PostKeeps
<1>5. QED BY <1>2, <1>3, <1>4 DEF Loop

(* The chunks that other tasks are still wanted for are not the loop's. *)
LEMMA HandedOver ==
    ASSUME PanelOK, NEW l \in Runs, NEW gone, NEW p,
           ViewOK(p), p.open, panel.open, p.job = panel.job, p.doubled = panel.doubled,
           dropped \subseteq gone, gone \subseteq Task, loop[l].at # "none",
           \/ loop[l].task \in {0} \cup gone
           \/ task[loop[l].task].status = "refused"
           \/ Told(loop[l].task),
           loop[l].task \in gone \/ task[loop[l].task].status = "refused" \/ loop[l].task = 0
              \/ p.shown[loop[l].cur] \in {"ready", "playing"},
           \A k \in Chunk : k # loop[l].cur => p.shown[k] = panel.shown[k]
    PROVE  Handed(l, p, gone)
<1>1. ASSUME ~p.doubled PROVE \A k \in Runs : k # l => loop[k].at = "none" /\ loop[k].task = 0
  BY <1>1 DEF PanelOK, Working
<1>2. ASSUME ~p.doubled, NEW t \in Task, NEW i \in Chunk, Wanted(t), t \notin gone, Of(t, p.job, i)
      PROVE  p.shown[i] \in {"ready", "playing"}
  <2>1. t # 0
    BY RowsAssumption DEF Task
  <2>2. CASE Awaited(t)
    <3>1. loop[l].task = t
      BY <1>1, <1>2, <2>1, <2>2 DEF Awaited
    <3>2. loop[l].at \in {"post", "stream"}
      BY <2>1, <3>1 DEF PanelOK, Working, TypeOK, LoopType
    <3>3. loop[l].cur = i
      BY <1>2, <3>1, <3>2 DEF PanelOK, Working, Of
    <3>4. QED BY <1>2, <2>1, <3>1, <3>3 DEF Wanted
  <2>3. CASE ~Awaited(t)
    <3>1. panel.shown[i] \in {"ready", "playing"}
      BY <1>2, <2>3 DEF PanelOK, Shown
    <3>2. loop[l].cur # i
      <4> SUFFICES ASSUME loop[l].cur = i PROVE FALSE
        OBVIOUS
      <4>1. loop[l].task = t
        BY <1>2 DEF PanelOK, Single
      <4>2. QED BY <2>3, <4>1 DEF Awaited
    <3>3. QED BY <3>1, <3>2
  <2>4. QED BY <2>2, <2>3
<1>3. QED BY <1>1, <1>2 DEF Handed

LEMMA Handing ==
    ASSUME PanelOK
    PROVE  /\ ViewOK(panel) /\ panel \in PanelType
           /\ \A l \in Runs : /\ loop[l] \in LoopType
                              /\ loop[l].at # "none" => panel.open
                              /\ loop[l].cur \in Chunk /\ loop[l].task \in 0..MaxTasks
                              /\ loop[l].attempt \in 1..Attempts
BY DEF PanelOK, TypeOK, Working, Playable, ViewOK, LoopType

(* Loop l waits before it tries its chunk again. *)
LEMMA RetryKeeps ==
    ASSUME PanelOK, RowsOK, JobsKept, NEW l \in Runs, loop[l].at # "none", NEW gone,
           dropped \subseteq gone, gone \subseteq Task,
           loop[l].task \in gone \/ task[loop[l].task].status = "refused",
           NEW q, ViewOK(q), q.open, q.job = panel.job, q.doubled = panel.doubled,
           \A k \in Chunk : k # loop[l].cur => q.shown[k] = panel.shown[k],
           NEW wait \in LoopType, wait.at = "backoff", wait.task = 0, wait.cur = loop[l].cur,
           panel' = q, loop' = [loop EXCEPT ![l] = wait], dropped' = gone,
           UNCHANGED <<task, built, orphans, strayed, detail>>
    PROVE  PanelOK' /\ RowsOK' /\ NotRepeated
<1>1. /\ loop'[l] = wait /\ loop' \in [Runs -> LoopType]
      /\ \A k \in Runs : k # l => loop'[k] = loop[k]
  BY DEF PanelOK, TypeOK
<1>2. ViewOK(panel)'
  BY DEF ViewOK, SaidOf, Told, Rows, Indexes
<1>3. ASSUME NEW t \in Task, Wanted(t)'
      PROVE  Wanted(t) /\ t # loop[l].task /\ (Awaited(t) => Awaited(t)')
  <2>1. Wanted(t) /\ t # loop[l].task
    BY <1>3 DEF Wanted
  <2>2. QED BY <1>1, <2>1 DEF Awaited
<1>4. Accounted'
  BY <1>3 DEF Accounted, PanelOK, Told
<1>5. Shown'
  <2> SUFFICES ASSUME ~panel.doubled, NEW t \in Task, NEW k \in Chunk,
                      Wanted(t)', Of(t, panel.job, k), ~Awaited(t)'
               PROVE  q.shown[k] \in {"ready", "playing"}
    BY DEF Shown, Of
  <2>1. Wanted(t) /\ ~Awaited(t) /\ loop[l].task # t
    BY <1>3
  <2>2. k # loop[l].cur
    BY <2>1 DEF PanelOK, Single
  <2>3. panel.open
    BY DEF PanelOK, Working
  <2>4. panel.shown[k] \in {"ready", "playing"}
    BY <2>1, <2>3 DEF PanelOK, Shown
  <2>5. QED BY <2>2, <2>4
<1>6. Single'
  <2> SUFFICES ASSUME ~panel.doubled, NEW k \in Runs, NEW t \in Task, loop'[k].at # "none",
                      Wanted(t)', Of(t, panel.job, loop'[k].cur)
               PROVE  loop'[k].task = t
    BY DEF Single, Of
  <2>1. Wanted(t) /\ t # loop[l].task
    BY <1>3
  <2>2. k = l
    BY <1>1 DEF PanelOK, Working
  <2>3. loop[l].task = t
    BY <1>1, <2>1, <2>2 DEF PanelOK, Single
  <2>4. QED BY <2>1, <2>3
<1>7. ASSUME NEW k \in Runs
      PROVE  /\ loop'[k].at # "none" => panel'.open
             /\ loop'[k].at \in {"none", "backoff"} => loop'[k].task = 0
             /\ loop'[k].at \in {"post", "stream"} =>
                   /\ loop'[k].task \in 1..built
                   /\ task[loop'[k].task].job = panel'.job
                   /\ task[loop'[k].task].index = loop'[k].cur
  BY <1>1 DEF PanelOK, Working
<1>8. ~panel'.doubled => \A k, m \in Runs : loop'[k].at # "none" /\ loop'[m].at # "none" => k = m
  BY <1>1 DEF PanelOK, Working
<1>9. TypeOK' /\ Working' /\ Playable'
  BY <1>1, <1>2, <1>7, <1>8 DEF TypeOK, Working, Playable, ViewOK, PanelOK
<1>10. QED BY <1>4, <1>5, <1>6, <1>9, SameRows DEF PanelOK, NotRepeated

(* An attempt of loop l has failed. *)
LEMMA TryAgainKeeps ==
    ASSUME PanelOK, RowsOK, JobsKept, NEW l \in Runs, loop[l].at \in {"post", "stream"}, NEW gone,
           dropped \subseteq gone, gone \subseteq Task,
           loop[l].task \in gone \/ task[loop[l].task].status = "refused",
           TryAgain(l, gone), UNCHANGED <<orphans, strayed, detail>>
    PROVE  PanelOK' /\ RowsOK' /\ NotRepeated
<1> DEFINE i == loop[l].cur
           seen == Seen(panel, i, "error")
           given == [seen EXCEPT !.dead = @ \cup {i}]
           again == Seen(panel, i, "retrying")
           wait == [at |-> "backoff", cur |-> i, task |-> 0, attempt |-> loop[l].attempt + 1]
<1>1. /\ ViewOK(panel) /\ panel \in PanelType /\ panel.open /\ i \in Chunk
      /\ loop[l].attempt \in 1..Attempts /\ loop[l] \in LoopType
  BY Handing
<1>2. \/ panel.paused /\ Ended(l, panel, gone)
      \/ /\ loop[l].attempt < Attempts
         /\ panel' = again
         /\ loop' = [loop EXCEPT ![l] = wait]
         /\ dropped' = gone
         /\ UNCHANGED <<task, built>>
      \/ Loop(l, i + 1, given, gone)
      \/ Ended(l, [given EXCEPT !.completed = TRUE], gone)
  BY DEF TryAgain
<1> HIDE DEF i
<1>3. "error" \in Sight /\ "retrying" \in Sight
  BY DEF Sight
<1>p. panel \in PanelType /\ i \in Chunk
  BY <1>1
<1>4. seen \in PanelType /\ Shows(panel, seen, i, "error")
  BY <1>p, <1>3, SeenFacts
<1>5. again \in PanelType /\ Shows(panel, again, i, "retrying")
  BY <1>p, <1>3, SeenFacts
<1> HIDE DEF seen, again
<1>6. given \in PanelType /\ Alike(seen, given)
  BY <1>1, <1>4 DEF PanelType, Alike
<1> HIDE DEF given
<1>7. ViewOK(seen) /\ ViewOK(again)
  BY <1>1, <1>4, <1>5 DEF ViewOK, Shows
<1>8. Handed(l, panel, gone)
  BY <1>1, HandedOver DEF i
<1>9. Handed(l, given, gone)
  <2>1. Handed(l, seen, gone)
    BY <1>1, <1>4, <1>7, HandedOver DEF i, Shows
  <2>2. QED BY <1>6, <2>1, HandedAlike
<1>10. ASSUME NEW q, Handed(l, q, gone), Ended(l, q, gone) PROVE PanelOK' /\ RowsOK' /\ NotRepeated
  <2>1. UNCHANGED <<task, built>>
    BY <1>10 DEF Ended
  <2>2. QED BY <1>10, <2>1, EndKeeps, SameRows DEF NotRepeated
<1>11. CASE Loop(l, i + 1, given, gone)
  BY <1>9, <1>11, LoopKeeps
<1>12. CASE Ended(l, [given EXCEPT !.completed = TRUE], gone)
  <2>1. Handed(l, [given EXCEPT !.completed = TRUE], gone)
    BY <1>6, <1>9, ButtonType, HandedAlike
  <2>2. QED BY <1>10, <1>12, <2>1
<1>13. CASE /\ loop[l].attempt < Attempts
            /\ panel' = again
            /\ loop' = [loop EXCEPT ![l] = wait]
            /\ dropped' = gone
            /\ UNCHANGED <<task, built>>
  <2>1. loop[l].attempt + 1 \in 1..Attempts /\ 0 \in 0..MaxTasks
    BY <1>1, <1>13, PanelAssumption, RowsAssumption
  <2>2. wait \in LoopType /\ wait.at = "backoff" /\ wait.task = 0 /\ wait.cur = i
    BY <1>1, <2>1 DEF LoopType
  <2> HIDE DEF wait
  <2>3. QED BY <1>1, <1>5, <1>7, <1>13, <2>2, RetryKeeps DEF i, Shows
<1>14. QED BY <1>2, <1>8, <1>10, <1>11, <1>12, <1>13

-----------------------------------------------------------------------------
(* The steps of the panel *)

LEMMA ArrivedFacts ==
    ASSUME panel \in PanelType, NEW i \in Chunk
    PROVE  /\ Arrived(i) \in PanelType
           /\ Arrived(i).shown[i] \in {"ready", "playing"}
           /\ \A k \in Chunk : k # i => Arrived(i).shown[k] = panel.shown[k]
           /\ Arrived(i).open = panel.open /\ Arrived(i).init = panel.init
           /\ Arrived(i).job = panel.job /\ Arrived(i).doubled = panel.doubled
           /\ Arrived(i).url = panel.url \cup {i}
           /\ Arrived(i).restored = panel.restored \ {i}
           /\ Arrived(i).play \in {panel.play, i}
<1> DEFINE first == i = 1 /\ panel.play = 0
           st == IF first THEN "playing" ELSE "ready"
           seen == Seen(panel, i, st)
           play == IF first THEN 1 ELSE seen.play
           q == [seen EXCEPT !.url = seen.url \cup {i}, !.restored = seen.restored \ {i}, !.play = play]
<1>1. Arrived(i) = q
  BY DEF Arrived
<1>2. st \in Sight /\ st \in {"ready", "playing"}
  BY DEF Sight
<1>3. seen \in PanelType /\ Shows(panel, seen, i, st)
  BY <1>2, SeenFacts
<1>4. play \in Chunk \cup {0} /\ play \in {panel.play, i}
  BY <1>3, ChunkOne DEF PanelType, Shows
<1> HIDE DEF seen, st, play
<1>5. q \in PanelType
  BY <1>3, <1>4 DEF PanelType
<1>6. /\ q.shown = seen.shown /\ q.open = seen.open /\ q.init = seen.init
      /\ q.job = seen.job /\ q.doubled = seen.doubled
      /\ q.url = seen.url \cup {i} /\ q.restored = seen.restored \ {i} /\ q.play = play
  BY <1>3 DEF PanelType
<1> HIDE DEF q
<1>7. QED BY <1>1, <1>2, <1>3, <1>4, <1>5, <1>6 DEF Shows

LEMMA PlayingFacts ==
    ASSUME NEW p \in PanelType, NEW i \in Chunk
    PROVE  /\ Playing(p, i) \in PanelType
           /\ Playing(p, i).shown[i] = "playing"
           /\ \A k \in Chunk : k # i => \/ Playing(p, i).shown[k] = p.shown[k]
                                        \/ /\ p.shown[k] = "playing"
                                           /\ Playing(p, i).shown[k] = "ready"
           /\ Playing(p, i).open = p.open /\ Playing(p, i).init = p.init
           /\ Playing(p, i).job = p.job /\ Playing(p, i).doubled = p.doubled
           /\ Playing(p, i).url = p.url /\ Playing(p, i).restored = p.restored
           /\ Playing(p, i).play = i
<1> DEFINE q == IF p.play # 0 /\ p.shown[p.play] = "playing" THEN Seen(p, p.play, "ready") ELSE p
           seen == Seen(q, i, "playing")
           r == [seen EXCEPT !.play = i]
<1>1. Playing(p, i) = r
  BY DEF Playing
<1>2. /\ q \in PanelType
      /\ \A k \in Chunk : \/ q.shown[k] = p.shown[k]
                          \/ p.shown[k] = "playing" /\ q.shown[k] = "ready"
      /\ q.open = p.open /\ q.init = p.init /\ q.job = p.job /\ q.doubled = p.doubled
      /\ q.url = p.url /\ q.restored = p.restored
  <2>1. CASE p.play # 0 /\ p.shown[p.play] = "playing"
    <3>1. p.play \in Chunk /\ "ready" \in Sight
      BY <2>1 DEF PanelType, Sight
    <3>2. q \in PanelType /\ Shows(p, q, p.play, "ready")
      BY <2>1, <3>1, SeenFacts
    <3>3. QED BY <2>1, <3>1, <3>2 DEF Shows
  <2>2. CASE ~(p.play # 0 /\ p.shown[p.play] = "playing")
    BY <2>2
  <2>3. QED BY <2>1, <2>2
<1> HIDE DEF q
<1>3. seen \in PanelType /\ Shows(q, seen, i, "playing")
  BY <1>2, SeenFacts DEF Sight
<1> HIDE DEF seen
<1>4. r \in PanelType
  BY <1>3 DEF PanelType
<1>5. /\ r.shown = seen.shown /\ r.open = seen.open /\ r.init = seen.init
      /\ r.job = seen.job /\ r.doubled = seen.doubled
      /\ r.url = seen.url /\ r.restored = seen.restored /\ r.play = i
  BY <1>3 DEF PanelType
<1> HIDE DEF r
<1>6. QED BY <1>1, <1>2, <1>3, <1>4, <1>5 DEF Shows

(* The panel shows and plays otherwise, and nothing else happens. *)
LEMMA ShownKeeps ==
    ASSUME PanelOK, NEW q, ViewOK(q), panel' = q, q.open = panel.open, q.job = panel.job,
           q.doubled = panel.doubled,
           \A k \in Chunk : panel.shown[k] \in {"ready", "playing"} => q.shown[k] \in {"ready", "playing"},
           UNCHANGED <<task, built, strayed, loop, orphans, detail, dropped>>
    PROVE  PanelOK'
<1>1. ViewOK(panel)'
  BY DEF ViewOK, SaidOf, Told, Rows, Indexes
<1>2. \A t \in Task : (Wanted(t)' <=> Wanted(t)) /\ (Awaited(t)' <=> Awaited(t))
  BY DEF Wanted, Awaited
<1>3. Accounted'
  BY <1>2 DEF PanelOK, Accounted, Told
<1>4. Shown'
  BY <1>2 DEF PanelOK, Shown, Of
<1>5. Single'
  BY <1>2 DEF PanelOK, Single, Of
<1>6. \A l \in Runs :
          /\ loop'[l].at # "none" => panel'.open
          /\ loop'[l].at \in {"none", "backoff"} => loop'[l].task = 0
          /\ loop'[l].at \in {"post", "stream"} =>
                /\ loop'[l].task \in 1..built
                /\ task[loop'[l].task].job = panel'.job
                /\ task[loop'[l].task].index = loop'[l].cur
  BY DEF PanelOK, Working
<1>7. ~panel'.doubled => \A k, m \in Runs : loop'[k].at # "none" /\ loop'[m].at # "none" => k = m
  BY DEF PanelOK, Working
<1>8. TypeOK' /\ Working' /\ Playable'
  BY <1>1, <1>6, <1>7 DEF TypeOK, Working, Playable, ViewOK, PanelOK
<1>9. QED BY <1>3, <1>4, <1>5, <1>8 DEF PanelOK

(* A row moves on under the panel. *)
LEMMA BecomeKeeps ==
    ASSUME PanelOK, RowsOK', UNCHANGED <<built, panel, loop, orphans, detail, dropped>>,
           \A r \in Task : /\ task'[r].job = task[r].job /\ task'[r].index = task[r].index
                           /\ Told(r) => Told(r)'
                           /\ task[r].status = "refused" => task'[r].status = "refused"
    PROVE  PanelOK'
<1>2. ASSUME NEW j PROVE SaidOf(j) \subseteq SaidOf(j)'
  <2> SUFFICES ASSUME NEW r \in Task, task[r].job = j, Told(r)
               PROVE  task[r].index \in SaidOf(j)'
    BY DEF SaidOf, Indexes, Rows
  <2>1. task'[r].job = j /\ Told(r)' /\ task'[r].index = task[r].index
    OBVIOUS
  <2>2. task'[r].status \in RowStatus
    BY <2>1 DEF RowsOK, Settled, Told, RowStatus
  <2>3. r \in {s \in Rows(j)' : Told(s)'}
    BY <2>1, <2>2 DEF Rows
  <2>4. QED BY <2>1, <2>3 DEF SaidOf, Indexes
<1>3. \A r \in Task : (Wanted(r)' => Wanted(r)) /\ (Awaited(r)' <=> Awaited(r))
  BY DEF Wanted, Awaited
<1>4. Accounted'
  <2> SUFFICES ASSUME NEW r \in Task, Wanted(r)', ~Awaited(r)' PROVE Told(r)'
    BY DEF Accounted
  <2>1. Wanted(r) /\ ~Awaited(r)
    BY <1>3
  <2>2. QED BY <2>1 DEF PanelOK, Accounted
<1>5. Shown'
  BY <1>3 DEF PanelOK, Shown, Of
<1>6. Single'
  BY <1>3 DEF PanelOK, Single, Of
<1>7. TypeOK' /\ Playable'
  <2>1. SaidOf(panel.job) \subseteq SaidOf(panel.job)'
    BY <1>2 DEF SaidOf, Told, Indexes, Rows
  <2>2. QED BY <2>1 DEF PanelOK, TypeOK, Playable
<1>8. Working'
  <2>1. ASSUME NEW l \in Runs, loop[l].at \in {"post", "stream"}
        PROVE  /\ loop[l].task \in 1..built
               /\ task'[loop[l].task].job = panel.job
               /\ task'[loop[l].task].index = loop[l].cur
    <3>1. /\ loop[l].task \in 1..built
          /\ task[loop[l].task].job = panel.job
          /\ task[loop[l].task].index = loop[l].cur
      BY <2>1 DEF PanelOK, Working
    <3>2. loop[l].task \in Task
      BY <3>1, RowsAssumption DEF PanelOK, TypeOK, LoopType, Task
    <3>3. QED BY <3>1, <3>2
  <2>2. QED BY <2>1 DEF PanelOK, Working
<1>9. QED BY <1>4, <1>5, <1>6, <1>7, <1>8 DEF PanelOK

LEMMA RowsStep ==
    ASSUME PanelOK, RowsOK, RowsNext, UNCHANGED <<panel, loop, orphans, detail, dropped>>
    PROVE  PanelOK' /\ RowsOK' /\ NotRepeated
<1> SUFFICES PanelOK' /\ RowsOK'
  <2>1. built' = built
    BY DEF RowsNext, EnsureJob, CreateChunk, TaskEnds, EndUnsaved, EndAgain
  <2>2. QED BY <2>1 DEF NotRepeated
<1>1. PICK t \in Task :
         EnsureJob(t) \/ CreateChunk(t) \/ TaskEnds(t) \/ EndUnsaved(t) \/ EndAgain(t)
  BY DEF RowsNext
<1>2. built' = built
  BY <1>1 DEF EnsureJob, CreateChunk, TaskEnds, EndUnsaved, EndAgain
<1>3. ASSUME JobsKept, NEW s \in {"job", "refused"} \cup RowStatus, Become(t, s),
             task[t].status \notin {"none", "refused"},
             s \in {"job"} \cup RowStatus => job'[task[t].job].user = Me,
             strayed' \in {strayed, strayed \cup {t}}, t \in strayed' => s \in RowStatus,
             Told(t) => s = "done" \/ t \in strayed'
      PROVE  PanelOK' /\ RowsOK'
  <2>1. /\ RowsOK'
        /\ task'[t].job = task[t].job /\ task'[t].index = task[t].index /\ task'[t].status = s
        /\ \A r \in Task : r # t => task'[r] = task[r]
        /\ t \in 1..built
    BY <1>2, <1>3, BecomeRows
  <2>2. \A r \in Task : /\ task'[r].job = task[r].job /\ task'[r].index = task[r].index
                        /\ Told(r) => Told(r)'
                        /\ task[r].status = "refused" => task'[r].status = "refused"
    BY <1>3, <2>1 DEF Told
  <2>3. QED BY <1>2, <2>1, <2>2, BecomeKeeps
<1>4. CASE EnsureJob(t)
  <2>1. task[t].status = "sent" /\ strayed' = strayed
    BY <1>4 DEF EnsureJob
  <2>2. task[t].job \in Job /\ t \notin strayed /\ ~Told(t)
    BY <2>1 DEF RowsOK, RowsTypeOK, Settled, NoTask, Task, Told, RowStatus
  <2>3. CASE /\ job[task[t].job].user \in {Me, Nobody}
             /\ Ensure(Me, task[t].job)
             /\ Become(t, "job")
             /\ UNCHANGED faults
    <3>1. JobsKept /\ job'[task[t].job].user = Me
      BY <2>2, <2>3, EnsureKeeps
    <3>2. QED BY <1>3, <2>1, <2>2, <2>3, <3>1
  <2>4. CASE Become(t, "refused") /\ UNCHANGED job /\ (UNCHANGED faults \/ Fault)
    <3>1. JobsKept
      BY <2>4, JobsSame
    <3>2. QED BY <1>3, <2>1, <2>2, <2>4, <3>1 DEF RowStatus
  <2>5. QED BY <1>4, <2>3, <2>4 DEF EnsureJob
<1>5. CASE CreateChunk(t)
  <2>1. task[t].status = "job" /\ job' = job /\ strayed' = strayed
    BY <1>5 DEF CreateChunk
  <2>2. job[task[t].job].user = Me /\ t \notin strayed /\ ~Told(t)
    BY <2>1 DEF RowsOK, Settled, Told, RowStatus
  <2>3. JobsKept
    BY <1>5, JobsSame DEF CreateChunk
  <2>4. Become(t, "pending") \/ Become(t, "refused")
    BY <1>5 DEF CreateChunk
  <2>5. "pending" \in RowStatus
    BY DEF RowStatus
  <2>6. QED BY <1>3, <2>1, <2>2, <2>3, <2>4, <2>5
<1>6. CASE TaskEnds(t)
  <2>1. task[t].status \in {"pending", "error", "cancelled"} /\ job' = job /\ strayed' = strayed
    BY <1>6 DEF TaskEnds, Unfinished
  <2>2. job[task[t].job].user = Me /\ (Told(t) => t \in strayed)
    BY <2>1 DEF RowsOK, Settled, RowStatus, Told
  <2>3. JobsKept
    BY <1>6, JobsSame DEF TaskEnds
  <2>4. PICK s \in {"done", "error", "cancelled"} : Become(t, s)
    BY <1>6 DEF TaskEnds
  <2>5. s \in RowStatus
    BY DEF RowStatus
  <2>6. QED BY <1>3, <2>1, <2>2, <2>3, <2>4, <2>5
<1>7. CASE EndUnsaved(t)
  <2>1. /\ task[t].status \in RowStatus /\ UNCHANGED <<job, task, built>> /\ Fault
        /\ strayed' = strayed \cup {t}
    BY <1>7 DEF EndUnsaved, Unfinished, RowStatus
  <2>2. JobsKept
    BY <2>1, JobsSame
  <2>3. RowsOK'
    BY <2>1, <2>2 DEF RowsOK, RowsTypeOK, Settled, Totals, JobsKept
  <2>4. \A r \in Task : Told(r) => Told(r)'
    BY <2>1 DEF Told
  <2>5. QED BY <1>2, <2>1, <2>3, <2>4, BecomeKeeps
<1>8. CASE EndAgain(t)
  <2>1. task[t].status = "done" /\ job' = job /\ strayed' = strayed \cup {t} /\ Fault
    BY <1>8 DEF EndAgain
  <2>2. job[task[t].job].user = Me
    BY <2>1 DEF RowsOK, Settled, RowStatus
  <2>3. JobsKept
    BY <2>1, JobsSame
  <2>4. PICK s \in {"error", "cancelled"} : Become(t, s)
    BY <1>8 DEF EndAgain
  <2>5. s \in RowStatus
    BY DEF RowStatus
  <2>6. QED BY <1>3, <2>1, <2>2, <2>3, <2>4, <2>5
<1>9. QED BY <1>1, <1>4, <1>5, <1>6, <1>7, <1>8

(* A loop's steps. *)
LEMMA LoopStep ==
    ASSUME PanelOK, RowsOK, NEW l \in Runs,
           Backoff(l) \/ Answered(l) \/ StreamDone(l) \/ StreamFails(l)
    PROVE  PanelOK' /\ RowsOK' /\ NotRepeated
<1>0. /\ UNCHANGED <<job, orphans, strayed, detail>>
      /\ faults' = faults \/ Fault
  BY DEF Backoff, Answered, StreamDone, StreamFails
<1>1. JobsKept
  BY <1>0, JobsSame
<1>2. /\ ViewOK(panel) /\ loop[l] \in LoopType /\ dropped \subseteq Task
      /\ loop[l].cur \in Chunk /\ loop[l].task \in 0..MaxTasks
      /\ loop[l].attempt \in 1..Attempts
      /\ loop[l].at # "none" => panel.open
  BY Handing DEF PanelOK, TypeOK
<1>3. loop[l].at \in {"post", "stream"} =>
        /\ loop[l].task \in Task
        /\ dropped \cup {loop[l].task} \subseteq Task
        /\ task[loop[l].task].job = panel.job /\ task[loop[l].task].index = loop[l].cur
  <2>1. ASSUME loop[l].at \in {"post", "stream"} PROVE loop[l].task \in 1..built
    BY <2>1 DEF PanelOK, Working
  <2>2. ASSUME loop[l].at \in {"post", "stream"} PROVE loop[l].task \in Task
    BY <1>2, <2>1, <2>2, RowsAssumption DEF Task
  <2>3. QED BY <1>2, <2>2 DEF PanelOK, Working
<1>4. CASE Backoff(l)
  <2>1. loop[l].at = "backoff" /\ Post(l, loop[l].cur, loop[l].attempt, panel, dropped)
    BY <1>4 DEF Backoff
  <2>2. loop[l].task = 0
    BY <2>1 DEF PanelOK, Working
  <2>3. Handed(l, panel, dropped)
    BY <1>2, <2>1, <2>2, HandedOver
  <2>4. panel.doubled \/ \A t \in Task : Wanted(t) => ~Of(t, panel.job, loop[l].cur)
    <3>1. \A t \in Task : t # 0
      BY RowsAssumption DEF Task
    <3>2. QED BY <2>1, <2>2, <3>1 DEF PanelOK, Single
  <2>5. QED BY <1>0, <1>1, <1>2, <2>1, <2>3, <2>4, PostKeeps
<1>5. CASE Answered(l)
  <2>1. loop[l].at = "post"
    BY <1>5 DEF Answered
  <2>2. CASE TryAgain(l, dropped) /\ task[loop[l].task].status = "refused"
    BY <1>0, <1>1, <1>2, <2>1, <2>2, TryAgainKeeps
  <2>3. CASE TryAgain(l, dropped \cup {loop[l].task})
    BY <1>0, <1>1, <1>3, <2>1, <2>3, TryAgainKeeps
  <2>4. CASE loop' = [loop EXCEPT ![l].at = "stream"] /\ UNCHANGED <<task, built, panel, dropped, faults>>
    <3> DEFINE q == [loop[l] EXCEPT !.at = "stream"]
    <3>1. q \in LoopType /\ q.at = "stream" /\ q.cur = loop[l].cur /\ q.task = loop[l].task
      BY <1>2 DEF LoopType
    <3>2. loop' = [loop EXCEPT ![l] = q]
      BY <2>4
    <3> HIDE DEF q
    <3>3. /\ loop'[l] = q /\ loop' \in [Runs -> LoopType]
          /\ \A k \in Runs : k # l => loop'[k] = loop[k]
      BY <3>1, <3>2 DEF PanelOK, TypeOK
    <3>4. \A k \in Runs : /\ loop'[k].task = loop[k].task /\ loop'[k].cur = loop[k].cur
                          /\ loop'[k].at # "none" <=> loop[k].at # "none"
                          /\ loop'[k].at \in {"none", "backoff"} => loop[k].at \in {"none", "backoff"}
                          /\ loop'[k].at \in {"post", "stream"} => loop[k].at \in {"post", "stream"}
      BY <2>1, <3>1, <3>3
    <3>5. \A t \in Task : (Wanted(t)' <=> Wanted(t)) /\ (Awaited(t)' <=> Awaited(t))
      BY <2>4, <3>4 DEF Wanted, Awaited
    <3>6. Accounted'
      BY <1>0, <2>4, <3>5 DEF PanelOK, Accounted, Told
    <3>7. Shown'
      BY <2>4, <3>5 DEF PanelOK, Shown, Of
    <3>8. Single'
      BY <2>4, <3>4, <3>5 DEF PanelOK, Single, Of
    <3>9. Working'
      BY <2>4, <3>4 DEF PanelOK, Working
    <3>10. TypeOK' /\ Playable'
      BY <1>0, <2>4, <3>3 DEF PanelOK, TypeOK, Playable, SaidOf, Told, Rows, Indexes
    <3>11. QED BY <1>0, <1>1, <2>4, <3>6, <3>7, <3>8, <3>9, <3>10, SameRows DEF PanelOK, NotRepeated
  <2>5. QED BY <1>5, <2>2, <2>3, <2>4 DEF Answered
<1>6. CASE StreamDone(l)
  <2>1. loop[l].at = "stream" /\ Told(loop[l].task)
    BY <1>6 DEF StreamDone
  <2>2. CASE Ended(l, panel, dropped \cup {loop[l].task})
    <3>1. Handed(l, panel, dropped \cup {loop[l].task})
      BY <1>2, <1>3, <2>1, HandedOver
    <3>2. UNCHANGED <<task, built>>
      BY <2>2 DEF Ended
    <3>3. QED BY <1>0, <1>1, <2>2, <3>1, <3>2, EndKeeps, SameRows DEF NotRepeated
  <2>3. CASE Loop(l, loop[l].cur + 1, Arrived(loop[l].cur), dropped)
    <3> DEFINE i == loop[l].cur
               q == Arrived(i)
    <3>1. i \in SaidOf(panel.job)
      <4>1. loop[l].task \in Task /\ task[loop[l].task].job = panel.job
        BY <1>3, <2>1
      <4>2. task[loop[l].task].status \in RowStatus
        BY <2>1, <4>1 DEF RowsOK, Settled, Told, RowStatus
      <4>3. loop[l].task \in {t \in Rows(panel.job) : Told(t)} /\ task[loop[l].task].index = i
        BY <1>3, <2>1, <4>1, <4>2 DEF Rows
      <4>4. QED BY <4>3 DEF SaidOf, Indexes
    <3>2. /\ q \in PanelType
          /\ q.shown[i] \in {"ready", "playing"}
          /\ \A k \in Chunk : k # i => q.shown[k] = panel.shown[k]
          /\ q.open = panel.open /\ q.init = panel.init
          /\ q.job = panel.job /\ q.doubled = panel.doubled
          /\ q.url = panel.url \cup {i}
          /\ q.restored = panel.restored \ {i}
          /\ q.play \in {panel.play, i}
      BY <1>2, ArrivedFacts DEF ViewOK
    <3> HIDE DEF q
    <3>3. ViewOK(q)
      BY <1>2, <2>1, <3>1, <3>2 DEF ViewOK
    <3>4. Handed(l, q, dropped)
      BY <1>2, <2>1, <3>2, <3>3, HandedOver
    <3>5. QED BY <1>0, <1>1, <2>3, <3>4, LoopKeeps DEF q
  <2>4. QED BY <1>6, <2>2, <2>3 DEF StreamDone
<1>7. CASE StreamFails(l)
  BY <1>0, <1>1, <1>3, <1>7, TryAgainKeeps DEF StreamFails
<1>8. QED BY <1>4, <1>5, <1>6, <1>7

(* While the panel is closed nothing is waited for. *)
LEMMA Quiet ==
    ASSUME PanelOK, ~panel.open
    PROVE  /\ \A l \in Runs : loop[l].at = "none" /\ loop[l].task = 0
           /\ \A t \in Task : ~Awaited(t)
<1>1. \A l \in Runs : loop[l].at = "none" /\ loop[l].task = 0
  BY DEF PanelOK, Working
<1>2. QED BY <1>1, RowsAssumption DEF Awaited, Task

(* The chunks of the rows are among those of the text. *)
LEMMA HadChunks ==
    ASSUME RowsOK, NEW j
    PROVE  Indexes(Rows(j)) \subseteq Chunk
<1> SUFFICES ASSUME NEW t \in Rows(j) PROVE task[t].index \in Chunk
  BY DEF Indexes
<1>1. t \in Task /\ task[t].status \in RowStatus /\ NoTask.status \notin RowStatus
  BY DEF Rows, RowStatus, NoTask
<1>2. t <= built \/ t > built
  BY <1>1, RowsAssumption DEF RowsOK, RowsTypeOK, Task
<1>3. QED BY <1>1, <1>2 DEF RowsOK, Settled

(* A panel takes the place of the one there is, if any: what is said to be  *)
(* done is shown, or no one knows of it.                                    *)
LEMMA OpenKeeps ==
    ASSUME PanelOK, NEW q, ViewOK(q), q.open, panel' = q, ~q.doubled,
           UNCHANGED <<task, built, strayed, detail>>,
           loop' \in [Runs -> LoopType],
           \A l \in Runs : loop'[l].at = "none" /\ loop'[l].task = 0,
           orphans' \subseteq [job : Job, index : Chunk],
           dropped' \subseteq Task, dropped \cup ({loop[l].task : l \in Runs} \ {0}) \subseteq dropped',
           \A t \in Task, i \in Chunk :
              Told(t) /\ t \notin dropped' /\ Of(t, q.job, i) => q.shown[i] \in {"ready", "playing"}
    PROVE  PanelOK'
<1>1. ViewOK(panel)'
  BY DEF ViewOK, SaidOf, Told, Rows, Indexes
<1>2. ASSUME NEW t \in Task, Wanted(t)' PROVE Told(t)
  <2>1. Wanted(t) /\ t \notin dropped' /\ t # 0
    BY <1>2, RowsAssumption DEF Wanted, Task
  <2>2. ~Awaited(t)
    BY <2>1 DEF Awaited
  <2>3. QED BY <2>1, <2>2 DEF PanelOK, Accounted
<1>3. \A t \in Task : Told(t)' <=> Told(t)
  BY DEF Told
<1>4. Accounted'
  BY <1>2, <1>3 DEF Accounted
<1>5. Shown'
  <2> SUFFICES ASSUME NEW t \in Task, NEW i \in Chunk, Wanted(t)', Of(t, q.job, i)
               PROVE  q.shown[i] \in {"ready", "playing"}
    BY DEF Shown, Of
  <2>1. Told(t) /\ t \notin dropped'
    BY <1>2 DEF Wanted
  <2>2. QED BY <2>1
<1>6. Single'
  BY DEF Single
<1>7. TypeOK' /\ Working' /\ Playable'
  BY <1>1 DEF TypeOK, Working, Playable, ViewOK, PanelOK
<1>8. QED BY <1>4, <1>5, <1>6, <1>7 DEF PanelOK

LEMMA StartStep ==
    ASSUME PanelOK, RowsOK, NEW j \in FreshJob, Start(j)
    PROVE  PanelOK' /\ RowsOK' /\ NotRepeated
<1> DEFINE q == [Closed EXCEPT !.open = TRUE, !.init = TRUE, !.job = j]
<1>1. /\ ~panel.open /\ job[j].user # Me /\ panel' = q
      /\ UNCHANGED <<rowVars, loop, orphans, detail, dropped>>
  BY DEF Start
<1>2. j \in Job
  BY PanelAssumption
<1>3. /\ q \in PanelType /\ q.open /\ q.job = j /\ q.play = 0 /\ q.url = {} /\ ~q.doubled
      /\ q.shown = [i \in Chunk |-> "pending"]
  BY <1>2, ClosedType DEF PanelType
<1> HIDE DEF q
<1>4. ViewOK(q)
  BY <1>2, <1>3 DEF ViewOK
<1>5. ASSUME NEW t \in Task, Told(t) PROVE task[t].job # j
  BY <1>1, <1>5 DEF RowsOK, Settled, RowStatus, Told
<1>6. UNCHANGED <<job, task, built, strayed, faults>>
  BY <1>1 DEF rowVars
<1>7. /\ loop' \in [Runs -> LoopType]
      /\ \A l \in Runs : loop'[l].at = "none" /\ loop'[l].task = 0
      /\ \A l \in Runs : loop[l].task = 0
      /\ orphans' \subseteq [job : Job, index : Chunk]
      /\ dropped' \subseteq Task
  BY <1>1, Quiet DEF PanelOK, TypeOK
<1>8. PanelOK'
  BY <1>1, <1>3, <1>4, <1>5, <1>6, <1>7, OpenKeeps DEF Of
<1>9. RowsOK'
  BY <1>6, JobsSame, SameRows
<1>10. QED BY <1>6, <1>8, <1>9 DEF NotRepeated

(* The panel goes, with its loops. *)
LEMMA LeaveFacts ==
    ASSUME PanelOK, RowsOK, NEW gone \in SUBSET Task, Leave(gone)
    PROVE  /\ loop' \in [Runs -> LoopType]
           /\ \A l \in Runs : loop'[l].at = "none" /\ loop'[l].task = 0
           /\ orphans' \subseteq [job : Job, index : Chunk]
           /\ dropped' \subseteq Task
           /\ dropped \cup ({loop[l].task : l \in Runs} \ {0}) \subseteq dropped'
           /\ gone \subseteq dropped'
           /\ UNCHANGED <<task, built, strayed>>
           /\ RowsOK' /\ NotRepeated
<1>1. /\ loop' = [l \in Runs |-> NoLoop]
      /\ orphans' = orphans \cup {[job |-> panel.job, index |-> loop[l].cur] :
                                     l \in {k \in Runs : loop[k].at = "backoff"}}
      /\ dropped' = dropped \cup ({loop[l].task : l \in Runs} \ {0}) \cup gone
      /\ UNCHANGED job \/ (panel.init /\ Ensure(Me, panel.job))
      /\ UNCHANGED <<task, built, strayed, faults>>
  BY DEF Leave
<1>2. panel.open => panel.job \in Job
  BY DEF PanelOK, Working
<1>3. RowsOK' /\ NotRepeated
  <2>1. panel.init => panel.open
    BY DEF PanelOK, Working
  <2>2. JobsKept
    BY <1>1, <1>2, <2>1, EnsureKeeps, JobsSame
  <2>3. QED BY <1>1, <2>2, SameRows DEF NotRepeated
<1>4. orphans' \subseteq [job : Job, index : Chunk]
  BY <1>1, <1>2, Handing DEF PanelOK, TypeOK
<1>5. dropped' \subseteq Task
  <2>1. \A l \in Runs : loop[l].task # 0 => loop[l].task \in Task
    BY Handing, RowsAssumption DEF Task
  <2>2. QED BY <1>1, <2>1 DEF PanelOK, TypeOK
<1>6. QED BY <1>1, <1>3, <1>4, <1>5, NoLoopType

(* The detail of a job, as it is read. *)
LEMMA DetailStep ==
    ASSUME PanelOK, RowsOK, DetailComes \/ \E j \in Job : ReadDetail(j)
    PROVE  PanelOK' /\ RowsOK' /\ NotRepeated
<1>1. UNCHANGED <<rowVars, panel, loop, orphans, dropped>>
  BY DEF DetailComes, ReadDetail
<1>2. UNCHANGED <<job, task, built, strayed, faults>>
  BY <1>1 DEF rowVars
<1>3. RowsOK' /\ NotRepeated
  BY <1>2, JobsSame, SameRows DEF NotRepeated
<1>4. ASSUME detail' = NoDetail \/ detail' \in [job : Job, had : SUBSET Chunk, here : BOOLEAN]
      PROVE  PanelOK'
  <2>1. TypeOK'
    BY <1>1, <1>4 DEF PanelOK, TypeOK
  <2>2. Working' /\ Playable' /\ Accounted' /\ Shown' /\ Single'
    BY <1>1, <1>2 DEF PanelOK, Working, Playable, Accounted, Shown, Single, Wanted, Awaited, Of,
       SaidOf, Told, Rows, Indexes
  <2>3. QED BY <2>1, <2>2 DEF PanelOK
<1>5. CASE DetailComes
  <2>1. detail \in [job : Job, had : SUBSET Chunk, here : BOOLEAN]
    BY <1>5 DEF DetailComes, PanelOK, TypeOK
  <2>2. detail' = [detail EXCEPT !.here = TRUE]
    BY <1>5 DEF DetailComes
  <2>3. QED BY <1>3, <1>4, <2>1, <2>2
<1>6. ASSUME NEW j \in Job, ReadDetail(j) PROVE PanelOK'
  <2>1. Indexes(Rows(j)) \subseteq Chunk
    BY HadChunks
  <2>2. detail' = [job |-> j, had |-> Indexes(Rows(j)), here |-> FALSE]
    BY <1>6 DEF ReadDetail
  <2>3. QED BY <1>4, <2>1, <2>2
<1>7. QED BY <1>3, <1>5, <1>6

LEMMA RemountStep ==
    ASSUME PanelOK, RowsOK, Remount
    PROVE  PanelOK' /\ RowsOK' /\ NotRepeated
<1> DEFINE j == detail.job
           had == detail.had
           unseen == {t \in Task : task[t].job = j /\ task[t].index \notin had}
           seen == [i \in Chunk |-> IF i \in had THEN "ready" ELSE "pending"]
           full == had = Chunk
           p == [Closed EXCEPT !.open = TRUE, !.job = j, !.paused = TRUE, !.url = had,
                   !.shown = seen, !.completed = full, !.restored = had]
<1>1. /\ panel' = IF 1 \in had THEN Playing(p, 1) ELSE p
      /\ Leave(unseen) /\ UNCHANGED detail
  BY DEF Remount
<1>2. j \in Job /\ had \subseteq Chunk
  <2>1. detail.here /\ ~NoDetail.here
    BY DEF Remount, NoDetail
  <2>2. QED BY <2>1 DEF PanelOK, TypeOK
<1>3. seen \in [Chunk -> Sight] /\ \A i \in had : seen[i] = "ready"
  BY <1>2 DEF Sight
<1>4. full \in BOOLEAN
  OBVIOUS
<1>5. unseen \in SUBSET Task
      /\ \A t \in Task : t \notin unseen /\ task[t].job = j => task[t].index \in had
  OBVIOUS
<1>n. \A i \in Chunk : seen[i] \in {"ready", "playing"} => i \in had
  OBVIOUS
<1> HIDE DEF had, seen, full, unseen, j
<1>6. /\ p \in PanelType /\ p.open /\ ~p.init /\ p.job = j /\ p.play = 0 /\ p.url = had
      /\ p.shown = seen /\ p.restored = had /\ ~p.doubled
  BY <1>2, <1>3, <1>4, ClosedType DEF PanelType
<1> HIDE DEF p
<1> DEFINE q == IF 1 \in had THEN Playing(p, 1) ELSE p
<1>7. /\ q \in PanelType /\ q.open /\ ~q.init /\ q.job = j /\ q.url = had /\ q.restored = had
      /\ ~q.doubled
      /\ q.play # 0 => q.play \in had
      /\ \A i \in Chunk : q.shown[i] \in {"ready", "playing"} <=> i \in had
  <2>1. CASE 1 \in had
    <3>1. q = Playing(p, 1) /\ 1 \in Chunk
      BY <2>1, ChunkOne
    <3> HIDE DEF q
    <3>2. /\ q \in PanelType /\ q.shown[1] = "playing"
          /\ \A k \in Chunk : k # 1 => \/ q.shown[k] = p.shown[k]
                                       \/ p.shown[k] = "playing" /\ q.shown[k] = "ready"
          /\ q.open = p.open /\ q.init = p.init /\ q.job = p.job /\ q.doubled = p.doubled
          /\ q.url = p.url /\ q.restored = p.restored /\ q.play = 1
      <4>1. p \in PanelType /\ 1 \in Chunk
        BY <1>6, <3>1
      <4>2. QED BY ONLY <3>1, <4>1, PlayingFacts
    <3>3. QED BY <1>3, <1>6, <1>n, <2>1, <3>2
  <2>2. CASE 1 \notin had
    BY <1>3, <1>6, <1>n, <2>2
  <2>3. QED BY <2>1, <2>2
<1>8. panel' = q
  BY <1>1
<1> HIDE DEF q
<1>9. ViewOK(q)
  BY <1>2, <1>7 DEF ViewOK
<1>10. /\ loop' \in [Runs -> LoopType]
       /\ \A l \in Runs : loop'[l].at = "none" /\ loop'[l].task = 0
       /\ orphans' \subseteq [job : Job, index : Chunk]
       /\ dropped' \subseteq Task
       /\ dropped \cup ({loop[l].task : l \in Runs} \ {0}) \subseteq dropped'
       /\ unseen \subseteq dropped'
       /\ UNCHANGED <<task, built, strayed>>
       /\ RowsOK' /\ NotRepeated
  BY <1>1, <1>5, LeaveFacts
<1>11. \A t \in Task, i \in Chunk :
          Told(t) /\ t \notin dropped' /\ Of(t, q.job, i) => q.shown[i] \in {"ready", "playing"}
  BY <1>5, <1>7, <1>10 DEF Of
<1>12. PanelOK'
  BY <1>1, <1>7, <1>8, <1>9, <1>10, <1>11, OpenKeeps
<1>13. QED BY <1>10, <1>12

(* A loop is started, on a panel p that differs from the open one in a      *)
(* button: when another one runs, the panel is doubled.                     *)
LEMMA StartedHanded ==
    ASSUME PanelOK, NEW l \in Runs, loop[l].at = "none", panel.open,
           NEW p \in PanelType, ~p.init \/ panel.init,
           p.open = panel.open, p.job = panel.job, p.shown = panel.shown, p.url = panel.url,
           p.play = panel.play, p.restored = panel.restored, p.doubled = panel.doubled
    PROVE  Handed(l, Started(p), dropped)
<1> DEFINE b == p.doubled \/ \E k \in Runs : loop[k].at # "none"
           q == [p EXCEPT !.generating = TRUE, !.doubled = b]
<1>1. Started(p) = q
  BY DEF Started
<1>2. b \in BOOLEAN
  BY DEF PanelType
<1>3. ~b => ~panel.doubled /\ \A k \in Runs : loop[k].at = "none"
  OBVIOUS
<1> HIDE DEF b
<1>4. /\ q \in PanelType /\ q.doubled = b
      /\ q.init = p.init /\ q.open = panel.open /\ q.job = panel.job /\ q.shown = panel.shown
      /\ q.url = panel.url /\ q.play = panel.play /\ q.restored = panel.restored
  BY <1>2 DEF PanelType
<1> HIDE DEF q
<1>5. ViewOK(q)
  BY <1>4, Handing DEF ViewOK
<1>6. loop[l].task = 0
  BY DEF PanelOK, Working
<1>7. ASSUME ~b, NEW t \in Task, NEW i \in Chunk, Wanted(t), Of(t, panel.job, i)
      PROVE  panel.shown[i] \in {"ready", "playing"}
  <2>1. \A k \in Runs : loop[k].task = 0
    BY <1>3, <1>7 DEF PanelOK, Working
  <2>2. ~Awaited(t)
    BY <2>1, RowsAssumption DEF Awaited, Task
  <2>3. QED BY <1>3, <1>7, <2>2 DEF PanelOK, Shown
<1>8. dropped \subseteq Task
  BY DEF PanelOK, TypeOK
<1>9. QED BY <1>1, <1>3, <1>4, <1>5, <1>6, <1>7, <1>8 DEF Handed

LEMMA InitAnsweredStep ==
    ASSUME PanelOK, RowsOK, NEW l \in Runs, InitAnswered(l)
    PROVE  PanelOK' /\ RowsOK' /\ NotRepeated
<1> DEFINE p == [panel EXCEPT !.init = FALSE]
<1>1. /\ panel.init /\ loop[l].at = "none"
      /\ \/ Ensure(Me, panel.job) /\ UNCHANGED faults
         \/ UNCHANGED job /\ Fault
      /\ Loop(l, 1, Started(p), dropped) /\ UNCHANGED <<strayed, orphans, detail>>
  BY DEF InitAnswered, Free
<1>2. panel \in PanelType /\ panel.open /\ panel.job \in Job
  BY <1>1 DEF PanelOK, TypeOK, Working
<1>3. /\ p \in PanelType /\ ~p.init
      /\ p.open = panel.open /\ p.job = panel.job /\ p.shown = panel.shown /\ p.url = panel.url
      /\ p.play = panel.play /\ p.restored = panel.restored /\ p.doubled = panel.doubled
  BY <1>2 DEF PanelType
<1> HIDE DEF p
<1>4. Handed(l, Started(p), dropped)
  BY <1>1, <1>2, <1>3, StartedHanded
<1>5. JobsKept
  BY <1>1, <1>2, EnsureKeeps, JobsSame
<1>6. QED BY <1>1, <1>4, <1>5, LoopKeeps

LEMMA ResumeStep ==
    ASSUME PanelOK, RowsOK, NEW l \in Runs, Resume(l)
    PROVE  PanelOK' /\ RowsOK' /\ NotRepeated
<1> DEFINE p == [panel EXCEPT !.paused = FALSE]
<1>1. /\ panel.open /\ loop[l].at = "none"
      /\ Loop(l, 1, Started(p), dropped) /\ UNCHANGED <<job, strayed, faults, orphans, detail>>
  BY DEF Resume, Free
<1>2. panel \in PanelType
  BY DEF PanelOK, TypeOK
<1>3. p \in PanelType /\ Alike(panel, p)
  BY <1>2, ButtonType
<1> HIDE DEF p
<1>4. Handed(l, Started(p), dropped)
  BY <1>1, <1>3, StartedHanded DEF Alike
<1>5. JobsKept
  BY <1>1, JobsSame
<1>6. QED BY <1>1, <1>4, <1>5, LoopKeeps

LEMMA ButtonsStep ==
    ASSUME PanelOK, RowsOK, Pause \/ AudioEnded \/ \E i \in Chunk : Play(i)
    PROVE  PanelOK' /\ RowsOK' /\ NotRepeated
<1>0. panel \in PanelType /\ ViewOK(panel)
  BY Handing
<1>1. UNCHANGED rowVars /\ UNCHANGED <<loop, orphans, detail, dropped>>
  BY DEF Pause, AudioEnded, Play
<1>2. /\ UNCHANGED <<job, task, built, strayed, faults>>
      /\ UNCHANGED <<task, built, strayed, loop, orphans, detail, dropped>>
  BY <1>1 DEF rowVars
<1>3. RowsOK' /\ NotRepeated
  BY <1>2, JobsSame, SameRows DEF NotRepeated
<1>4. CASE Pause
  <2> DEFINE q == [panel EXCEPT !.paused = TRUE]
  <2>1. panel' = q
    BY <1>4 DEF Pause
  <2>2. q \in PanelType /\ Alike(panel, q)
    BY <1>0, ButtonType
  <2> HIDE DEF q
  <2>3. ViewOK(q)
    BY <1>0, <2>2 DEF ViewOK, Alike
  <2>4. PanelOK'
    BY <1>2, <2>1, <2>2, <2>3, ShownKeeps DEF Alike
  <2>5. QED BY <1>3, <2>4
<1>5. ASSUME NEW p \in PanelType, NEW i \in Chunk, i \in p.url, panel' = Playing(p, i),
             p.open = panel.open, p.init = panel.init, p.job = panel.job, p.url = panel.url,
             p.restored = panel.restored, p.doubled = panel.doubled,
             panel.open => \A k \in Chunk : p.shown[k] \in {"ready", "playing"} => k \in panel.url,
             \A k \in Chunk : panel.shown[k] \in {"ready", "playing"} => p.shown[k] \in {"ready", "playing"}
      PROVE  PanelOK'
  <2> DEFINE q == Playing(p, i)
  <2>1. /\ q \in PanelType /\ q.shown[i] = "playing"
        /\ \A k \in Chunk : k # i => \/ q.shown[k] = p.shown[k]
                                     \/ p.shown[k] = "playing" /\ q.shown[k] = "ready"
        /\ q.open = panel.open /\ q.init = panel.init /\ q.job = panel.job
        /\ q.doubled = panel.doubled
        /\ q.url = panel.url /\ q.restored = panel.restored /\ q.play = i
    BY <1>5, PlayingFacts
  <2>2. panel' = q
    BY <1>5
  <2> HIDE DEF q
  <2>3. /\ \A k \in Chunk : p.shown[k] \in {"ready", "playing"} => q.shown[k] \in {"ready", "playing"}
        /\ \A k \in Chunk : q.shown[k] \in {"ready", "playing"} =>
                               k = i \/ p.shown[k] \in {"ready", "playing"}
    BY <2>1
  <2>4. ViewOK(q)
    BY <1>0, <1>5, <2>1, <2>3 DEF ViewOK
  <2>5. QED BY <1>2, <1>5, <2>1, <2>2, <2>3, <2>4, ShownKeeps
<1>6. ASSUME NEW i \in Chunk, Play(i) PROVE PanelOK'
  <2>1. i \in panel.url /\ panel' = Playing(panel, i)
    BY <1>6 DEF Play
  <2>2. panel.open => \A k \in Chunk : panel.shown[k] \in {"ready", "playing"} => k \in panel.url
    BY DEF PanelOK, Playable
  <2>3. QED BY <1>0, <1>5, <1>6, <2>1, <2>2
<1>7. ASSUME AudioEnded PROVE PanelOK'
  <2> DEFINE i == panel.play
             over == Seen(panel, i, "ready")
  <2>1. i # 0 /\ panel' = IF i + 1 \in panel.url THEN Playing(over, i + 1) ELSE over
    BY <1>7 DEF AudioEnded
  <2>2. i \in Chunk /\ "ready" \in Sight
    BY <1>0, <2>1 DEF PanelType, Sight
  <2>3. over \in PanelType /\ Shows(panel, over, i, "ready")
    BY <1>0, <2>2, SeenFacts
  <2> HIDE DEF over
  <2>4. /\ panel.open => i \in panel.url
        /\ panel.open => \A k \in Chunk : panel.shown[k] \in {"ready", "playing"} => k \in panel.url
    BY <2>1 DEF PanelOK, Playable
  <2> HIDE DEF i
  <2>5. /\ over.open = panel.open /\ over.init = panel.init /\ over.job = panel.job
        /\ over.url = panel.url /\ over.restored = panel.restored
        /\ over.doubled = panel.doubled /\ over.play = panel.play
        /\ \A k \in Chunk : panel.shown[k] \in {"ready", "playing"} => over.shown[k] \in {"ready", "playing"}
        /\ panel.open => \A k \in Chunk : over.shown[k] \in {"ready", "playing"} => k \in panel.url
    BY <2>2, <2>3, <2>4 DEF Shows
  <2>6. CASE i + 1 \in panel.url
    <3>1. i + 1 \in Chunk
      BY <1>0, <2>6 DEF PanelType
    <3>2. QED BY <1>5, <2>1, <2>3, <2>5, <2>6, <3>1
  <2>7. CASE i + 1 \notin panel.url
    <3>1. ViewOK(over)
      BY <1>0, <2>3, <2>5 DEF ViewOK
    <3>2. QED BY <1>2, <2>1, <2>5, <2>7, <3>1, ShownKeeps
  <2>8. QED BY <2>6, <2>7
<1>8. QED BY <1>3, <1>4, <1>6, <1>7

LEMMA CloseStep ==
    ASSUME PanelOK, RowsOK, Close
    PROVE  PanelOK' /\ RowsOK' /\ NotRepeated
<1>1. /\ Leave({}) /\ panel' = Closed /\ {} \in SUBSET Task
      /\ detail' = IF detail.here THEN NoDetail ELSE detail
  BY DEF Close
<1>2. panel' \in PanelType /\ ~panel'.open /\ ~panel'.init /\ ~panel'.doubled
  BY <1>1, ClosedType
<1>3. /\ loop' \in [Runs -> LoopType]
      /\ \A l \in Runs : loop'[l].at = "none" /\ loop'[l].task = 0
      /\ orphans' \subseteq [job : Job, index : Chunk]
      /\ dropped' \subseteq Task
      /\ dropped \cup ({loop[l].task : l \in Runs} \ {0}) \subseteq dropped'
      /\ UNCHANGED <<task, built, strayed>>
      /\ RowsOK' /\ NotRepeated
  BY <1>1, LeaveFacts
<1>4. TypeOK'
  BY <1>1, <1>2, <1>3 DEF PanelOK, TypeOK
<1>5. Working' /\ Playable' /\ Shown'
  BY <1>2, <1>3 DEF Working, Playable, Shown
<1>6. Accounted'
  <2> SUFFICES ASSUME NEW t \in Task, Wanted(t)' PROVE Told(t)
    BY <1>3 DEF Accounted, Told
  <2>1. Wanted(t) /\ t \notin dropped' /\ t # 0
    BY <1>3, RowsAssumption DEF Wanted, Task
  <2>2. ~Awaited(t)
    BY <1>3, <2>1 DEF Awaited
  <2>3. QED BY <2>1, <2>2 DEF PanelOK, Accounted
<1>7. Single'
  BY <1>3 DEF Single
<1>8. QED BY <1>3, <1>4, <1>5, <1>6, <1>7 DEF PanelOK

LEMMA OrphanPostStep ==
    ASSUME PanelOK, RowsOK, NEW o \in orphans, OrphanPost(o)
    PROVE  PanelOK' /\ RowsOK' /\ NotRepeated
<1>0. o.job \in Job /\ o.index \in Chunk
  BY DEF PanelOK, TypeOK
<1>1. /\ Submit(o.job, o.index) /\ orphans' = orphans \ {o}
      /\ dropped' = dropped \cup SameChunk(o.job, o.index) \cup {built'}
      /\ UNCHANGED <<job, strayed, faults, panel, loop, detail>>
  BY DEF OrphanPost
<1>2. /\ built' = built + 1 /\ built' \in Task /\ built \in Nat
      /\ task'[built'].job = o.job /\ task'[built'].index = o.index /\ task'[built'].status = "sent"
      /\ \A t \in Task : t # built' => task'[t] = task[t]
      /\ \A t \in Task : t \in 1..built' <=> t = built' \/ t \in 1..built
      /\ \A k \in Job : SaidOf(k)' = SaidOf(k)
  BY <1>0, <1>1, SubmitFacts
<1>3. \A t \in 1..built : t \in Task /\ t # built' /\ t \in 1..built'
  BY <1>2, RowsAssumption DEF Task
<1>4. RowsOK'
  <2>1. JobsKept
    BY <1>1, JobsSame
  <2>2. QED BY <1>0, <1>1, <2>1, SubmitRows
<1>5. NotRepeated
  BY <1>1, <1>2, <1>3 DEF NotRepeated, SameChunk
<1>6. ASSUME NEW t \in Task, Wanted(t)' PROVE Wanted(t) /\ task'[t] = task[t]
  <2>1. t # built' /\ t \notin dropped
    BY <1>1, <1>6 DEF Wanted
  <2>2. QED BY <1>2, <1>6, <2>1 DEF Wanted
<1>7. \A t \in Task : Awaited(t)' <=> Awaited(t)
  BY <1>1 DEF Awaited
<1>8. Accounted'
  BY <1>1, <1>6, <1>7 DEF PanelOK, Accounted, Told
<1>9. Shown'
  BY <1>1, <1>6, <1>7 DEF PanelOK, Shown, Of
<1>10. Single'
  BY <1>1, <1>6 DEF PanelOK, Single, Of
<1>11. TypeOK'
  BY <1>1, <1>2 DEF PanelOK, TypeOK, SameChunk
<1>12. Playable'
  <2>1. panel.open => SaidOf(panel.job)' = SaidOf(panel.job)
    BY <1>1, <1>2 DEF PanelOK, Working, SaidOf, Told, Rows, Indexes
  <2>2. QED BY <1>1, <2>1 DEF PanelOK, Playable
<1>13. Working'
  <2>1. ASSUME NEW l \in Runs, loop[l].task \in 1..built
        PROVE  loop[l].task \in 1..built' /\ task'[loop[l].task] = task[loop[l].task]
    BY <1>2, <1>3, <2>1
  <2>2. QED BY <1>1, <2>1 DEF PanelOK, Working
<1>14. QED BY <1>4, <1>5, <1>8, <1>9, <1>10, <1>11, <1>12, <1>13 DEF PanelOK

-----------------------------------------------------------------------------
(* Every step *)

LEMMA InitOK == Init => PanelOK /\ RowsOK
<1> SUFFICES ASSUME Init PROVE PanelOK /\ RowsOK
  OBVIOUS
<1>1. /\ RowsInit /\ panel = Closed /\ loop = [l \in Runs |-> NoLoop] /\ orphans = {} /\ dropped = {}
      /\ built = 0 /\ detail = NoDetail
  BY DEF Init, RowsInit
<1>2. panel \in PanelType /\ ~panel.open /\ ~panel.init /\ ~panel.doubled
  BY <1>1, ClosedType
<1>3. /\ loop \in [Runs -> LoopType]
      /\ \A l \in Runs : loop[l].at = "none" /\ loop[l].task = 0
  BY <1>1, NoLoopType
<1>4. \A t : ~Wanted(t)
  BY <1>1 DEF Wanted
<1>5. TypeOK /\ Working /\ Playable /\ Accounted /\ Shown /\ Single
  BY <1>1, <1>2, <1>3, <1>4 DEF TypeOK, Working, Playable, Accounted, Shown, Single
<1>6. QED BY <1>1, <1>5, RowsInitOK DEF PanelOK

LEMMA NextKeeps ==
    PanelOK /\ RowsOK /\ [Next]_vars => PanelOK' /\ RowsOK' /\ NotRepeated
<1> SUFFICES ASSUME PanelOK, RowsOK, [Next]_vars PROVE PanelOK' /\ RowsOK' /\ NotRepeated
  OBVIOUS
<1>1. CASE RowsNext /\ UNCHANGED <<panel, loop, orphans, detail, dropped>>
  BY <1>1, RowsStep
<1>2. CASE \E j \in FreshJob : Start(j)
  BY <1>2, StartStep
<1>3. CASE \E l \in Runs : InitAnswered(l)
  BY <1>3, InitAnsweredStep
<1>4. CASE \E l \in Runs : Resume(l)
  BY <1>4, ResumeStep
<1>5. CASE \E l \in Runs : Backoff(l) \/ Answered(l) \/ StreamDone(l) \/ StreamFails(l)
  BY <1>5, LoopStep
<1>6. CASE Pause \/ AudioEnded \/ \E i \in Chunk : Play(i)
  BY <1>6, ButtonsStep
<1>7. CASE Close
  BY <1>7, CloseStep
<1>8. CASE \E o \in orphans : OrphanPost(o)
  BY <1>8, OrphanPostStep
<1>9. CASE DetailComes \/ \E j \in Job : ReadDetail(j)
  BY <1>9, DetailStep
<1>10. CASE UNCHANGED vars
  BY <1>10 DEF vars, rowVars, PanelOK, TypeOK, Working, Playable, Accounted, Shown, Single, Wanted,
     Awaited, Of, SaidOf, Told, Rows, Indexes, RowsOK, RowsTypeOK, Settled, Totals, NotRepeated
<1>11. CASE Remount
  BY <1>11, RemountStep
<1>12. QED BY <1>1, <1>2, <1>3, <1>4, <1>5, <1>6, <1>7, <1>8, <1>9, <1>10, <1>11 DEF Next

LEMMA Inductive == Spec => [](PanelOK /\ RowsOK)
<1>1. PanelOK /\ RowsOK /\ [Next]_vars => (PanelOK /\ RowsOK)'
  BY NextKeeps
<1>2. QED BY InitOK, <1>1, PTL DEF Spec

-----------------------------------------------------------------------------
(* What the rows say *)

(* The chunks of a job are among those of the text. *)
LEMMA IndexesOf ==
    ASSUME RowsOK, NEW j \in Job
    PROVE  /\ Indexes(Rows(j)) \subseteq Chunk /\ DoneOf(j) \subseteq Indexes(Rows(j))
           /\ IsFiniteSet(Indexes(Rows(j))) /\ IsFiniteSet(DoneOf(j))
           /\ IsFiniteSet(Chunk) /\ Cardinality(Chunk) = NumChunks
           /\ Cardinality(Indexes(Rows(j))) \in Nat /\ Cardinality(DoneOf(j)) \in Nat
<1>1. Indexes(Rows(j)) \subseteq Chunk
  BY HadChunks
<1>2. DoneOf(j) \subseteq Indexes(Rows(j))
  BY DEF DoneOf, Indexes
<1>3. IsFiniteSet(Chunk) /\ Cardinality(Chunk) = NumChunks
  <2>1. 1 \in Int /\ NumChunks \in Int /\ NumChunks >= 1
    BY RowsAssumption
  <2>2. IsFiniteSet(1..NumChunks) /\ Cardinality(1..NumChunks) = NumChunks - 1 + 1
    BY <2>1, FS_Interval
  <2>3. QED BY <2>1, <2>2 DEF Chunk
<1>4. IsFiniteSet(Indexes(Rows(j)))
  BY <1>1, <1>3, FS_Subset
<1>5. IsFiniteSet(DoneOf(j))
  BY <1>2, <1>4, FS_Subset
<1>6. QED BY <1>1, <1>2, <1>3, <1>4, <1>5, FS_CardinalityType

LEMMA SummaryIs ==
    ASSUME NEW j
    PROVE  LET done == Cardinality(DoneOf(j))
               total == Greater(job[j].total, Cardinality(Indexes(Rows(j))))
           IN  Summary(j) = [done |-> done, total |-> total, complete |-> done = total /\ total > 0]
BY DEF Summary, DoneOf

(* A chunk is shown as done in the detail if and only if a row of it is. *)
LEMMA DetailDone ==
    ASSUME NEW j \in Job
    PROVE  {i \in DOMAIN DetailStatuses(j) : DetailStatuses(j)[i] = {"done"}} = DoneOf(j)
<1> DEFINE shown == DetailStatuses(j)
<1>1. /\ DOMAIN shown = Indexes(Rows(j))
      /\ \A i \in Indexes(Rows(j)) : shown[i] = {task[t].status : t \in Best(Rows(j), i)}
  BY DEF DetailStatuses
<1>2. ASSUME NEW t \in Rows(j)
      PROVE  /\ Priority[task[t].status] \in 1..4
             /\ Priority[task[t].status] = 4 <=> task[t].status = "done"
  BY DEF Rows, RowStatus, Priority
<1>3. ASSUME NEW i \in DoneOf(j) PROVE i \in Indexes(Rows(j)) /\ shown[i] = {"done"}
  <2>1. PICK t \in Rows(j) : task[t].status = "done" /\ i = task[t].index
    BY DEF DoneOf, Indexes
  <2>2. i \in Indexes(Rows(j))
    BY <2>1 DEF Indexes
  <2>3. t \in Best(Rows(j), i)
    BY <1>2, <2>1 DEF Best
  <2>4. ASSUME NEW s \in Best(Rows(j), i) PROVE task[s].status = "done"
    <3>1. s \in Rows(j) /\ Priority[task[t].status] <= Priority[task[s].status]
      BY <2>1 DEF Best
    <3>2. QED BY <1>2, <2>1, <3>1
  <2>5. QED BY <1>1, <2>1, <2>2, <2>3, <2>4
<1>4. ASSUME NEW i \in Indexes(Rows(j)), shown[i] = {"done"} PROVE i \in DoneOf(j)
  <2>1. PICK t \in Best(Rows(j), i) : task[t].status = "done"
    BY <1>1, <1>4
  <2>2. t \in Rows(j) /\ task[t].index = i
    BY DEF Best
  <2>3. QED BY <2>1, <2>2 DEF DoneOf, Indexes
<1>5. QED BY <1>1, <1>3, <1>4

LEMMA Agreement == RowsOK => DetailAgrees
<1> SUFFICES ASSUME RowsOK, NEW j \in Job
             PROVE  LET shown == DetailStatuses(j)
                        done == {i \in DOMAIN shown : shown[i] = {"done"}}
                    IN /\ Summary(j).done = Cardinality(done)
                       /\ Summary(j).total = Greater(job[j].total, Cardinality(DOMAIN shown))
                       /\ Summary(j).complete => done = DOMAIN shown
  BY DEF DetailAgrees
<1> DEFINE rows == Indexes(Rows(j))
           done == DoneOf(j)
           total == Greater(job[j].total, Cardinality(rows))
<1>1. DOMAIN DetailStatuses(j) = rows
  BY DEF DetailStatuses
<1>2. {i \in DOMAIN DetailStatuses(j) : DetailStatuses(j)[i] = {"done"}} = done
  BY DetailDone
<1>3. /\ Summary(j).done = Cardinality(done) /\ Summary(j).total = total
      /\ Summary(j).complete <=> Cardinality(done) = total /\ total > 0
  BY SummaryIs
<1>4. ASSUME Cardinality(done) = total PROVE done = rows
  <2>1. /\ done \subseteq rows /\ IsFiniteSet(rows) /\ Cardinality(rows) \in Nat
        /\ Cardinality(done) \in Nat
    BY IndexesOf
  <2>2. Cardinality(rows) <= total
    BY <2>1 DEF Greater, RowsOK, RowsTypeOK
  <2>3. Cardinality(done) <= Cardinality(rows)
        /\ (Cardinality(done) = Cardinality(rows) => done = rows)
    BY <2>1, FS_Subset
  <2> HIDE DEF done, rows, total
  <2>4. job[j].total \in Nat
    BY DEF RowsOK, RowsTypeOK
  <2>5. total \in Nat
    BY <2>1, <2>4 DEF total, Greater
  <2>6. QED BY <1>4, <2>1, <2>2, <2>3, <2>5
<1> HIDE DEF done, rows
<1>5. QED BY <1>1, <1>2, <1>3, <1>4 DEF total

LEMMA ReadyAndDone == PanelOK /\ RowsOK => ReadyIsInHistory
<1> DEFINE j == panel.job
           ready == {i \in Chunk : panel.shown[i] \in {"ready", "playing"}}
                    \ (panel.restored \cup Indexes(Rows(j) \cap strayed))
<1> SUFFICES ASSUME PanelOK, RowsOK, panel.open
             PROVE  ready \subseteq DoneOf(j) /\ (ready = Chunk => Summary(j).complete)
  BY DEF ReadyIsInHistory, DoneOf
<1>1. j \in Job
  BY DEF PanelOK, Working
<1>2. ASSUME NEW i \in ready PROVE i \in DoneOf(j)
  <2>1. i \in SaidOf(j) /\ i \notin Indexes(Rows(j) \cap strayed)
    BY DEF PanelOK, Playable
  <2>2. PICK t \in Rows(j) : Told(t) /\ task[t].index = i
    BY <2>1 DEF SaidOf, Indexes
  <2>3. t \notin strayed
    BY <2>1, <2>2 DEF Indexes
  <2>4. QED BY <2>2, <2>3 DEF Told, DoneOf, Indexes
<1>3. ASSUME ready = Chunk PROVE Summary(j).complete
  <2>1. DoneOf(j) = Chunk /\ Indexes(Rows(j)) = Chunk /\ Cardinality(Chunk) = NumChunks
    BY <1>1, <1>2, <1>3, IndexesOf
  <2>2. Greater(job[j].total, NumChunks) = NumChunks /\ NumChunks > 0
    <3>1. job[j].total \in {1, NumChunks} /\ NumChunks \in Nat \ {0}
      BY <1>1, RowsAssumption DEF RowsOK, Totals
    <3>2. QED BY <3>1 DEF Greater
  <2>3. QED BY <2>1, <2>2, SummaryIs
<1>4. QED BY <1>2, <1>3

-----------------------------------------------------------------------------
(* The rows and the panel are of the types of their tables and components,  *)
(* in every state (models/tts.go, StreamingPanel.svelte).                   *)
THEOREM TypeCorrect == Spec => [](RowsTypeOK /\ TypeOK)
<1>1. PanelOK /\ RowsOK => RowsTypeOK /\ TypeOK
  BY DEF PanelOK, RowsOK
<1>2. QED BY Inductive, <1>1, PTL

(* For any number of jobs, users and requests: a chunk has a row only in a  *)
(* job of the one who had it synthesized (RegisterJobAndChunk).             *)
THEOREM Owners == Spec => []ChunksAreTheOwners
<1>1. RowsOK => ChunksAreTheOwners
  BY DEF RowsOK, Settled, ChunksAreTheOwners, Rows
<1>2. QED BY Inductive, <1>1, PTL

(* For any number of chunks and rows, in whatever order they come and end:  *)
(* the history list, counted by SQL, and the detail of a job, scanned with  *)
(* priorities in Go, say the same (getHistoryForUser, GetJobDetail).        *)
THEOREM ViewsAgree == Spec => []DetailAgrees
BY Inductive, Agreement, PTL

(* For any number of chunks, attempts and loops: what the panel synthesized *)
(* and shows as ready is done in its row, and a text shown in full is       *)
(* complete in the history (generateChunksLoop).                            *)
THEOREM ReadyIsDone == Spec => []ReadyIsInHistory
BY Inductive, ReadyAndDone, PTL

(* For any number of chunks, attempts and panels: a chunk is submitted once *)
(* more only if what was submitted before was refused or is waited for by   *)
(* nobody any more (generateChunksLoop, subscribeTaskStream).               *)
THEOREM NoSecondSynthesis == Spec => WorkIsNotRepeated
<1>1. PanelOK /\ RowsOK /\ [Next]_vars => NotRepeated
  BY NextKeeps
<1>2. NotRepeated => [built' # built =>
         \A t \in 1..built :
            /\ task[t].job = task'[built'].job
            /\ task[t].index = task'[built'].index
            => task[t].status = "refused" \/ t \in dropped']_built
  BY DEF NotRepeated
<1>3. QED BY Inductive, <1>1, <1>2, PTL DEF Spec, WorkIsNotRepeated

-----------------------------------------------------------------------------
(* The HistoryModal, on the same rows *)

(* In a finite set with a strict total order R, every place is taken, by    *)
(* one element.                                                             *)
Before(S, R, j) == {k \in S : <<k, j>> \in R}
Orders(R, S) ==
    /\ \A j \in S : <<j, j>> \notin R
    /\ \A j, k \in S : j # k => \/ <<j, k>> \in R
                                \/ <<k, j>> \in R
    /\ \A j, k, n \in S : <<j, k>> \in R /\ <<k, n>> \in R => <<j, n>> \in R
LEMMA Places ==
    ASSUME NEW S, NEW R, IsFiniteSet(S), Orders(R, S)
    PROVE  /\ Cardinality(S) \in Nat
           /\ \A j \in S : Cardinality(Before(S, R, j)) \in 0..(Cardinality(S) - 1)
           /\ \A j, k \in S :
                 <<j, k>> \in R => Cardinality(Before(S, R, j)) < Cardinality(Before(S, R, k))
           /\ \A n \in 1..Cardinality(S) : \E j \in S : Cardinality(Before(S, R, j)) = n - 1
<1> DEFINE N == Cardinality(S)
           place == [j \in S |-> Cardinality(Before(S, R, j))]
<1>1. N \in Nat
  BY FS_CardinalityType
<1>2. ASSUME NEW j \in S
      PROVE  /\ IsFiniteSet(Before(S, R, j)) /\ Cardinality(Before(S, R, j)) \in Nat
             /\ Cardinality(Before(S, R, j)) < N
  <2>1. Before(S, R, j) \subseteq S /\ j \notin Before(S, R, j)
    BY DEF Before, Orders
  <2>2. IsFiniteSet(Before(S, R, j)) /\ Cardinality(Before(S, R, j)) <= N
        /\ N # Cardinality(Before(S, R, j))
    BY <2>1, FS_Subset
  <2>3. QED BY <1>1, <2>2, FS_CardinalityType
<1>3. ASSUME NEW j \in S, NEW k \in S, <<j, k>> \in R
      PROVE  Cardinality(Before(S, R, j)) < Cardinality(Before(S, R, k))
  <2>1. /\ Before(S, R, j) \subseteq Before(S, R, k)
        /\ j \in Before(S, R, k) /\ j \notin Before(S, R, j)
    BY <1>3 DEF Before, Orders
  <2>2. /\ Cardinality(Before(S, R, j)) <= Cardinality(Before(S, R, k))
        /\ Cardinality(Before(S, R, k)) # Cardinality(Before(S, R, j))
    BY <1>2, <2>1, FS_Subset
  <2>3. QED BY <1>2, <2>2
<1>4. place \in Injection(S, 0..(N - 1))
  <2>1. place \in [S -> 0..(N - 1)]
    BY <1>1, <1>2
  <2>2. ASSUME NEW j \in S, NEW k \in S, place[j] = place[k] PROVE j = k
    <3>1. /\ Cardinality(Before(S, R, j)) = Cardinality(Before(S, R, k))
          /\ Cardinality(Before(S, R, j)) \in Nat
      BY <1>2, <2>2
    <3>2. <<j, k>> \notin R /\ <<k, j>> \notin R
      BY <1>3, <3>1
    <3>3. QED BY <3>2 DEF Orders
  <2>3. QED BY <2>1, <2>2, Fun_IsInj
<1>5. place \in Surjection(S, 0..(N - 1))
  <2>1. IsFiniteSet(0..(N - 1)) /\ Cardinality(0..(N - 1)) = N
    BY <1>1, FS_Interval
  <2>2. QED BY <1>4, <2>1, FS_Injection
<1>6. \A m \in 0..(N - 1) : \E j \in S : place[j] = m
  BY <1>5 DEF Surjection
<1>7. ASSUME NEW n \in 1..N PROVE \E j \in S : Cardinality(Before(S, R, j)) = n - 1
  BY <1>1, <1>6
<1>8. QED BY <1>1, <1>2, <1>3, <1>7

JobType == [Job -> [user : User \cup {Nobody}, at : Nat, total : Nat]]

LEMMA NewerOrders ==
    ASSUME job \in JobType, NEW j \in Job, NEW k \in Job
    PROVE  /\ Newer(j, k) => ~Newer(k, j) /\ j # k
           /\ j # k => Newer(j, k) \/ Newer(k, j)
           /\ \A n \in Job : Newer(j, k) /\ Newer(k, n) => Newer(j, n)
<1>1. \A n \in Job : n \in Nat /\ job[n].at \in Nat
  BY RowsAssumption DEF JobType
<1>2. QED BY <1>1 DEF Newer

(* ORDER BY: every job of S has a place, and the newer one is before.       *)
LEMMA OrderedFacts ==
    ASSUME job \in JobType, NEW S, S \subseteq Job, IsFiniteSet(S)
    PROVE  /\ Cardinality(S) \in Nat /\ Ordered(S) \in [1..Cardinality(S) -> S]
           /\ \A m, n \in 1..Cardinality(S) :
                 m < n => Newer(Ordered(S)[m], Ordered(S)[n])
           /\ \A j \in S : \E n \in 1..Cardinality(S) : Ordered(S)[n] = j
<1> DEFINE R == {p \in S \X S : Newer(p[1], p[2])}
           N == Cardinality(S)
           count(j) == Cardinality(Before(S, R, j))
           row(n) == CHOOSE j \in S : Cardinality({k \in S : Newer(k, j)}) = n - 1
           rows == Ordered(S)
<1>1. \A j, k \in S : <<j, k>> \in R <=> Newer(j, k)
  OBVIOUS
<1>2. \A j \in S : Cardinality({k \in S : Newer(k, j)}) = count(j)
  <2>1. ASSUME NEW j \in S PROVE {k \in S : Newer(k, j)} = Before(S, R, j)
    BY <1>1 DEF Before
  <2>2. QED BY <2>1
<1>3. rows = [n \in 1..N |-> row(n)]
  BY Zenon DEF Ordered
<1> HIDE DEF R, rows
<1>4. Orders(R, S)
  BY <1>1, NewerOrders DEF Orders
<1>5. /\ N \in Nat
      /\ \A j \in S : count(j) \in 0..(N - 1)
      /\ \A j, k \in S : <<j, k>> \in R => count(j) < count(k)
      /\ \A n \in 1..N : \E j \in S : count(j) = n - 1
  BY <1>4, Places
<1> HIDE DEF N
<1>6. ASSUME NEW n \in 1..N PROVE row(n) \in S /\ count(row(n)) = n - 1
  <2>1. \E j \in S : Cardinality({k \in S : Newer(k, j)}) = n - 1
    BY <1>2, <1>5
  <2>2. row(n) \in S /\ Cardinality({k \in S : Newer(k, row(n))}) = n - 1
    BY <2>1, Zenon
  <2>3. QED BY <1>2, <2>2
<1> HIDE DEF row, count
<1>7. ASSUME NEW m \in 1..N, NEW n \in 1..N, m < n PROVE Newer(rows[m], rows[n])
  <2>1. /\ row(m) \in S /\ count(row(m)) = m - 1
        /\ row(n) \in S /\ count(row(n)) = n - 1
    BY <1>6
  <2>2. <<row(n), row(m)>> \notin R /\ row(m) # row(n)
    BY <1>5, <1>7, <2>1
  <2>3. Newer(row(m), row(n))
    BY <1>1, <2>1, <2>2, NewerOrders
  <2>4. QED BY <1>3, <2>3
<1>8. ASSUME NEW j \in S PROVE \E n \in 1..N : rows[n] = j
  <2>1. PICK n \in 1..N : n = count(j) + 1
    BY <1>5
  <2>2. count(row(n)) = count(j) /\ row(n) \in S
    BY <1>5, <1>6, <2>1
  <2>3. <<row(n), j>> \notin R /\ <<j, row(n)>> \notin R /\ count(j) \in 0..(N - 1)
    BY <1>5, <2>2
  <2>4. row(n) = j
    BY <1>1, <2>2, <2>3, NewerOrders
  <2>5. QED BY <1>3, <2>4
<1>9. rows \in [1..N -> S]
  BY <1>3, <1>6
<1>10. QED BY <1>5, <1>7, <1>8, <1>9 DEF rows, N

-----------------------------------------------------------------------------
(* What a page, and the list, is of a set of jobs. *)

Owned(j, w) == j \in Job /\ w \in User /\ job[j].user = w
Sorted(s) == \A m, n \in 1..Len(s) : m < n => Newer(s[m], s[n])
Listed(s, j) == \E n \in 1..Len(s) : s[n] = j
Reaches(s, j, more) ==
    \/ Listed(s, j)
    \/ more /\ \A n \in 1..Len(s) : Newer(s[n], j)

(* The whole list of the user, as far as it goes; ... *)
Complete(w, s, there, more) ==
    /\ Sorted(s)
    /\ \A n \in 1..Len(s) : Owned(s[n], w)
    /\ \A j \in there : Owned(j, w) /\ Reaches(s, j, more)

(* ... what follows on job b in it. *)
Continues(w, b, s, there, more) ==
    /\ Sorted(s)
    /\ \A n \in 1..Len(s) : Owned(s[n], w) /\ Newer(b, s[n])
    /\ \A j \in there : Newer(b, j) => Reaches(s, j, more)

(* getHistoryForUser: a page of the ordered rows, and whether it is all.    *)
Got(rows) == SubSeq(rows, 1, Min2(Len(rows), PageSize + 1))
Page(rows) == SubSeq(Got(rows), 1, Min2(Len(Got(rows)), PageSize))
LEMMA PageFacts ==
    ASSUME job \in JobType, NEW S, S \subseteq Job, IsFiniteSet(S),
           NEW rows, rows = Ordered(S), NEW more, more = (Len(Got(rows)) > PageSize)
    PROVE  /\ Page(rows) \in Seq(S) /\ more \in BOOLEAN
           /\ Sorted(Page(rows))
           /\ \A j \in S : Reaches(Page(rows), j, more)
<1> DEFINE N == Cardinality(S)
           got == Got(rows)
           page == Page(rows)
<1>1. /\ N \in Nat /\ rows \in [1..N -> S]
      /\ \A m, n \in 1..N : m < n => Newer(rows[m], rows[n])
      /\ \A j \in S : \E n \in 1..N : rows[n] = j
  BY OrderedFacts
<1> HIDE DEF N
<1>2. rows \in Seq(S) /\ Len(rows) = N
  BY <1>1
<1>3. PICK G \in Nat : /\ G = Min2(N, PageSize + 1) /\ G <= N /\ G <= PageSize + 1
                       /\ G = N \/ G = PageSize + 1
  BY <1>1, ModalAssumption DEF Min2
<1>4. /\ got \in Seq(S) /\ Len(got) = G
      /\ \A n \in 1..G : got[n] = rows[n]
  <2>1. \A n \in 1..G : rows[n] \in S
    BY <1>1, <1>3
  <2>2. /\ SubSeq(rows, 1, G) \in Seq(S)
        /\ Len(SubSeq(rows, 1, G)) = IF 1 <= G THEN G - 1 + 1 ELSE 0
        /\ \A n \in 1..(G - 1 + 1) : SubSeq(rows, 1, G)[n] = rows[1 + n - 1]
    BY <2>1, SubSeqProperties
  <2>3. got = SubSeq(rows, 1, G)
    BY <1>2, <1>3 DEF Got
  <2> HIDE DEF got
  <2>4. QED BY <2>2, <2>3
<1>5. PICK P \in Nat : /\ P = Min2(G, PageSize) /\ P <= G /\ P <= PageSize
                       /\ P = G \/ P = PageSize
  BY <1>3, ModalAssumption DEF Min2
<1>6. page = SubSeq(got, 1, P)
  BY <1>4, <1>5 DEF Page
<1>7. more = (G > PageSize)
  BY <1>4
<1> HIDE DEF got, page
<1>8. /\ page \in Seq(S) /\ Len(page) = P
      /\ \A n \in 1..P : page[n] = rows[n]
  <2>1. \A n \in 1..P : got[n] \in S
    BY <1>1, <1>3, <1>4, <1>5
  <2>2. /\ SubSeq(got, 1, P) \in Seq(S)
        /\ Len(SubSeq(got, 1, P)) = IF 1 <= P THEN P - 1 + 1 ELSE 0
        /\ \A n \in 1..(P - 1 + 1) : SubSeq(got, 1, P)[n] = got[1 + n - 1]
    BY <2>1, SubSeqProperties
  <2>3. QED BY <1>4, <1>5, <1>6, <2>2
<1>9. Sorted(page)
  BY <1>1, <1>3, <1>5, <1>8 DEF Sorted
<1>10. ASSUME NEW j \in S PROVE Reaches(page, j, more)
  <2>1. PICK i \in 1..N : rows[i] = j
    BY <1>1
  <2>2. CASE i <= P
    <3>1. i \in 1..Len(page) /\ page[i] = j
      BY <1>1, <1>8, <2>1, <2>2
    <3>2. QED BY <3>1, Zenon DEF Reaches, Listed
  <2>3. CASE i > P
    <3>1. more
      <4>1. G > PageSize
        BY <1>1, <1>3, <1>5, <2>3, ModalAssumption
      <4>2. QED BY <1>7, <4>1, Zenon
    <3>2. \A n \in 1..P : Newer(page[n], j)
      BY <1>1, <1>3, <1>5, <1>8, <2>1, <2>3
    <3>3. QED BY <1>8, <3>1, <3>2 DEF Reaches
  <2>4. QED BY <1>1, <1>5, <2>2, <2>3
<1>11. QED BY <1>7, <1>8, <1>9, <1>10 DEF page

(* The places of S in a sequence, in their order.                           *)
LEMMA KeptFacts ==
    ASSUME NEW s \in Seq(Job), NEW S, S \subseteq DOMAIN s
    PROVE  /\ Kept(s, S) \in Seq(Job)
           /\ S = DOMAIN s => Kept(s, S) = s
<1>1. PICK L \in Nat : Len(s) = L /\ s \in [1..L -> Job] /\ DOMAIN s = 1..L
  BY LenProperties
<1> DEFINE R == {p \in S \X S : p[1] < p[2]}
           N == Cardinality(S)
           count(k) == Cardinality(Before(S, R, k))
           pick(n) == CHOOSE k \in S : Cardinality({m \in S : m < k}) = n - 1
           kept == Kept(s, S)
<1>2. IsFiniteSet(S)
  <2>1. S \subseteq 1..L /\ IsFiniteSet(1..L)
    BY <1>1, FS_Interval
  <2>2. QED BY <2>1, FS_Subset
<1>3. \A k \in S : Cardinality({m \in S : m < k}) = count(k)
  <2>1. ASSUME NEW k \in S PROVE {m \in S : m < k} = Before(S, R, k)
    BY DEF Before
  <2>2. QED BY <2>1
<1>4. kept = [n \in 1..N |-> s[pick(n)]]
  BY Zenon DEF Kept
<1>5. Orders(R, S)
  BY <1>1 DEF Orders
<1>6. /\ N \in Nat
      /\ \A k \in S : count(k) \in 0..(N - 1)
      /\ \A n \in 1..N : \E k \in S : count(k) = n - 1
  BY <1>2, <1>5, Places
<1>7. ASSUME NEW n \in 1..N PROVE pick(n) \in S /\ count(pick(n)) = n - 1
  <2>1. \E k \in S : Cardinality({m \in S : m < k}) = n - 1
    BY <1>3, <1>6
  <2>2. pick(n) \in S /\ Cardinality({m \in S : m < pick(n)}) = n - 1
    BY <2>1, Zenon
  <2>3. QED BY <1>3, <2>2
<1> HIDE DEF pick, kept
<1>8. kept \in Seq(Job)
  <2>1. \A n \in 1..N : s[pick(n)] \in Job
    BY <1>1, <1>7
  <2> HIDE DEF N
  <2>2. kept \in [1..N -> Job]
    BY <1>4, <2>1
  <2>3. QED BY <1>6, <2>2, SeqDef
<1>9. ASSUME S = 1..L PROVE kept = s
  <2>1. N = L
    BY <1>1, <1>9, FS_Interval
  <2>2. ASSUME NEW k \in 1..L PROVE count(k) = k - 1
    <3>1. Before(S, R, k) = 1..(k - 1)
      BY <1>9 DEF Before
    <3>2. Cardinality(1..(k - 1)) = k - 1
      BY FS_Interval
    <3>3. QED BY <3>1, <3>2
  <2> HIDE DEF count, N
  <2>3. \A n \in 1..L : pick(n) = n
    BY <1>7, <1>9, <2>1, <2>2
  <2>4. QED BY <1>1, <1>4, <2>1, <2>3
<1>10. QED BY <1>1, <1>8, <1>9 DEF kept

-----------------------------------------------------------------------------
(* The clock of the web process is in UTC, and the jobs are finite in        *)
(* number.                                                                   *)
Settings == Zone = 0 /\ IsFiniteSet(Job)

ModalType ==
    [open : BOOLEAN, who : User \cup {Nobody}, list : Seq(Job), more : BOOLEAN,
     loading : BOOLEAN, loadingMore : BOOLEAN, there : SUBSET Job]
FetchType ==
    [at : {"none", "asked", "answered"}, first : BOOLEAN, who : User \cup {Nobody},
     before : Job \cup {0}, page : Seq(Job), more : BOOLEAN, there : SUBSET Job]
ModalTypeOK ==
    /\ job \in JobType
    /\ modal \in ModalType /\ (modal.open => modal.who \in User)
    /\ fetch \in [Fetch -> FetchType] /\ crossed \in BOOLEAN

(* What a request is for, and what its answer adds to the list.              *)
FirstOK(r) ==
    /\ modal.loading /\ r.before = 0
    /\ r.at = "answered" => Complete(r.who, r.page, r.there, r.more)
MoreOK(r) ==
    /\ ~modal.loading /\ modal.loadingMore
    /\ modal.list # << >> /\ r.before = modal.list[Len(modal.list)]
    /\ r.at = "answered" => Continues(r.who, r.before, r.page, modal.there, r.more)
FetchOK(r) ==
    /\ r.who = modal.who /\ r.who \in User
    /\ r.first => FirstOK(r)
    /\ ~r.first => MoreOK(r)

Underway(f) == f \in Fetch /\ fetch[f].at # "none"
Lone == \A f, g \in Fetch : Underway(f) /\ Underway(g) => f = g
Asked == \A f \in Fetch : Underway(f) => FetchOK(fetch[f])
ListOK == ~modal.loading => Complete(modal.who, modal.list, modal.there, modal.more)
PagesOK == ~crossed => Lone /\ Asked /\ ListOK

ModalOK == Settings /\ ModalTypeOK /\ PagesOK

LEMMA UnsentType == Unsent \in FetchType /\ Unsent.at = "none"
<1>1. << >> \in Seq(Job)
  BY EmptySeq
<1>2. QED BY <1>1, Zenon DEF Unsent, FetchType

(* The jobs that there are stay as they are; so does what is said of pages.  *)
JobsStay == \A j \in Job : job[j].user \in User => job'[j] = job[j]
LEMMA PagesStay ==
    ASSUME JobsStay, NEW w, NEW s, NEW there, NEW more
    PROVE  /\ Complete(w, s, there, more) => Complete(w, s, there, more)'
           /\ \A b : /\ Owned(b, w) /\ \A j \in there : Owned(j, w)
                     /\ Continues(w, b, s, there, more)
                     => Continues(w, b, s, there, more)'
<1>1. \A j : Owned(j, w) => job'[j] = job[j] /\ Owned(j, w)'
  BY DEF JobsStay, Owned
<1>2. \A j, k : Owned(j, w) /\ Owned(k, w) => (Newer(j, k)' <=> Newer(j, k))
  BY <1>1 DEF Newer
<1>3. ASSUME \A n \in 1..Len(s) : Owned(s[n], w)
      PROVE  /\ Sorted(s) => Sorted(s)'
             /\ \A j : Owned(j, w) /\ Reaches(s, j, more) => Reaches(s, j, more)'
  BY <1>2, <1>3 DEF Sorted, Reaches, Listed
<1>4. ASSUME Complete(w, s, there, more) PROVE Complete(w, s, there, more)'
  BY <1>1, <1>3, <1>4 DEF Complete
<1>5. ASSUME NEW b, Owned(b, w), \A j \in there : Owned(j, w),
             Continues(w, b, s, there, more)
      PROVE  Continues(w, b, s, there, more)'
  BY <1>1, <1>2, <1>3, <1>5 DEF Continues
<1>6. QED BY <1>4, <1>5

(* The job at the end of the list, from which the next page goes on.        *)
LEMMA LastOwned ==
    ASSUME ModalTypeOK, NEW r, MoreOK(r), ListOK
    PROVE  Owned(r.before, modal.who) /\ \A j \in modal.there : Owned(j, modal.who)
<1>1. modal.list \in Seq(Job) /\ modal.list # << >>
  BY DEF ModalTypeOK, ModalType, MoreOK
<1>2. Len(modal.list) \in 1..Len(modal.list)
  BY <1>1
<1>3. Complete(modal.who, modal.list, modal.there, modal.more)
  BY DEF ListOK, MoreOK
<1>4. QED BY <1>2, <1>3 DEF Complete, MoreOK

(* A step that leaves the modal and its requests alone. *)
LEMMA QuietModal ==
    ASSUME ModalOK, JobsStay, job' \in JobType, UNCHANGED <<modal, fetch, crossed>>
    PROVE  ModalOK'
<1>1. Settings' /\ ModalTypeOK'
  BY DEF ModalOK, Settings, ModalTypeOK
<1>2. ASSUME ~crossed' PROVE Lone' /\ Asked' /\ ListOK'
  <2>1. Lone /\ Asked /\ ListOK
    BY <1>2 DEF ModalOK, PagesOK
  <2>2. ListOK'
    BY <2>1, PagesStay DEF ListOK
  <2>3. ASSUME NEW f \in Fetch, Underway(f) PROVE FetchOK(fetch[f])'
    <3> DEFINE r == fetch[f]
    <3>1. FetchOK(r) /\ r' = r
      BY <2>1, <2>3 DEF Asked
    <3>2. /\ modal' = modal
          /\ Complete(r.who, r.page, r.there, r.more) => Complete(r.who, r.page, r.there, r.more)'
      BY PagesStay
    <3>3. ASSUME ~r.first
          PROVE  Continues(r.who, r.before, r.page, modal.there, r.more)
                    => Continues(r.who, r.before, r.page, modal.there, r.more)'
      <4>1. Owned(r.before, r.who) /\ \A j \in modal.there : Owned(j, r.who)
        BY <2>1, <3>1, <3>3, LastOwned DEF ModalOK, FetchOK
      <4>2. QED BY <4>1, PagesStay
    <3> HIDE DEF r
    <3>4. FetchOK(r)'
      BY <3>1, <3>2, <3>3 DEF FetchOK, FirstOK, MoreOK
    <3>5. QED BY <3>4 DEF r
  <2>4. QED BY <2>1, <2>2, <2>3 DEF Lone, Asked, Underway
<1>3. QED BY <1>1, <1>2 DEF ModalOK, PagesOK

-----------------------------------------------------------------------------
(* The steps of the modal. *)

LEMMA Asking ==
    ASSUME ModalTypeOK, NEW f \in Fetch, NEW r \in FetchType, Ask(f, r)
    PROVE  /\ fetch' \in [Fetch -> FetchType] /\ fetch'[f] = r
           /\ \A g \in Fetch : g # f => fetch'[g] = fetch[g]
BY DEF ModalTypeOK, Ask

LEMMA OpenStep ==
    ASSUME ModalOK, NEW u \in User, NEW f \in Fetch, Open(u, f)
    PROVE  ModalOK'
<1> USE DEF ModalOK
<1> DEFINE r == [Unsent EXCEPT !.at = "asked", !.who = u]
<1>1. r \in FetchType /\ r.at = "asked" /\ r.first /\ r.before = 0 /\ r.who = u
  BY UnsentType DEF FetchType, Unsent
<1>2. /\ fetch' \in [Fetch -> FetchType] /\ fetch'[f] = r
      /\ \A g \in Fetch : g # f => fetch'[g] = fetch[g]
  BY <1>1, Asking DEF Open
<1>3. /\ modal' \in ModalType /\ modal'.who = u /\ modal'.loading
      /\ job' = job /\ crossed' = (InFlight # {})
  BY DEF Open, rowVars, ModalTypeOK, ModalType
<1> HIDE DEF r
<1>4. Settings' /\ ModalTypeOK'
  <2>1. crossed' \in BOOLEAN
    BY <1>3
  <2>2. QED BY <1>2, <1>3, <2>1 DEF Settings, ModalTypeOK
<1>5. ASSUME ~crossed' PROVE Lone' /\ Asked' /\ ListOK'
  <2>1. \A g \in Fetch : ~Underway(g)
    BY <1>3, <1>5 DEF InFlight, Underway
  <2>2. \A g \in Fetch : Underway(g)' => g = f
    BY <1>2, <2>1 DEF Underway
  <2>3. FetchOK(fetch[f])'
    BY <1>1, <1>2, <1>3 DEF FetchOK, FirstOK
  <2>4. QED BY <1>3, <2>2, <2>3 DEF Lone, Asked, ListOK
<1>6. QED BY <1>4, <1>5 DEF PagesOK

LEMMA HideStep ==
    ASSUME ModalOK, Hide
    PROVE  ModalOK'
<1> USE DEF ModalOK
<1>1. /\ modal' \in ModalType /\ ~modal'.open
      /\ modal'.who = modal.who /\ modal'.list = modal.list /\ modal'.more = modal.more
      /\ modal'.there = modal.there /\ modal'.loading = modal.loading
      /\ modal'.loadingMore = modal.loadingMore
      /\ job' = job /\ fetch' = fetch /\ crossed' = crossed
  BY DEF Hide, rowVars, ModalTypeOK, ModalType
<1>2. Settings' /\ ModalTypeOK'
  BY <1>1 DEF Settings, ModalTypeOK
<1>3. \A w, s, there, more : Complete(w, s, there, more)' <=> Complete(w, s, there, more)
  BY <1>1 DEF Complete, Sorted, Reaches, Listed, Owned, Newer
<1>4. \A w, b, s, there, more :
         Continues(w, b, s, there, more)' <=> Continues(w, b, s, there, more)
  BY <1>1 DEF Continues, Sorted, Reaches, Listed, Owned, Newer
<1>5. PagesOK'
  BY <1>1, <1>3, <1>4
     DEF PagesOK, Lone, Asked, Underway, FetchOK, FirstOK, MoreOK, ListOK
<1>6. QED BY <1>2, <1>5

LEMMA LoadMoreStep ==
    ASSUME ModalOK, NEW f \in Fetch, LoadMore(f)
    PROVE  ModalOK'
<1> USE DEF ModalOK
<1> DEFINE last == modal.list[Len(modal.list)]
           r == [Unsent EXCEPT !.at = "asked", !.first = FALSE, !.who = modal.who,
                                     !.before = last]
<1>1. last \in Job /\ modal.who \in User /\ modal.list # << >>
  <2>1. modal.list \in Seq(Job) /\ modal.list # << >>
    BY DEF LoadMore, ModalTypeOK, ModalType
  <2>2. QED BY <2>1 DEF LoadMore, ModalTypeOK
<1> HIDE DEF last
<1>2. /\ r \in FetchType /\ r.at = "asked" /\ ~r.first /\ r.before = last
      /\ r.who = modal.who
  BY <1>1, UnsentType DEF FetchType, Unsent
<1>3. /\ fetch' \in [Fetch -> FetchType] /\ fetch'[f] = r
      /\ \A g \in Fetch : g # f => fetch'[g] = fetch[g]
  BY <1>2, Asking DEF LoadMore, last
<1>4. /\ modal' \in ModalType /\ modal'.open = modal.open
      /\ modal'.who = modal.who /\ modal'.list = modal.list /\ modal'.more = modal.more
      /\ modal'.there = modal.there /\ ~modal.loading /\ ~modal'.loading
      /\ ~modal.loadingMore /\ modal'.loadingMore
      /\ job' = job /\ crossed' = crossed
  BY DEF LoadMore, rowVars, ModalTypeOK, ModalType
<1> HIDE DEF r
<1>5. Settings' /\ ModalTypeOK'
  BY <1>3, <1>4 DEF Settings, ModalTypeOK
<1>6. ASSUME ~crossed' PROVE Lone' /\ Asked' /\ ListOK'
  <2>1. Lone /\ Asked /\ ListOK
    BY <1>4, <1>6 DEF PagesOK
  <2>2. \A g \in Fetch : ~Underway(g)
    BY <1>4, <2>1 DEF Asked, FetchOK, FirstOK, MoreOK
  <2>3. \A g \in Fetch : Underway(g)' => g = f
    BY <1>3, <2>2 DEF Underway
  <2>4. FetchOK(fetch[f])'
    <3>1. MoreOK(fetch[f])'
      BY <1>1, <1>2, <1>3, <1>4 DEF MoreOK, last
    <3>2. QED BY <1>1, <1>2, <1>3, <1>4, <3>1 DEF FetchOK
  <2>5. ListOK'
    BY <1>4, <2>1 DEF ListOK, Complete, Sorted, Reaches, Listed, Owned, Newer
  <2>6. QED BY <2>3, <2>4, <2>5 DEF Lone, Asked
<1>7. QED BY <1>5, <1>6 DEF PagesOK

LEMMA NewJobStep ==
    ASSUME ModalOK, NEW u \in User, NEW j \in Job, NewJob(u, j)
    PROVE  ModalOK'
<1>1. /\ job[j].user = Nobody /\ UNCHANGED <<modal, fetch, crossed>>
      /\ job \in JobType
  BY DEF NewJob, Exists, ModalOK, ModalTypeOK
<1>2. PICK n \in Newest : \E d \in Later :
         job' = [job EXCEPT ![j] = [user |-> u, at |-> n + d, total |-> NumChunks]]
  BY <1>1 DEF NewJob, Ensure, Exists
<1>3. PICK d \in Later :
         job' = [job EXCEPT ![j] = [user |-> u, at |-> n + d, total |-> NumChunks]]
  BY <1>2
<1>4. n \in Nat /\ n + d \in Nat /\ NumChunks \in Nat
  BY <1>1, RowsAssumption DEF Newest, JobType
<1>5. job' \in JobType /\ JobsStay
  BY <1>1, <1>3, <1>4, RowsAssumption DEF JobType, JobsStay
<1>6. QED BY <1>1, <1>5, QuietModal

LEMMA OlderIsNewer ==
    ASSUME job \in JobType, NEW j \in Job, NEW k \in Job, Zone = 0
    PROVE  Older(j, k) <=> Newer(k, j)
<1>1. j \in Nat /\ job[j].at \in Nat /\ k \in Nat /\ job[k].at \in Nat
  BY RowsAssumption DEF JobType
<1>2. QED BY <1>1 DEF Older, Newer

LEMMA ServeStep ==
    ASSUME ModalOK, NEW f \in Fetch, Serve(f)
    PROVE  ModalOK'
<1> USE DEF ModalOK
<1> DEFINE q == fetch[f]
           S == {j \in JobsOf(q.who) : q.before # 0 => Older(j, q.before)}
           rows == Ordered(S)
           more == Len(Got(rows)) > PageSize
           r == [q EXCEPT !.at = "answered", !.more = more, !.page = Page(rows),
                          !.there = JobsOf(q.who)]
<1>1. /\ q \in FetchType /\ q.at = "asked"
      /\ Ask(f, r)
      /\ UNCHANGED <<job, modal, crossed>>
  BY DEF Serve, ModalTypeOK, rowVars, Got, Page
<1>2. /\ JobsOf(q.who) \subseteq Job
      /\ \A j : j \in JobsOf(q.who) <=> j \in Job /\ job[j].user = q.who
      /\ S \subseteq Job /\ IsFiniteSet(S) /\ job \in JobType
  <2>1. S \subseteq Job /\ IsFiniteSet(Job)
    BY DEF Settings, JobsOf
  <2>2. IsFiniteSet(S)
    BY <2>1, FS_Subset
  <2>3. QED BY <2>1, <2>2 DEF Settings, ModalTypeOK, JobsOf
<1> HIDE DEF S
<1>3. /\ Page(rows) \in Seq(S) /\ more \in BOOLEAN
      /\ Sorted(Page(rows))
      /\ \A j \in S : Reaches(Page(rows), j, more)
  BY <1>2, PageFacts
<1>4. Page(rows) \in Seq(Job) /\ \A n \in 1..Len(Page(rows)) : Page(rows)[n] \in S
  BY <1>2, <1>3, SeqMonotonic, ElementOfSeq
<1> HIDE DEF rows, more
<1>5. /\ r \in FetchType /\ r.at = "answered" /\ r.first = q.first /\ r.who = q.who
      /\ r.before = q.before /\ r.page = Page(rows) /\ r.more = more
      /\ r.there = JobsOf(q.who)
  BY <1>1, <1>2, <1>3, <1>4 DEF FetchType
<1> HIDE DEF r
<1>6. /\ fetch' \in [Fetch -> FetchType] /\ fetch'[f] = r
      /\ \A g \in Fetch : g # f => fetch'[g] = fetch[g]
  BY <1>1, <1>5, Asking
<1>7. Settings' /\ ModalTypeOK'
  BY <1>1, <1>6 DEF Settings, ModalTypeOK
<1>8. ASSUME ~crossed' PROVE Lone' /\ Asked' /\ ListOK'
  <2>1. Lone /\ Asked /\ ListOK /\ Underway(f)
    BY <1>1, <1>8 DEF PagesOK, Underway
  <2>2. FetchOK(q)
    BY <2>1 DEF Asked
  <2> HIDE DEF q
  <2>3. \A n \in 1..Len(r.page) : Owned(r.page[n], r.who)
    BY <1>2, <1>4, <1>5, <2>2 DEF Owned, FetchOK, S
  <2>4. ASSUME r.first PROVE FetchOK(r)
    <3>1. \A j \in r.there : Owned(j, r.who) /\ j \in S
      BY <1>2, <1>5, <2>2, <2>4 DEF Owned, FetchOK, FirstOK, S
    <3>2. Complete(r.who, r.page, r.there, r.more)
      BY <1>3, <1>5, <2>3, <3>1 DEF Complete
    <3>3. QED BY <1>5, <2>2, <2>4, <3>2 DEF FetchOK, FirstOK
  <2>5. ASSUME ~r.first PROVE FetchOK(r)
    <3>1. MoreOK(q)
      BY <1>5, <2>2, <2>5 DEF FetchOK
    <3>2. Owned(r.before, r.who) /\ \A j \in modal.there : Owned(j, r.who)
      BY <1>5, <2>1, <2>2, <3>1, LastOwned DEF FetchOK
    <3>3. \A j \in Job : Older(j, r.before) <=> Newer(r.before, j)
      BY <1>2, <3>2, OlderIsNewer DEF Settings, Owned
    <3>4. \A j : j \in S <=> Owned(j, r.who) /\ Newer(r.before, j)
      BY <1>2, <1>5, <2>2, <3>2, <3>3, RowsAssumption DEF Owned, FetchOK, S
    <3>5. Continues(r.who, r.before, r.page, modal.there, r.more)
      BY <1>3, <1>4, <1>5, <2>3, <3>2, <3>4 DEF Continues
    <3>6. MoreOK(r)
      BY <1>5, <3>1, <3>5 DEF MoreOK
    <3>7. QED BY <1>5, <2>2, <2>5, <3>6 DEF FetchOK
  <2>6. FetchOK(r)
    BY <2>4, <2>5
  <2>7. FetchOK(fetch[f])'
    <3>1. \A w, s, there, m : Complete(w, s, there, m)' <=> Complete(w, s, there, m)
      BY <1>1 DEF Complete, Sorted, Reaches, Listed, Owned, Newer
    <3>2. \A w, b, s, there, m :
             Continues(w, b, s, there, m)' <=> Continues(w, b, s, there, m)
      BY <1>1 DEF Continues, Sorted, Reaches, Listed, Owned, Newer
    <3>3. QED BY <1>1, <1>6, <2>6, <3>1, <3>2 DEF FetchOK, FirstOK, MoreOK
  <2>8. ListOK'
    BY <1>1, <2>1 DEF ListOK, Complete, Sorted, Reaches, Listed, Owned, Newer
  <2>9. \A g \in Fetch : Underway(g)' => g = f
    BY <1>6, <2>1 DEF Lone, Underway
  <2>10. QED BY <2>7, <2>8, <2>9 DEF Lone, Asked
<1>9. QED BY <1>7, <1>8 DEF PagesOK

(* A page is added to the list it follows on. *)
LEMMA Appended ==
    ASSUME job \in JobType, NEW w, NEW s \in Seq(Job), s # << >>, NEW t \in Seq(Job),
           NEW there, NEW more, NEW rest,
           Complete(w, s, there, more), Continues(w, s[Len(s)], t, there, rest)
    PROVE  /\ \A m \in 1..Len(t) : ~Listed(s, t[m])
           /\ Complete(w, s \o t, there, rest)
<1> DEFINE L == Len(s)
           all == s \o t
<1>1. /\ L \in Nat \ {0} /\ Len(t) \in Nat
      /\ \A n \in 1..L : s[n] \in Job
      /\ \A n \in 1..Len(t) : t[n] \in Job
  BY ElementOfSeq
<1>2. /\ Len(all) = L + Len(t)
      /\ \A n \in 1..L : all[n] = s[n]
      /\ \A n \in 1..Len(t) : all[L + n] = t[n]
      /\ \A n \in (L + 1)..(L + Len(t)) : n - L \in 1..Len(t) /\ all[n] = t[n - L]
  <2>1. /\ Len(s \o t) = Len(s) + Len(t)
        /\ \A i \in 1..(Len(s) + Len(t)) :
              (s \o t)[i] = IF i <= Len(s) THEN s[i] ELSE t[i - Len(s)]
    BY ConcatProperties
  <2> HIDE DEF all
  <2>2. QED BY <1>1, <2>1 DEF all
<1>3. ASSUME NEW n \in 1..L, NEW m \in 1..Len(t) PROVE Newer(s[n], t[m])
  <2>1. L \in 1..L /\ Newer(s[L], t[m])
    BY <1>1 DEF Continues
  <2>2. CASE n = L
    BY <2>1, <2>2
  <2>3. CASE n # L
    <3>1. Newer(s[n], s[L])
      BY <1>1, <2>1, <2>3 DEF Complete, Sorted
    <3>2. QED BY <1>1, <2>1, <3>1, NewerOrders
  <2>4. QED BY <2>2, <2>3
<1> HIDE DEF L, all
<1>4. ASSUME NEW m \in 1..Len(t) PROVE ~Listed(s, t[m])
  BY <1>1, <1>3, <1>4, NewerOrders DEF Listed, L
<1>5. Sorted(all)
  <2>1. SUFFICES ASSUME NEW m \in 1..Len(all), NEW n \in 1..Len(all), m < n
                 PROVE  Newer(all[m], all[n])
    BY DEF Sorted
  <2>2. CASE n <= L
    <3>1. m \in 1..Len(s) /\ n \in 1..Len(s)
      BY <1>1, <2>1, <2>2 DEF L
    <3>2. QED BY <1>2, <2>1, <3>1 DEF Complete, Sorted, L
  <2>3. CASE m <= L /\ n > L
    <3>1. m \in 1..L /\ n \in (L + 1)..(L + Len(t))
      BY <1>1, <1>2, <2>1, <2>3
    <3>2. QED BY <1>2, <1>3, <3>1
  <2>4. CASE m > L
    <3>1. m \in (L + 1)..(L + Len(t)) /\ n \in (L + 1)..(L + Len(t))
      BY <1>1, <1>2, <2>1, <2>4
    <3>2. m - L < n - L
      BY <1>1, <2>1, <3>1
    <3>3. QED BY <1>2, <3>1, <3>2 DEF Continues, Sorted
  <2>5. QED BY <1>1, <2>1, <2>2, <2>3, <2>4
<1>6. ASSUME NEW n \in 1..Len(all)
      PROVE  \/ n \in 1..L /\ all[n] = s[n]
             \/ \E m \in 1..Len(t) : all[n] = t[m]
  BY <1>1, <1>2
<1>7. \A n \in 1..Len(all) : Owned(all[n], w)
  BY <1>6 DEF Complete, Continues, L
<1>8. ASSUME NEW j \in there PROVE Owned(j, w) /\ Reaches(all, j, rest)
  <2>1. Owned(j, w) /\ Reaches(s, j, more)
    BY DEF Complete
  <2>2. CASE Listed(s, j)
    <3>1. PICK n \in 1..L : s[n] = j
      BY <2>2 DEF Listed, L
    <3>2. n \in 1..Len(all) /\ all[n] = j
      BY <1>1, <1>2, <3>1
    <3>3. QED BY <2>1, <3>2 DEF Reaches, Listed
  <2>3. CASE \A n \in 1..L : Newer(s[n], j)
    <3>1. Reaches(t, j, rest)
      BY <1>1, <2>3 DEF Continues, L
    <3>2. CASE Listed(t, j)
      <4>1. PICK m \in 1..Len(t) : t[m] = j
        BY <3>2 DEF Listed
      <4>2. L + m \in 1..Len(all) /\ all[L + m] = j
        BY <1>1, <1>2, <4>1
      <4>3. QED BY <2>1, <4>2 DEF Reaches, Listed
    <3>3. CASE rest /\ \A n \in 1..Len(t) : Newer(t[n], j)
      BY <1>6, <2>1, <2>3, <3>3 DEF Reaches
    <3>4. QED BY <3>1, <3>2, <3>3 DEF Reaches
  <2>4. QED BY <2>1, <2>2, <2>3 DEF Reaches, L
<1>9. QED BY <1>4, <1>5, <1>7, <1>8 DEF Complete, all

LEMMA ReceiveStep ==
    ASSUME ModalOK, NEW f \in Fetch, Receive(f)
    PROVE  ModalOK'
<1> USE DEF ModalOK
<1> DEFINE r == fetch[f]
           S == {n \in DOMAIN r.page : ~InList(r.page[n])}
           more == Kept(r.page, S)
<1>1. /\ r \in FetchType /\ r.at = "answered" /\ UNCHANGED <<job, crossed>>
      /\ modal \in ModalType
  BY DEF Receive, ModalTypeOK, rowVars
<1>2. Ask(f, Unsent)
  BY DEF Receive
<1>3. /\ fetch' \in [Fetch -> FetchType] /\ fetch'[f] = Unsent
      /\ \A g \in Fetch : g # f => fetch'[g] = fetch[g]
  BY <1>2, UnsentType, Asking
<1>4. modal' = IF r.first
               THEN [modal EXCEPT !.list = r.page, !.more = r.more, !.loading = FALSE,
                                  !.there = r.there]
               ELSE [modal EXCEPT !.list = @ \o more, !.more = r.more, !.loadingMore = FALSE]
  BY DEF Receive
<1>5. /\ r.page \in Seq(Job) /\ modal.list \in Seq(Job)
      /\ r.more \in BOOLEAN /\ r.there \in SUBSET Job
  BY <1>1 DEF FetchType, ModalType
<1>6. more \in Seq(Job) /\ (S = DOMAIN r.page => more = r.page)
  BY <1>5, KeptFacts
<1>7. modal.list \o more \in Seq(Job)
  BY <1>5, <1>6
<1>8. /\ modal' \in ModalType /\ modal'.open = modal.open /\ modal'.who = modal.who
      /\ modal'.more = r.more
      /\ r.first => /\ modal'.list = r.page /\ modal'.there = r.there
      /\ ~r.first => /\ modal'.list = modal.list \o more /\ modal'.there = modal.there
                     /\ modal'.loading = modal.loading
  BY <1>1, <1>4, <1>5, <1>7 DEF ModalType
<1> HIDE DEF more
<1>9. Settings' /\ ModalTypeOK'
  BY <1>1, <1>3, <1>8 DEF Settings, ModalTypeOK
<1>10. ASSUME ~crossed' PROVE Lone' /\ Asked' /\ ListOK'
  <2>1. Lone /\ Asked /\ ListOK /\ Underway(f)
    BY <1>1, <1>10 DEF PagesOK, Underway
  <2>2. FetchOK(r)
    BY <2>1 DEF Asked
  <2>3. \A g \in Fetch : ~Underway(g)'
    BY <1>3, <2>1, UnsentType DEF Lone, Underway
  <2>4. Complete(r.who, modal'.list, modal'.there, r.more)
    <3>1. CASE r.first
      BY <1>1, <1>8, <2>2, <3>1 DEF FetchOK, FirstOK
    <3>2. CASE ~r.first
      <4>1. /\ modal.list # << >> /\ r.before = modal.list[Len(modal.list)]
            /\ Continues(r.who, r.before, r.page, modal.there, r.more)
            /\ Complete(r.who, modal.list, modal.there, modal.more)
        BY <1>1, <2>1, <2>2, <3>2 DEF FetchOK, MoreOK, ListOK
      <4>2. /\ \A m \in 1..Len(r.page) : ~Listed(modal.list, r.page[m])
            /\ Complete(r.who, modal.list \o r.page, modal.there, r.more)
        BY <1>5, <4>1, Appended DEF ModalTypeOK
      <4>3. S = DOMAIN r.page
        <5>1. DOMAIN modal.list = 1..Len(modal.list) /\ DOMAIN r.page = 1..Len(r.page)
          BY <1>5, LenProperties
        <5>2. QED BY <4>2, <5>1 DEF InList, Listed
      <4>4. QED BY <1>6, <1>8, <3>2, <4>2, <4>3
    <3>3. QED BY <3>1, <3>2
  <2>5. Complete(r.who, modal'.list, modal'.there, r.more) => ListOK'
    BY <1>1, <1>8, <2>2
       DEF ListOK, FetchOK, Complete, Sorted, Reaches, Listed, Owned, Newer
  <2>6. QED BY <2>3, <2>4, <2>5 DEF Lone, Asked
<1>11. QED BY <1>9, <1>10 DEF PagesOK

LEMMA FetchFailsStep ==
    ASSUME ModalOK, NEW f \in Fetch, FetchFails(f)
    PROVE  ModalOK'
<1> USE DEF ModalOK
<1>1. /\ modal \in ModalType /\ UNCHANGED <<job, crossed>>
      /\ fetch[f].at # "none" /\ Ask(f, Unsent)
  BY DEF FetchFails, ModalTypeOK
<1>2. /\ fetch' \in [Fetch -> FetchType] /\ fetch'[f] = Unsent
      /\ \A g \in Fetch : g # f => fetch'[g] = fetch[g]
  BY <1>1, UnsentType, Asking
<1>3. modal' = IF fetch[f].first
               THEN [modal EXCEPT !.list = << >>, !.more = FALSE, !.loading = FALSE,
                                  !.there = {}]
               ELSE [modal EXCEPT !.loadingMore = FALSE]
  BY DEF FetchFails
<1>4. << >> \in Seq(Job) /\ Len(<< >>) = 0
  BY EmptySeq
<1>5. /\ modal' \in ModalType /\ modal'.open = modal.open /\ modal'.who = modal.who
      /\ fetch[f].first => modal'.list = << >> /\ modal'.there = {}
      /\ ~fetch[f].first => /\ modal'.list = modal.list /\ modal'.there = modal.there
                            /\ modal'.loading = modal.loading /\ modal'.more = modal.more
  BY <1>1, <1>3, <1>4 DEF ModalType
<1>6. Settings' /\ ModalTypeOK'
  BY <1>1, <1>2, <1>5 DEF Settings, ModalTypeOK
<1>7. ASSUME ~crossed' PROVE Lone' /\ Asked' /\ ListOK'
  <2>1. Lone /\ Asked /\ ListOK /\ Underway(f)
    BY <1>1, <1>7 DEF PagesOK, Underway
  <2>2. \A g \in Fetch : ~Underway(g)'
    BY <1>2, <2>1, UnsentType DEF Lone, Underway
  <2>3. ListOK'
    <3>1. CASE fetch[f].first
      BY <1>4, <1>5, <3>1 DEF ListOK, Complete, Sorted
    <3>2. CASE ~fetch[f].first
      <4>1. ~modal'.loading => Complete(modal.who, modal.list, modal.there, modal.more)
        BY <1>5, <2>1, <3>2 DEF ListOK
      <4>2. \A w, s, there, m : Complete(w, s, there, m)' <=> Complete(w, s, there, m)
        BY <1>1 DEF Complete, Sorted, Reaches, Listed, Owned, Newer
      <4>3. QED BY <1>5, <3>2, <4>1, <4>2 DEF ListOK
    <3>3. QED BY <3>1, <3>2
  <2>4. QED BY <2>2, <2>3 DEF Lone, Asked
<1>8. QED BY <1>6, <1>7 DEF PagesOK

LEMMA InitModal == Settings /\ ModalInit => ModalOK
<1> SUFFICES ASSUME Settings, ModalInit PROVE ModalOK
  OBVIOUS
<1>1. job \in JobType
  BY RowsAssumption DEF ModalInit, RowsInit, JobType
<1>2. << >> \in Seq(Job) /\ Len(<< >>) = 0
  BY EmptySeq
<1>3. /\ modal \in ModalType /\ ~modal.open /\ modal.list = << >> /\ modal.there = {}
      /\ fetch \in [Fetch -> FetchType] /\ \A f \in Fetch : ~Underway(f)
      /\ crossed = FALSE
  BY <1>2, UnsentType DEF ModalInit, Hidden, ModalType, Underway
<1>4. ListOK
  BY <1>2, <1>3 DEF ListOK, Complete, Sorted
<1>5. QED BY <1>1, <1>3, <1>4 DEF ModalOK, ModalTypeOK, PagesOK, Lone, Asked

LEMMA NextModal == ModalOK /\ [ModalNext]_(modalVars) => ModalOK'
<1> SUFFICES ASSUME ModalOK, [ModalNext]_(modalVars) PROVE ModalOK'
  OBVIOUS
<1>1. CASE UNCHANGED modalVars
  BY <1>1, QuietModal DEF modalVars, rowVars, JobsStay, ModalOK, ModalTypeOK
<1>2. CASE ModalNext
  BY <1>2, OpenStep, LoadMoreStep, ServeStep, ReceiveStep, FetchFailsStep, HideStep,
     NewJobStep DEF ModalNext
<1>3. QED BY <1>1, <1>2

LEMMA ModalInductive == Settings /\ ModalSpec => []ModalOK
BY InitModal, NextModal, PTL DEF ModalSpec

LEMMA PagesFit == ModalOK => PagesMissNothing
<1> SUFFICES ASSUME ModalOK, ~crossed, ~modal.loading
    PROVE  /\ \A n \in DOMAIN modal.list :
                 /\ job[modal.list[n]].user = modal.who
                 /\ n > 1 => Newer(modal.list[n - 1], modal.list[n])
           /\ \A j \in modal.there :
                 \/ InList(j)
                 \/ modal.more /\ \A n \in DOMAIN modal.list : Newer(modal.list[n], j)
  BY DEF PagesMissNothing
<1>1. Complete(modal.who, modal.list, modal.there, modal.more)
  BY DEF ModalOK, PagesOK, ListOK
<1>2. Len(modal.list) \in Nat /\ DOMAIN modal.list = 1..Len(modal.list)
  <2>1. modal.list \in Seq(Job)
    BY DEF ModalOK, ModalTypeOK, ModalType
  <2>2. QED BY <2>1, LenProperties
<1>3. QED BY <1>1, <1>2 DEF Complete, Sorted, Reaches, Listed, Owned, InList

(* The pages of the history, for any number of jobs, requests and of rows    *)
(* to a page (loadHistory, loadMore, getHistoryForUser).                     *)
THEOREM Pages == Settings /\ ModalSpec => []PagesMissNothing
BY ModalInductive, PagesFit, PTL
=============================================================================
