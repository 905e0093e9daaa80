--------------------------- MODULE ChunkLifecycle ---------------------------
(***************************************************************************)
(* What the tts_chunks row of one synthesis task promises to whoever reads *)
(* it (history, job detail, the audio endpoint), with no queue, no Redis   *)
(* and no process in sight.                                                *)
(*                                                                         *)
(* A row is created pending.  It may be withdrawn while it is pending, by  *)
(* the user's cancel or by the cron reconciler, never afterwards.  Every   *)
(* run (a worker's, or an in-process one) may report one outcome, and "done"    *)
(* is reported only for audio that is in the store.  A run that dies, or   *)
(* whose UPDATE fails, gives up its report.                                *)
(***************************************************************************)

CONSTANT Run            \* the processes that could run this task

VARIABLES status,       \* tts_chunks.status
          path,         \* is tts_chunks.audio_path set?
          durable,      \* is the audio object in the store?
          open          \* the runs that have not reported yet

vars == <<status, path, durable, open>>

Terminal == {"done", "error", "cancelled"}
-----------------------------------------------------------------------------
Init ==
    /\ status = "none"
    /\ path = FALSE
    /\ durable = FALSE
    /\ open = Run

Create ==
    /\ status = "none"
    /\ status' = "pending"
    /\ UNCHANGED <<path, durable, open>>

(* Cancellation and reconciliation: only a row nobody has finished. *)
Withdraw ==
    /\ status = "pending"
    /\ status' \in {"cancelled", "error"}
    /\ UNCHANGED <<path, durable, open>>

Persist ==
    /\ durable' = TRUE
    /\ UNCHANGED <<status, path, open>>

(* The one report of run r.  It may overwrite a withdrawal. *)
Report(r) ==
    /\ r \in open
    /\ status # "none"
    /\ open' = open \ {r}
    /\ \/ durable /\ status' = "done" /\ path' = TRUE
       \/ status' \in {"error", "cancelled"} /\ path' = path
    /\ UNCHANGED durable

GiveUp ==
    /\ open' \in SUBSET open
    /\ UNCHANGED <<status, path, durable>>

Next ==
    \/ Create
    \/ Withdraw
    \/ Persist
    \/ \E r \in Run : Report(r)
    \/ GiveUp

Spec == Init /\ [][Next]_vars

-----------------------------------------------------------------------------
(* Once nobody has a report left, a finished row never changes again. *)
SettledForGood ==
    [][(status \in Terminal /\ open = {}) => UNCHANGED status]_vars
=============================================================================
