------------------------------ MODULE MCJobQueue -----------------------------
(* Model values for JobQueue: tasks t1 to t3, workers k1 and k2. *)
EXTENDS JobQueue
CONSTANTS t1, t2, t3, k1, k2
=============================================================================
