-------------------------- MODULE MCStreamingPanel --------------------------
(* Job 1 is free, job 2 is another user's. *)
EXTENDS StreamingPanel
CONSTANTS u1, u2
Before == [j \in Job |-> [user |-> IF j = 2 THEN u2 ELSE Nobody, at |-> 1]]
=============================================================================
