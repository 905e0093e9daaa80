----------------------------- MODULE MCSynthTask -----------------------------
(* Model values for SynthTask: web processes w1 and w2, workers k1 and k2. *)
EXTENDS SynthTask
CONSTANTS w1, w2, k1, k2
=============================================================================
