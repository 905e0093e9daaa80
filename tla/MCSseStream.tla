----------------------------- MODULE MCSseStream -----------------------------
(* Model values for SseStream: viewers v1 and v2, notifiers n1 and n2. *)
EXTENDS SseStream
CONSTANTS v1, v2, n1, n2
=============================================================================
