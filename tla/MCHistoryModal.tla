--------------------------- MODULE MCHistoryModal ---------------------------
(* Five earlier jobs of u1, four of the same moment, and two of u2. *)
EXTENDS HistoryModal
CONSTANTS u1, u2
Before ==
    [j \in Job |-> [user |-> CASE j = 6 -> Nobody [] j > 6 -> u2 [] OTHER -> u1,
                    at |-> IF j = 3 THEN 2 ELSE 1]]
=============================================================================
