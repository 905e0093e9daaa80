---------------------------- MODULE MCAuthSession ----------------------------
(* Model values for AuthSession. *)
EXTENDS AuthSession, TLC
CONSTANTS u1, u2, t1, t2
(* Tabs and users may be exchanged independently. *)
Same == {p @@ q : p \in Permutations({t1, t2}), q \in Permutations({u1, u2})}
=============================================================================
