-------------------------- MODULE AuthSessionProofs --------------------------
(* Theorems about AuthSession, for any users, tabs, lifetimes and bounds. *)
EXTENDS AuthSession, FiniteSetTheorems, TLAPS

(* The rows are numbered as they are minted; their families agree. *)
Ledger ==
    /\ \A k \in DOMAIN row : k \in 1..minted /\ row[k].family \in 1..minted
    /\ OneDeadline

(* Nobody carries a token that has not been minted. *)
Carried ==
    /\ refresh \in 0..minted
    /\ \A t \in Tab : tok[t] \in 0..minted /\ answer[t] \in 0..minted

(* What a handler has read agrees with the rows of that family, also when   *)
(* the row it read is gone, and with what other handlers have read of it.   *)
Agrees(r, f, u, e) == r.family = f => r.user = u /\ r.expires = e
Held ==
    \A t \in Tab : pc[t] = "rotate" =>
        /\ sess[t] \in Row /\ sess[t].family \in 1..minted
        /\ tok[t] \in DOMAIN row => row[tok[t]].family = sess[t].family
        /\ \A k \in DOMAIN row :
              Agrees(row[k], sess[t].family, sess[t].user, sess[t].expires)
        /\ \A s \in Tab : pc[s] = "rotate" =>
              Agrees(sess[s], sess[t].family, sess[t].user, sess[t].expires)

IInv == TypeOK /\ Ledger /\ Carried /\ Held

-----------------------------------------------------------------------------
(* Rows *)

LEMMA NewRowType ==
    ASSUME NEW f \in Token, NEW u \in User, NEW e \in Nat
    PROVE  /\ NewRow(f, u, e) \in Row
           /\ NewRow(f, u, e).family = f /\ NewRow(f, u, e).user = u
           /\ NewRow(f, u, e).expires = e /\ ~NewRow(f, u, e).revoked
           /\ NewRow(f, u, e).replaced = 0
<1>1. NewRow(f, u, e) \in Row
  BY SessionAssumption DEF NewRow, Row
<1>2. /\ NewRow(f, u, e).family = f /\ NewRow(f, u, e).user = u
      /\ NewRow(f, u, e).expires = e /\ NewRow(f, u, e).replaced = 0
  BY DEF NewRow
<1>3. NewRow(f, u, e).revoked = FALSE
  BY Zenon DEF NewRow
<1>4. QED BY <1>1, <1>2, <1>3

LEMMA FieldType ==
    ASSUME NEW r \in Row, NEW n \in Token
    PROVE  /\ [r EXCEPT !.revoked = TRUE] \in Row
           /\ [r EXCEPT !.revoked = TRUE, !.replaced = n] \in Row
<1>1. n \in 0..MaxTokens
  BY SessionAssumption DEF Token
<1>2. [r EXCEPT !.revoked = TRUE] \in Row
  BY DEF Row
<1>3. [[r EXCEPT !.revoked = TRUE] EXCEPT !.replaced = n] \in Row
  BY <1>1, <1>2 DEF Row
<1>4. [r EXCEPT !.revoked = TRUE, !.replaced = n]
        = [[r EXCEPT !.revoked = TRUE] EXCEPT !.replaced = n]
  OBVIOUS
<1>5. QED BY <1>2, <1>3, <1>4

LEMMA FamilyType ==
    ASSUME TypeOK, NEW k
    PROVE  FamilyOf(k) \subseteq Token
BY DEF TypeOK, FamilyOf, Row

(* An old row after a step: only revoked and replaced may have changed. *)
Kin(r, q) == q.family = r.family /\ q.user = r.user /\ q.expires = r.expires

LEMMA RevokedFacts ==
    ASSUME TypeOK, NEW k, row' = Revoked(k)
    PROVE  /\ DOMAIN row' = DOMAIN row
           /\ \A j \in DOMAIN row :
                 /\ row'[j] \in Row /\ Kin(row[j], row'[j])
                 /\ row'[j].replaced = row[j].replaced
                 /\ j # k => row'[j] = row[j]
<1>1. DOMAIN row' = DOMAIN row
  BY DEF Revoked
<1>2. ASSUME NEW j \in DOMAIN row
      PROVE  /\ row'[j] \in Row /\ Kin(row[j], row'[j])
             /\ row'[j].replaced = row[j].replaced
             /\ j # k => row'[j] = row[j]
  <2>1. row[j] \in Row
    BY DEF TypeOK
  <2>2. CASE j = k
    <3>1. row'[j] = [row[j] EXCEPT !.revoked = TRUE]
      BY <2>2 DEF Revoked
    <3>2. QED BY <2>1, <2>2, <3>1 DEF Row, Kin
  <2>3. CASE j # k
    BY <2>1, <2>3 DEF Revoked, Kin
  <2>4. QED BY <2>2, <2>3
<1>3. QED BY <1>1, <1>2

LEMMA InsertFacts ==
    ASSUME IInv, minted < MaxTokens, NEW u \in User, NEW kept \in SUBSET DOMAIN row,
           Insert(kept, u)
    PROVE  /\ DOMAIN row' = kept \cup {minted + 1}
           /\ minted + 1 \notin kept
           /\ row'[minted + 1] = Opened(u) /\ Opened(u) \in Row
           /\ Opened(u).family = minted + 1 /\ Opened(u).replaced = 0
           /\ ~Opened(u).revoked /\ Opened(u).user = u
           /\ \A j \in kept : row'[j] = row[j] /\ row[j].family # minted + 1
           /\ minted + 1 \in Token
<1>1. minted + 1 \in Token /\ now + Lifetime \in Nat
  BY SessionAssumption DEF IInv, TypeOK, Token
<1>2. /\ Opened(u) \in Row /\ Opened(u).family = minted + 1 /\ Opened(u).replaced = 0
      /\ ~Opened(u).revoked /\ Opened(u).user = u
  BY <1>1, NewRowType DEF Opened
<1>3. minted + 1 \notin DOMAIN row /\ \A j \in DOMAIN row : row[j].family # minted + 1
  BY SessionAssumption DEF IInv, TypeOK, Ledger
<1>4. /\ DOMAIN row' = kept \cup {minted + 1}
      /\ row'[minted + 1] = Opened(u)
      /\ \A j \in kept : row'[j] = row[j]
  BY <1>3 DEF Insert
<1>5. QED BY <1>1, <1>2, <1>3, <1>4

LEMMA RotatedFacts ==
    ASSUME IInv, minted < MaxTokens, NEW t \in Tab, pc[t] = "rotate",
           row' = Rotated(tok[t], sess[t], minted + 1)
    PROVE  /\ DOMAIN row' = DOMAIN row \cup {minted + 1}
           /\ minted + 1 \notin DOMAIN row /\ minted + 1 \in Token
           /\ row'[minted + 1] \in Row /\ Kin(sess[t], row'[minted + 1])
           /\ row'[minted + 1].replaced = 0 /\ ~row'[minted + 1].revoked
           /\ \A j \in DOMAIN row :
                 /\ row'[j] \in Row /\ Kin(row[j], row'[j])
                 /\ j # tok[t] => row'[j] = row[j]
                 /\ \/ row'[j].replaced = row[j].replaced
                    \/ j = tok[t] /\ row'[j].replaced = minted + 1
<1> DEFINE new == minted + 1
<1>1. new \in Token /\ new \notin DOMAIN row
  BY SessionAssumption DEF IInv, TypeOK, Ledger, Token
<1>2. sess[t] \in Row
  BY DEF IInv, Held
<1>3. sess[t].family \in Token /\ sess[t].user \in User /\ sess[t].expires \in Nat
  BY <1>2 DEF Row
<1>4. DOMAIN row' = DOMAIN row \cup {new}
  BY DEF Rotated
<1>5. row'[new] = NewRow(sess[t].family, sess[t].user, sess[t].expires)
  BY <1>4 DEF Rotated
<1> HIDE DEF new
<1>6. /\ row'[new] \in Row /\ Kin(sess[t], row'[new])
      /\ row'[new].replaced = 0 /\ ~row'[new].revoked
  BY <1>3, <1>5, NewRowType DEF Kin
<1>7. ASSUME NEW j \in DOMAIN row
      PROVE  /\ row'[j] \in Row /\ Kin(row[j], row'[j])
             /\ j # tok[t] => row'[j] = row[j]
             /\ \/ row'[j].replaced = row[j].replaced
                \/ j = tok[t] /\ row'[j].replaced = new
  <2>1. row[j] \in Row
    BY DEF IInv, TypeOK
  <2>2. CASE j = tok[t] /\ ~row[j].revoked
    <3>1. row'[j] = [row[j] EXCEPT !.revoked = TRUE, !.replaced = new]
      BY <1>1, <2>2 DEF Rotated, new
    <3>2. row'[j] \in Row
      BY <1>1, <2>1, <3>1, FieldType
    <3>3. QED BY <2>1, <2>2, <3>1, <3>2 DEF Row, Kin
  <2>3. CASE ~(j = tok[t] /\ ~row[j].revoked)
    <3>1. row'[j] = row[j]
      BY <1>1, <2>3 DEF Rotated, new
    <3>2. QED BY <2>1, <3>1 DEF Kin
  <2>4. QED BY <2>2, <2>3
<1>8. QED
  BY <1>1, <1>4, <1>6, <1>7 DEF new

-----------------------------------------------------------------------------
(* Types *)

LEMMA TypeInit == Init => TypeOK
<1> SUFFICES ASSUME Init PROVE TypeOK
  OBVIOUS
<1>1. DOMAIN row = {}
  BY DEF Init
<1>2. /\ pc \in [Tab -> {"idle", "loggedIn", "read", "rotate", "refreshed", "revoke",
                         "loggedOut"}]
      /\ sess \in [Tab -> Row \cup {NoRow}]
  BY DEF Init
<1>3. /\ tok \in [Tab -> 0..MaxTokens] /\ answer \in [Tab -> 0..MaxTokens]
      /\ minted \in 0..MaxTokens /\ now \in 0..MaxTime /\ refresh \in 0..MaxTokens
      /\ faults \in 0..MaxFaults
  BY SessionAssumption DEF Init
<1>4. retried \in [Tab -> BOOLEAN] /\ crossed \in BOOLEAN
  BY DEF Init
<1>5. /\ ended \subseteq Token /\ raced \subseteq Token /\ cut \subseteq Token
      /\ wish \in User \cup {Nobody}
  BY DEF Init
<1>6. QED BY <1>1, <1>2, <1>3, <1>4, <1>5 DEF TypeOK

Place == {"idle", "loggedIn", "read", "rotate", "refreshed", "revoke", "loggedOut"}

LEMMA CloseType ==
    ASSUME TypeOK, NEW t \in Tab, Close(t)
    PROVE  /\ pc' \in [Tab -> Place] /\ tok' \in [Tab -> 0..MaxTokens]
           /\ sess' \in [Tab -> Row \cup {NoRow}] /\ answer' \in [Tab -> 0..MaxTokens]
           /\ retried' \in [Tab -> BOOLEAN]
<1>1. pc' \in [Tab -> Place] /\ sess' \in [Tab -> Row \cup {NoRow}]
  BY DEF TypeOK, Close, Goto, Place
<1>2. tok' \in [Tab -> 0..MaxTokens] /\ answer' \in [Tab -> 0..MaxTokens]
  BY SessionAssumption DEF TypeOK, Close
<1>3. retried' \in [Tab -> BOOLEAN]
  BY DEF TypeOK, Close
<1>4. QED BY <1>1, <1>2, <1>3

LEMMA SendType ==
    ASSUME TypeOK, NEW t \in Tab, NEW place \in Place, Send(t, place)
    PROVE  /\ pc' \in [Tab -> Place] /\ tok' \in [Tab -> 0..MaxTokens]
           /\ raced' \subseteq Token
BY FamilyType DEF TypeOK, Send, Goto, Place

LEMMA FaultType ==
    ASSUME TypeOK, Fault PROVE faults' \in 0..MaxFaults
BY SessionAssumption DEF TypeOK, Fault

LEMMA LastWordType ==
    ASSUME TypeOK, NEW t \in Tab, NEW u \in User \cup {Nobody}, LastWord(t, u)
    PROVE  wish' \in User \cup {Nobody} /\ crossed' \in BOOLEAN
<1>1. crossed' \in BOOLEAN
  BY Zenon DEF LastWord
<1>2. QED BY <1>1 DEF LastWord

LEMMA AnswerStepType ==
    ASSUME IInv, NEW t \in Tab,
           LoginAnswered(t) \/ RefreshAnswered(t) \/ LogoutAnswered(t) \/ Lost(t)
    PROVE  TypeOK'
<1>0. TypeOK
  BY DEF IInv
<1>1. Close(t) /\ UNCHANGED <<row, minted, now>>
  BY DEF LoginAnswered, RefreshAnswered, LogoutAnswered, Lost, sessions
<1>2. sess[t].user \in User \cup {Nobody}
  BY <1>0 DEF TypeOK, Row, NoRow, NewRow
<1>3. wish' \in User \cup {Nobody} /\ crossed' \in BOOLEAN
  <2>1. CASE LoginAnswered(t)
    BY <1>0, <1>2, <2>1, LastWordType DEF LoginAnswered
  <2>2. CASE LogoutAnswered(t)
    BY <1>0, <2>2, LastWordType DEF LogoutAnswered
  <2>3. CASE RefreshAnswered(t) \/ Lost(t)
    <3>1. UNCHANGED <<wish, crossed>>
      BY <2>3 DEF RefreshAnswered, Lost, history
    <3>2. QED BY <1>0, <3>1 DEF TypeOK
  <2>4. QED BY <2>1, <2>2, <2>3
<1>4. ended' \subseteq Token /\ raced' \subseteq Token /\ cut' \subseteq Token
  BY <1>0, FamilyType DEF LoginAnswered, RefreshAnswered, LogoutAnswered, Lost, history, TypeOK
<1>5. refresh' \in 0..MaxTokens
  BY <1>0, SessionAssumption DEF LoginAnswered, RefreshAnswered, LogoutAnswered, Lost, TypeOK
<1>6. faults' \in 0..MaxFaults
  BY <1>0, FaultType DEF LoginAnswered, RefreshAnswered, LogoutAnswered, Lost, TypeOK
<1>7. row' = row /\ minted' \in 0..MaxTokens /\ now' \in 0..MaxTime
  BY <1>0, <1>1 DEF TypeOK
<1>8. (\A k \in DOMAIN row' : row'[k] \in Row) /\ DOMAIN row' \subseteq Token
  BY <1>0, <1>7 DEF TypeOK
<1>9. QED
  BY <1>0, <1>1, <1>3, <1>4, <1>5, <1>6, <1>7, <1>8, CloseType DEF TypeOK, Place

LEMMA LoginType ==
    ASSUME IInv, NEW t \in Tab, NEW u \in User, Login(t, u)
    PROVE  TypeOK'
<1>0. TypeOK
  BY DEF IInv
<1>1. PICK kept \in SUBSET DOMAIN row : Insert(kept, u)
  BY DEF Login, Fresh
<1>2. /\ DOMAIN row' = kept \cup {minted + 1} /\ minted + 1 \in Token
      /\ row'[minted + 1] = Opened(u) /\ Opened(u) \in Row
      /\ \A j \in kept : row'[j] = row[j]
  BY <1>1, InsertFacts DEF Login
<1>3. DOMAIN row' \subseteq Token /\ \A k \in DOMAIN row' : row'[k] \in Row
  BY <1>0, <1>2 DEF TypeOK
<1>4. /\ minted' \in 0..MaxTokens
      /\ answer' \in [Tab -> 0..MaxTokens]
  BY <1>0, SessionAssumption DEF Login, TypeOK
<1>5. sess' \in [Tab -> Row \cup {NoRow}]
  BY <1>0, <1>2 DEF Login, TypeOK
<1>6. pc' \in [Tab -> Place] /\ faults' \in 0..MaxFaults
  BY <1>0, FaultType DEF Login, TypeOK, Goto, Place
<1>7. UNCHANGED <<now, refresh, tok, retried, ended, raced, cut, wish, crossed>>
  BY DEF Login, history
<1>8. QED
  BY <1>0, <1>3, <1>4, <1>5, <1>6, <1>7 DEF TypeOK, Place

LEMMA RefreshType ==
    ASSUME IInv, NEW t \in Tab, RefreshSend(t) \/ RefreshRead(t) \/ RefreshRotate(t)
    PROVE  TypeOK'
<1>0. TypeOK
  BY DEF IInv
<1>1. CASE RefreshSend(t)
  <2>1. /\ pc' \in [Tab -> Place] /\ tok' \in [Tab -> 0..MaxTokens]
        /\ raced' \subseteq Token
    BY <1>0, <1>1, SendType DEF RefreshSend, Place
  <2>2. UNCHANGED <<row, minted, now, refresh, sess, answer, retried, ended, cut, wish,
                    crossed, faults>>
    BY <1>1 DEF RefreshSend, Send, sessions
  <2>3. QED BY <1>0, <2>1, <2>2 DEF TypeOK, Place
<1>2. CASE RefreshRead(t)
  <2>1. UNCHANGED <<minted, now, refresh, ended, cut, wish, crossed, faults>>
    BY <1>2 DEF RefreshRead
  <2>2. CASE Valid(tok[t])
    <3>1. /\ sess' = [sess EXCEPT ![t] = row[tok[t]]] /\ Goto(t, "rotate")
          /\ UNCHANGED <<row, tok, answer, retried, raced>>
      BY <1>2, <2>2 DEF RefreshRead
    <3>2. row[tok[t]] \in Row
      BY <1>0, <2>2 DEF Valid, Unexpired, TypeOK
    <3>3. sess' \in [Tab -> Row \cup {NoRow}] /\ pc' \in [Tab -> Place]
      BY <1>0, <3>1, <3>2 DEF TypeOK, Goto, Place
    <3>4. QED BY <1>0, <2>1, <3>1, <3>3 DEF TypeOK, Place
  <2>3. CASE ~Valid(tok[t])
    <3>1. Refused(t) /\ (UNCHANGED row \/ row' = Revoked(tok[t]))
      BY <1>2, <2>3 DEF RefreshRead
    <3>2. DOMAIN row' \subseteq Token /\ \A k \in DOMAIN row' : row'[k] \in Row
      BY <1>0, <3>1, RevokedFacts DEF TypeOK
    <3>3. CASE Send(t, "read") /\ retried' = [retried EXCEPT ![t] = TRUE]
      <4>1. /\ pc' \in [Tab -> Place] /\ tok' \in [Tab -> 0..MaxTokens]
            /\ raced' \subseteq Token
        BY <1>0, <3>3, SendType DEF Place
      <4>2. retried' \in [Tab -> BOOLEAN]
        BY <1>0, <3>3 DEF TypeOK
      <4>3. UNCHANGED <<sess, answer>>
        BY <3>3 DEF Send
      <4>4. QED BY <1>0, <2>1, <3>2, <4>1, <4>2, <4>3 DEF TypeOK, Place
    <3>4. CASE Close(t) /\ UNCHANGED raced
      BY <1>0, <2>1, <3>2, <3>4, CloseType DEF TypeOK, Place
    <3>5. QED BY <3>1, <3>3, <3>4 DEF Refused
  <2>4. QED BY <2>2, <2>3
<1>3. CASE RefreshRotate(t)
  <2>1. UNCHANGED <<now, refresh, ended, raced, cut, wish, crossed>>
    BY <1>3 DEF RefreshRotate, history
  <2>2. CASE Fault /\ Close(t) /\ UNCHANGED sessions
    BY <1>0, <2>1, <2>2, CloseType, FaultType DEF sessions, TypeOK, Place
  <2>3. CASE /\ minted < MaxTokens
             /\ row' = Rotated(tok[t], sess[t], minted + 1)
             /\ minted' = minted + 1
             /\ answer' = [answer EXCEPT ![t] = minted + 1]
             /\ Goto(t, "refreshed")
             /\ UNCHANGED <<tok, sess, retried, faults>>
    <3>1. pc[t] = "rotate"
      BY <1>3 DEF RefreshRotate
    <3>2. /\ DOMAIN row' = DOMAIN row \cup {minted + 1} /\ minted + 1 \in Token
          /\ row'[minted + 1] \in Row /\ \A j \in DOMAIN row : row'[j] \in Row
      BY <2>3, <3>1, RotatedFacts
    <3>3. DOMAIN row' \subseteq Token /\ \A k \in DOMAIN row' : row'[k] \in Row
      BY <1>0, <3>2 DEF TypeOK
    <3>4. minted' \in 0..MaxTokens /\ answer' \in [Tab -> 0..MaxTokens]
      BY <1>0, <2>3, SessionAssumption DEF TypeOK
    <3>5. pc' \in [Tab -> Place]
      BY <1>0, <2>3 DEF TypeOK, Goto, Place
    <3>6. QED BY <1>0, <2>1, <2>3, <3>3, <3>4, <3>5 DEF TypeOK, Place
  <2>4. QED BY <1>3, <2>2, <2>3 DEF RefreshRotate
<1>4. QED BY <1>1, <1>2, <1>3

LEMMA LogoutType ==
    ASSUME IInv, NEW t \in Tab, LogoutSend(t) \/ LogoutRevoke(t)
    PROVE  TypeOK'
<1>0. TypeOK
  BY DEF IInv
<1>1. CASE LogoutSend(t)
  <2>1. /\ pc' \in [Tab -> Place] /\ tok' \in [Tab -> 0..MaxTokens]
        /\ raced' \subseteq Token
    BY <1>0, <1>1, SendType DEF LogoutSend, Place
  <2>2. UNCHANGED <<row, minted, now, refresh, sess, answer, retried, ended, cut, wish,
                    crossed, faults>>
    BY <1>1 DEF LogoutSend, Send, sessions
  <2>3. QED BY <1>0, <2>1, <2>2 DEF TypeOK, Place
<1>2. CASE LogoutRevoke(t)
  <2>1. UNCHANGED <<minted, now, refresh, tok, sess, answer, retried, raced, wish, crossed>>
    BY <1>2 DEF LogoutRevoke
  <2>2. row' = row \/ row' = Revoked(tok[t])
    BY <1>2 DEF LogoutRevoke
  <2>3. DOMAIN row' \subseteq Token /\ \A k \in DOMAIN row' : row'[k] \in Row
    BY <1>0, <2>2, RevokedFacts DEF TypeOK
  <2>4. ended' \subseteq Token /\ cut' \subseteq Token /\ faults' \in 0..MaxFaults
    BY <1>0, <1>2, FamilyType, FaultType DEF LogoutRevoke, TypeOK
  <2>5. pc' \in [Tab -> Place]
    BY <1>0, <1>2 DEF LogoutRevoke, TypeOK, Goto, Place
  <2>6. QED BY <1>0, <2>1, <2>3, <2>4, <2>5 DEF TypeOK, Place
<1>3. QED BY <1>1, <1>2

LEMMA TimeType ==
    ASSUME IInv, Tick \/ CookieExpires \/ UNCHANGED vars
    PROVE  TypeOK'
<1>0. TypeOK
  BY DEF IInv
<1>1. now' \in 0..MaxTime /\ refresh' \in 0..MaxTokens
  BY <1>0, SessionAssumption DEF Tick, CookieExpires, vars, TypeOK
<1>2. UNCHANGED <<row, minted, pc, tok, sess, answer, retried, ended, raced, cut, wish,
                  crossed, faults>>
  BY DEF Tick, CookieExpires, vars, sessions, requests, history
<1>3. QED BY <1>0, <1>1, <1>2 DEF TypeOK

LEMMA NextType == IInv /\ [Next]_vars => TypeOK'
BY AnswerStepType, LoginType, RefreshType, LogoutType, TimeType DEF Next
-----------------------------------------------------------------------------
(* Families *)

LEMMA InitFamilies == Init => Ledger /\ Carried /\ Held
BY SessionAssumption DEF Init, Ledger, OneDeadline, Carried, Held

(* A step that inserts no row: what the rows, the cookies and the handlers  *)
(* say of families stays, but for what tab t newly carries or has read.     *)
LEMMA NoInsert ==
    ASSUME IInv, minted' = minted, DOMAIN row' = DOMAIN row,
           \A j \in DOMAIN row : Kin(row[j], row'[j]) /\ row'[j].replaced = row[j].replaced,
           refresh' \in 0..minted,
           \A s \in Tab : tok'[s] \in 0..minted /\ answer'[s] \in 0..minted,
           \A s \in Tab : pc'[s] = "rotate" =>
               \/ pc[s] = "rotate" /\ sess'[s] = sess[s] /\ tok'[s] = tok[s]
               \/ /\ tok'[s] \in DOMAIN row /\ sess'[s] = row[tok'[s]]
                  /\ row' = row
    PROVE  Ledger' /\ Carried' /\ Held'
<1>1. Ledger'
  <2>1. \A k \in DOMAIN row' : k \in 1..minted' /\ row'[k].family \in 1..minted'
    BY DEF IInv, Ledger, Kin
  <2>2. OneDeadline'
    BY DEF IInv, Ledger, OneDeadline, Kin
  <2>3. QED BY <2>1, <2>2 DEF Ledger
<1>2. Carried'
  BY DEF Carried
<1>3. Held'
  <2>1. ASSUME NEW s \in Tab, pc'[s] = "rotate"
        PROVE  /\ sess'[s] \in Row /\ sess'[s].family \in 1..minted
               /\ tok'[s] \in DOMAIN row => row[tok'[s]].family = sess'[s].family
               /\ \A k \in DOMAIN row :
                     Agrees(row[k], sess'[s].family, sess'[s].user, sess'[s].expires)
    <3>1. CASE pc[s] = "rotate" /\ sess'[s] = sess[s] /\ tok'[s] = tok[s]
      BY <3>1 DEF IInv, Held
    <3>2. CASE tok'[s] \in DOMAIN row /\ sess'[s] = row[tok'[s]]
      BY <3>2 DEF IInv, TypeOK, Ledger, OneDeadline, Agrees
    <3>3. QED BY <2>1, <3>1, <3>2
  <2>2. ASSUME NEW s \in Tab, pc'[s] = "rotate", NEW q \in Tab, pc'[q] = "rotate"
        PROVE  Agrees(sess'[q], sess'[s].family, sess'[s].user, sess'[s].expires)
    <3>1. CASE tok'[q] \in DOMAIN row /\ sess'[q] = row[tok'[q]]
      BY <2>1, <2>2, <3>1
    <3>2. CASE tok'[s] \in DOMAIN row /\ sess'[s] = row[tok'[s]]
      BY <2>1, <2>2, <3>2 DEF Agrees
    <3>3. CASE /\ pc[q] = "rotate" /\ sess'[q] = sess[q]
               /\ pc[s] = "rotate" /\ sess'[s] = sess[s]
      BY <3>3 DEF IInv, Held
    <3>4. QED BY <2>2, <3>1, <3>2, <3>3
  <2>3. \A s \in Tab, k \in DOMAIN row : pc'[s] = "rotate" =>
           /\ Agrees(row'[k], sess'[s].family, sess'[s].user, sess'[s].expires)
           /\ row'[k].family = row[k].family
    BY <2>1 DEF Agrees, Kin
  <2>4. QED BY <2>1, <2>2, <2>3 DEF Held
<1>4. QED BY <1>1, <1>2, <1>3

LEMMA LoginFamilies ==
    ASSUME IInv, NEW t \in Tab, NEW u \in User, Login(t, u)
    PROVE  Ledger' /\ Carried' /\ Held'
<1>1. PICK kept \in SUBSET DOMAIN row :
         Insert(kept, u) /\ (kept = Fresh \/ kept = DOMAIN row)
  BY DEF Login, Fresh
<1>2. /\ DOMAIN row' = kept \cup {minted + 1} /\ minted + 1 \notin kept
      /\ row'[minted + 1] = Opened(u) /\ Opened(u) \in Row
      /\ Opened(u).family = minted + 1 /\ Opened(u).replaced = 0
      /\ \A j \in kept : row'[j] = row[j] /\ row[j].family # minted + 1
      /\ minted + 1 \in Token
  BY <1>1, InsertFacts DEF Login
<1>3. minted' = minted + 1 /\ minted \in Nat
  BY SessionAssumption DEF Login, IInv, TypeOK
<1>4. \A k \in DOMAIN row' : k \in 1..minted' /\ row'[k].family \in 1..minted'
  BY <1>2, <1>3 DEF IInv, Ledger
<1>5. \A k \in kept : row[k].replaced # 0 => row[k].replaced \in kept
  <2>1. ASSUME NEW k \in kept, row[k].replaced # 0 PROVE row[k].replaced \in kept
    <3>1. /\ row[k].replaced \in DOMAIN row
          /\ row[row[k].replaced].expires = row[k].expires
      BY <2>1 DEF IInv, Ledger, OneDeadline
    <3>2. QED BY <1>1, <3>1 DEF Fresh
  <2>2. QED BY <2>1
<1>6. OneDeadline'
  BY <1>2, <1>5 DEF IInv, Ledger, OneDeadline
<1>7. Carried'
  BY <1>3 DEF IInv, TypeOK, Carried, Login
<1>8. \A s \in Tab : pc'[s] = "rotate" =>
         pc[s] = "rotate" /\ sess'[s] = sess[s] /\ tok'[s] = tok[s]
  BY DEF IInv, TypeOK, Login, Goto
<1>9. ASSUME NEW s \in Tab, pc'[s] = "rotate"
      PROVE  /\ sess'[s] \in Row /\ sess'[s].family \in 1..minted'
             /\ tok'[s] \in DOMAIN row' => row'[tok'[s]].family = sess'[s].family
             /\ \A k \in DOMAIN row' :
                   Agrees(row'[k], sess'[s].family, sess'[s].user, sess'[s].expires)
             /\ \A q \in Tab : pc'[q] = "rotate" =>
                   Agrees(sess'[q], sess'[s].family, sess'[s].user, sess'[s].expires)
  <2>1. pc[s] = "rotate" /\ sess'[s] = sess[s] /\ tok'[s] = tok[s]
    BY <1>8, <1>9
  <2>2. /\ sess[s] \in Row /\ sess[s].family \in 1..minted
        /\ tok[s] \in DOMAIN row => row[tok[s]].family = sess[s].family
        /\ \A k \in DOMAIN row :
              Agrees(row[k], sess[s].family, sess[s].user, sess[s].expires)
        /\ \A q \in Tab : pc[q] = "rotate" =>
              Agrees(sess[q], sess[s].family, sess[s].user, sess[s].expires)
    BY <2>1 DEF IInv, Held
  <2>3. sess[s].family # minted + 1 /\ sess[s].family \in 1..minted'
    BY <1>3, <2>2
  <2>4. tok[s] # minted + 1
    BY <1>3 DEF IInv, Carried
  <2>5. \A k \in DOMAIN row' : Agrees(row'[k], sess[s].family, sess[s].user, sess[s].expires)
    BY <1>2, <2>2, <2>3 DEF Agrees
  <2>6. tok[s] \in DOMAIN row' => row'[tok[s]].family = sess[s].family
    BY <1>2, <2>2, <2>4
  <2>7. QED BY <1>8, <2>1, <2>2, <2>3, <2>5, <2>6
<1>10. Held'
  BY <1>9 DEF Held
<1>11. QED BY <1>4, <1>6, <1>7, <1>10 DEF Ledger

LEMMA RotateFamilies ==
    ASSUME IInv, NEW t \in Tab, RefreshRotate(t), minted < MaxTokens,
           row' = Rotated(tok[t], sess[t], minted + 1), minted' = minted + 1,
           answer' = [answer EXCEPT ![t] = minted + 1],
           Goto(t, "refreshed"), UNCHANGED <<tok, sess>>
    PROVE  Ledger' /\ Carried' /\ Held'
<1>0. pc[t] = "rotate" /\ UNCHANGED refresh
  BY DEF RefreshRotate
<1>1. /\ DOMAIN row' = DOMAIN row \cup {minted + 1}
      /\ minted + 1 \notin DOMAIN row
      /\ Kin(sess[t], row'[minted + 1]) /\ row'[minted + 1].replaced = 0
      /\ \A j \in DOMAIN row :
            /\ Kin(row[j], row'[j])
            /\ \/ row'[j].replaced = row[j].replaced
               \/ j = tok[t] /\ row'[j].replaced = minted + 1
  BY <1>0, RotatedFacts
<1>2. minted \in Nat
  BY SessionAssumption DEF IInv, TypeOK
<1>3. /\ sess[t] \in Row /\ sess[t].family \in 1..minted
      /\ tok[t] \in DOMAIN row => row[tok[t]].family = sess[t].family
      /\ \A k \in DOMAIN row :
            Agrees(row[k], sess[t].family, sess[t].user, sess[t].expires)
      /\ \A q \in Tab : pc[q] = "rotate" =>
            Agrees(sess[q], sess[t].family, sess[t].user, sess[t].expires)
  BY <1>0 DEF IInv, Held
<1>4. \A k \in DOMAIN row' : k \in 1..minted' /\ row'[k].family \in 1..minted'
  BY <1>1, <1>2, <1>3 DEF IInv, Ledger, Kin
<1>5. \A j, k \in DOMAIN row' : row'[j].family = row'[k].family =>
         row'[j].user = row'[k].user /\ row'[j].expires = row'[k].expires
  BY <1>1, <1>3 DEF IInv, Ledger, OneDeadline, Kin, Agrees
<1>6. ASSUME NEW k \in DOMAIN row', row'[k].replaced # 0
      PROVE  /\ row'[k].replaced \in DOMAIN row' /\ row'[k].replaced > k
             /\ row'[row'[k].replaced].family = row'[k].family
  <2>1. k \in DOMAIN row
    BY <1>1, <1>6
  <2>2. CASE row'[k].replaced = row[k].replaced
    BY <1>1, <1>6, <2>1, <2>2 DEF IInv, Ledger, OneDeadline, Kin
  <2>3. CASE k = tok[t] /\ row'[k].replaced = minted + 1
    BY <1>1, <1>2, <1>3, <2>1, <2>3 DEF IInv, Ledger, Kin
  <2>4. QED BY <1>1, <2>1, <2>2, <2>3
<1>7. OneDeadline'
  BY <1>5, <1>6 DEF OneDeadline
<1>8. Carried'
  BY <1>0, <1>2 DEF IInv, TypeOK, Carried
<1>9. \A s \in Tab : pc'[s] = "rotate" => pc[s] = "rotate"
  BY DEF IInv, TypeOK, Goto
<1>10. ASSUME NEW s \in Tab, pc'[s] = "rotate"
       PROVE  /\ sess[s] \in Row /\ sess[s].family \in 1..minted'
              /\ tok[s] \in DOMAIN row' => row'[tok[s]].family = sess[s].family
              /\ \A k \in DOMAIN row' :
                    Agrees(row'[k], sess[s].family, sess[s].user, sess[s].expires)
              /\ \A q \in Tab : pc'[q] = "rotate" =>
                    Agrees(sess[q], sess[s].family, sess[s].user, sess[s].expires)
  <2>1. pc[s] = "rotate"
    BY <1>9, <1>10
  <2>2. /\ sess[s] \in Row /\ sess[s].family \in 1..minted
        /\ tok[s] \in DOMAIN row => row[tok[s]].family = sess[s].family
        /\ \A k \in DOMAIN row :
              Agrees(row[k], sess[s].family, sess[s].user, sess[s].expires)
        /\ \A q \in Tab : pc[q] = "rotate" =>
              Agrees(sess[q], sess[s].family, sess[s].user, sess[s].expires)
    BY <2>1 DEF IInv, Held
  <2>3. tok[s] # minted + 1
    BY <1>2 DEF IInv, Carried
  <2>4. \A k \in DOMAIN row' : Agrees(row'[k], sess[s].family, sess[s].user, sess[s].expires)
    BY <1>1, <1>3, <2>1, <2>2 DEF Agrees, Kin
  <2>5. tok[s] \in DOMAIN row' => row'[tok[s]].family = sess[s].family
    BY <1>1, <2>2, <2>3 DEF Kin
  <2>6. sess[s].family \in 1..minted'
    BY <1>2, <2>2
  <2>7. QED BY <1>9, <2>2, <2>4, <2>5, <2>6
<1>11. Held'
  BY <1>10 DEF Held
<1>12. QED BY <1>4, <1>7, <1>8, <1>11 DEF Ledger

(* One step of one tab that inserts no row. *)
LEMMA TabFamilies ==
    ASSUME IInv, NEW t \in Tab,
           \/ LoginAnswered(t) \/ RefreshAnswered(t) \/ LogoutAnswered(t) \/ Lost(t)
           \/ RefreshSend(t) \/ RefreshRead(t) \/ LogoutSend(t) \/ LogoutRevoke(t)
           \/ RefreshRotate(t) /\ Fault /\ Close(t) /\ UNCHANGED sessions
    PROVE  Ledger' /\ Carried' /\ Held'
<1>0. TypeOK /\ minted \in Nat
  BY SessionAssumption DEF IInv, TypeOK
<1>1. minted' = minted
  BY DEF LoginAnswered, RefreshAnswered, LogoutAnswered, Lost, RefreshSend, RefreshRead,
         LogoutSend, LogoutRevoke, sessions
<1>2. row' = row \/ row' = Revoked(tok[t])
  BY DEF LoginAnswered, RefreshAnswered, LogoutAnswered, Lost, RefreshSend, RefreshRead,
         LogoutSend, LogoutRevoke, sessions
<1>3. /\ DOMAIN row' = DOMAIN row
      /\ \A j \in DOMAIN row : Kin(row[j], row'[j]) /\ row'[j].replaced = row[j].replaced
  BY <1>0, <1>2, RevokedFacts DEF Kin
<1>4. refresh \in 0..minted /\ \A s \in Tab : tok[s] \in 0..minted /\ answer[s] \in 0..minted
  BY DEF IInv, Carried
<1>5. refresh' \in 0..minted
  BY <1>0, <1>4 DEF LoginAnswered, RefreshAnswered, LogoutAnswered, Lost, RefreshSend,
         RefreshRead, LogoutSend, LogoutRevoke, RefreshRotate
<1>6. CASE Close(t)
  <2>1. \A s \in Tab : tok'[s] \in 0..minted /\ answer'[s] \in 0..minted
    BY <1>0, <1>4, <1>6 DEF Close, TypeOK
  <2>2. \A s \in Tab : pc'[s] = "rotate" =>
           pc[s] = "rotate" /\ sess'[s] = sess[s] /\ tok'[s] = tok[s]
    BY <1>0, <1>6 DEF Close, Goto, TypeOK
  <2>3. QED BY <1>1, <1>3, <1>5, <2>1, <2>2, NoInsert
<1>7. CASE Send(t, "read") \/ Send(t, "revoke")
  <2>1. \A s \in Tab : tok'[s] \in 0..minted /\ answer'[s] \in 0..minted
    BY <1>0, <1>4, <1>7 DEF Send, TypeOK
  <2>2. \A s \in Tab : pc'[s] = "rotate" =>
           pc[s] = "rotate" /\ sess'[s] = sess[s] /\ tok'[s] = tok[s]
    BY <1>0, <1>7 DEF Send, Goto, TypeOK
  <2>3. QED BY <1>1, <1>3, <1>5, <2>1, <2>2, NoInsert
<1>8. CASE RefreshRead(t) /\ Valid(tok[t])
  <2>1. /\ sess' = [sess EXCEPT ![t] = row[tok[t]]] /\ Goto(t, "rotate")
        /\ UNCHANGED <<row, tok, answer>> /\ tok[t] \in DOMAIN row
    BY <1>8 DEF RefreshRead, Valid, Unexpired
  <2>2. \A s \in Tab : pc'[s] = "rotate" =>
           \/ pc[s] = "rotate" /\ sess'[s] = sess[s] /\ tok'[s] = tok[s]
           \/ tok'[s] \in DOMAIN row /\ sess'[s] = row[tok'[s]] /\ row' = row
    BY <1>0, <2>1 DEF Goto, TypeOK
  <2>3. QED BY <1>1, <1>3, <1>4, <1>5, <2>1, <2>2, NoInsert
<1>9. CASE LogoutRevoke(t)
  <2>1. \A s \in Tab : pc'[s] = "rotate" => pc[s] = "rotate"
    BY <1>0, <1>9 DEF LogoutRevoke, Goto, TypeOK
  <2>2. UNCHANGED <<tok, sess, answer>>
    BY <1>9 DEF LogoutRevoke
  <2>3. QED BY <1>1, <1>3, <1>4, <1>5, <2>1, <2>2, NoInsert
<1>10. QED
  BY <1>6, <1>7, <1>8, <1>9 DEF LoginAnswered, RefreshAnswered, LogoutAnswered, Lost,
     RefreshSend, RefreshRead, Refused, LogoutSend

LEMMA NextFamilies == IInv /\ [Next]_vars => Ledger' /\ Carried' /\ Held'
<1> SUFFICES ASSUME IInv, [Next]_vars PROVE Ledger' /\ Carried' /\ Held'
  OBVIOUS
<1>1. ASSUME NEW t \in Tab, RefreshRotate(t)
      PROVE  Ledger' /\ Carried' /\ Held'
  <2>1. CASE Fault /\ Close(t) /\ UNCHANGED sessions
    BY <1>1, <2>1, TabFamilies
  <2>2. CASE ~(Fault /\ Close(t) /\ UNCHANGED sessions)
    BY <1>1, <2>2, RotateFamilies DEF RefreshRotate
  <2>3. QED BY <2>1, <2>2
<1>2. CASE Tick \/ CookieExpires \/ UNCHANGED vars
  <2>1. UNCHANGED <<row, minted, pc, tok, sess, answer>>
    BY <1>2 DEF Tick, CookieExpires, vars, sessions, requests
  <2>2. refresh' \in 0..minted
    BY <1>2, SessionAssumption DEF Tick, CookieExpires, vars, IInv, Carried, TypeOK
  <2>3. \A j \in DOMAIN row : Kin(row[j], row'[j]) /\ row'[j].replaced = row[j].replaced
    BY <2>1 DEF Kin
  <2>4. \A s \in Tab : tok'[s] \in 0..minted /\ answer'[s] \in 0..minted
    BY <2>1 DEF IInv, Carried
  <2>5. QED BY <2>1, <2>2, <2>3, <2>4, NoInsert
<1>3. QED BY <1>1, <1>2, TabFamilies, LoginFamilies DEF Next

LEMMA InitInv == Init => IInv
BY TypeInit, InitFamilies DEF IInv

LEMMA NextInv == IInv /\ [Next]_vars => IInv'
BY NextType, NextFamilies DEF IInv
-----------------------------------------------------------------------------
(* A live token for each session *)

LEMMA InitSurvives == Init => SessionSurvives
BY DEF Init, SessionSurvives

(* A step that revokes nothing that is both unexpired and not ended. *)
LEMMA SurvivesRevoked ==
    ASSUME IInv, SessionSurvives, now' \in Nat, now' >= now, ended \subseteq ended',
           NEW n, row' = row \/ row' = Revoked(n),
           n \in DOMAIN row /\ row' # row => ~Unexpired(n) \/ row[n].family \in ended'
    PROVE  SessionSurvives'
<1> SUFFICES ASSUME NEW k \in DOMAIN row', Unexpired(k)', row'[k].family \notin ended'
             PROVE  Live(row[k].family)' # {}
  BY DEF SessionSurvives
<1>1. CASE row' = row
  <2>1. Unexpired(k)
    <3>1. now \in Nat /\ row[k].expires \in Nat
      BY <1>1, SessionAssumption DEF IInv, TypeOK, Row
    <3>2. QED BY <1>1, <3>1 DEF Unexpired
  <2>2. Live(row[k].family) # {}
    BY <1>1, <2>1 DEF SessionSurvives
  <2>3. QED BY <1>1, <2>2 DEF Live
<1>2. CASE row' = Revoked(n) /\ row' # row
  <2>1. /\ DOMAIN row' = DOMAIN row
        /\ \A j \in DOMAIN row : Kin(row[j], row'[j]) /\ (j # n => row'[j] = row[j])
    BY <1>2, RevokedFacts DEF IInv
  <2>2. Unexpired(k)
    <3>1. now \in Nat /\ row[k].expires \in Nat
      BY <2>1, SessionAssumption DEF IInv, TypeOK, Row
    <3>2. QED BY <2>1, <3>1 DEF Unexpired, Kin
  <2>3. row[k].family \notin ended /\ row'[k].family = row[k].family
    BY <2>1 DEF Kin
  <2>4. PICK j \in DOMAIN row : row[j].family = row[k].family /\ ~row[j].revoked
    BY <2>1, <2>2, <2>3 DEF SessionSurvives, Live
  <2>5. j # n
    BY <1>2, <2>1, <2>2, <2>3, <2>4 DEF IInv, Ledger, OneDeadline, Unexpired
  <2>6. j \in Live(row[k].family)'
    BY <2>1, <2>3, <2>4, <2>5 DEF Live
  <2>7. QED BY <2>6
<1>3. QED BY <1>1, <1>2

LEMMA SurvivesLogin ==
    ASSUME IInv, SessionSurvives, NEW t \in Tab, NEW u \in User, Login(t, u)
    PROVE  SessionSurvives'
<1> SUFFICES ASSUME NEW k \in DOMAIN row', Unexpired(k)', row'[k].family \notin ended'
             PROVE  Live(row[k].family)' # {}
  BY DEF SessionSurvives
<1>1. PICK kept \in SUBSET DOMAIN row :
         Insert(kept, u) /\ (kept = Fresh \/ kept = DOMAIN row)
  BY DEF Login, Fresh
<1>2. /\ DOMAIN row' = kept \cup {minted + 1}
      /\ row'[minted + 1] = Opened(u) /\ ~Opened(u).revoked
      /\ \A j \in kept : row'[j] = row[j]
  BY <1>1, InsertFacts DEF Login
<1>3. UNCHANGED <<now, ended>>
  BY DEF Login, history
<1>4. CASE k = minted + 1
  <2>1. k \in Live(row[k].family)'
    BY <1>2, <1>4 DEF Live
  <2>2. QED BY <2>1
<1>5. CASE k \in kept
  <2>1. Unexpired(k) /\ row'[k] = row[k]
    BY <1>2, <1>3, <1>5 DEF Unexpired
  <2>2. PICK j \in DOMAIN row : row[j].family = row[k].family /\ ~row[j].revoked
    BY <1>3, <2>1, <1>5 DEF SessionSurvives, Live
  <2>3. row[j].expires = row[k].expires
    BY <1>5, <2>2 DEF IInv, Ledger, OneDeadline
  <2>4. j \in kept
    BY <1>1, <2>1, <2>2, <2>3 DEF Fresh, Unexpired
  <2>5. j \in Live(row[k].family)'
    BY <1>2, <2>1, <2>2, <2>4 DEF Live
  <2>6. QED BY <2>5
<1>6. QED BY <1>2, <1>4, <1>5

LEMMA SurvivesRotate ==
    ASSUME IInv, SessionSurvives, NEW t \in Tab, RefreshRotate(t), minted < MaxTokens,
           row' = Rotated(tok[t], sess[t], minted + 1)
    PROVE  SessionSurvives'
<1> SUFFICES ASSUME NEW k \in DOMAIN row', Unexpired(k)', row'[k].family \notin ended'
             PROVE  Live(row[k].family)' # {}
  BY DEF SessionSurvives
<1>0. pc[t] = "rotate" /\ UNCHANGED <<now, ended>>
  BY DEF RefreshRotate, history
<1>1. /\ DOMAIN row' = DOMAIN row \cup {minted + 1}
      /\ minted + 1 \notin DOMAIN row
      /\ Kin(sess[t], row'[minted + 1]) /\ ~row'[minted + 1].revoked
      /\ \A j \in DOMAIN row : Kin(row[j], row'[j]) /\ (j # tok[t] => row'[j] = row[j])
  BY <1>0, RotatedFacts
<1>2. CASE row'[k].family = sess[t].family
  <2>1. minted + 1 \in Live(row[k].family)'
    BY <1>1, <1>2 DEF Live, Kin
  <2>2. QED BY <2>1
<1>3. CASE row'[k].family # sess[t].family
  <2>1. k \in DOMAIN row /\ row'[k].family = row[k].family
    BY <1>1, <1>3 DEF Kin
  <2>2. Unexpired(k)
    BY <1>0, <1>1, <2>1 DEF Unexpired, Kin
  <2>3. PICK j \in DOMAIN row : row[j].family = row[k].family /\ ~row[j].revoked
    BY <1>0, <2>1, <2>2 DEF SessionSurvives, Live
  <2>4. j # tok[t]
    BY <1>0, <1>3, <2>1, <2>3 DEF IInv, Held
  <2>5. j \in Live(row[k].family)'
    BY <1>1, <2>1, <2>3, <2>4 DEF Live
  <2>6. QED BY <2>5
<1>4. QED BY <1>2, <1>3

LEMMA NextSurvives == IInv /\ SessionSurvives /\ [Next]_vars => SessionSurvives'
<1> SUFFICES ASSUME IInv, SessionSurvives, [Next]_vars PROVE SessionSurvives'
  OBVIOUS
<1>0. now \in Nat /\ now' \in Nat /\ now' >= now
  BY SessionAssumption, NextInv DEF Next, IInv, TypeOK, Login, LoginAnswered,
     RefreshAnswered, LogoutAnswered, Lost, RefreshSend, RefreshRead, RefreshRotate,
     LogoutSend, LogoutRevoke, Tick, CookieExpires, vars
<1>1. ASSUME NEW t \in Tab, RefreshRotate(t) PROVE SessionSurvives'
  <2>1. CASE UNCHANGED sessions
    BY <1>0, <1>1, <2>1, SurvivesRevoked DEF RefreshRotate, sessions, history
  <2>2. CASE minted < MaxTokens /\ row' = Rotated(tok[t], sess[t], minted + 1)
    BY <1>1, <2>2, SurvivesRotate
  <2>3. QED BY <1>1, <2>1, <2>2 DEF RefreshRotate
<1>2. ASSUME NEW t \in Tab, RefreshRead(t) PROVE SessionSurvives'
  <2>1. UNCHANGED ended
    BY <1>2 DEF RefreshRead
  <2>2. row' = row \/ (~Unexpired(tok[t]) /\ row' = Revoked(tok[t]))
    BY <1>2 DEF RefreshRead
  <2>3. QED BY <1>0, <2>1, <2>2, SurvivesRevoked
<1>3. ASSUME NEW t \in Tab, LogoutRevoke(t) PROVE SessionSurvives'
  <2>1. ended' = ended \cup FamilyOf(tok[t])
    BY <1>3 DEF LogoutRevoke
  <2>2. row' = row \/ row' = Revoked(tok[t])
    BY <1>3 DEF LogoutRevoke
  <2>3. tok[t] \in DOMAIN row => row[tok[t]].family \in ended'
    BY <2>1 DEF FamilyOf
  <2>4. QED BY <1>0, <2>1, <2>2, <2>3, SurvivesRevoked
<1>4. CASE \/ \E t \in Tab : \/ LoginAnswered(t) \/ RefreshAnswered(t)
                             \/ LogoutAnswered(t) \/ Lost(t)
                             \/ RefreshSend(t) \/ LogoutSend(t)
           \/ Tick \/ CookieExpires \/ UNCHANGED vars
  <2>1. row' = row /\ ended' = ended
    BY <1>4 DEF LoginAnswered, RefreshAnswered, LogoutAnswered, Lost, RefreshSend,
       LogoutSend, Tick, CookieExpires, vars, sessions, history
  <2>2. QED BY <1>0, <2>1, SurvivesRevoked
<1>5. QED BY <1>1, <1>2, <1>3, <1>4, SurvivesLogin DEF Next
-----------------------------------------------------------------------------
(* Whose session the jar holds *)

(* Without a crossing, whatever is under way is of the user of the wish. *)
Word ==
    /\ ~crossed /\ refresh \in DOMAIN row => row[refresh].user = wish
    /\ \A t \in Tab :
          /\ ~crossed =>
                /\ pc[t] = "read" /\ tok[t] \in DOMAIN row => row[tok[t]].user = wish
                /\ pc[t] = "rotate" => sess[t].user = wish
                /\ pc[t] = "refreshed" /\ answer[t] \in DOMAIN row =>
                      row[answer[t]].user = wish
          /\ pc[t] = "loggedIn" /\ answer[t] \in DOMAIN row =>
                row[answer[t]].user = sess[t].user

(* A row that was there is still the same user's. *)
UsersStay ==
    \A k \in 0..minted : k \in DOMAIN row' => k \in DOMAIN row /\ row'[k].user = row[k].user

LEMMA UsersSame ==
    ASSUME IInv, row' = row
    PROVE  UsersStay
BY DEF UsersStay

LEMMA UsersRevoked ==
    ASSUME IInv, NEW k, row' = row \/ row' = Revoked(k)
    PROVE  UsersStay
BY RevokedFacts DEF UsersStay, IInv, Kin

LEMMA InitWord == Init => Word
BY DEF Init, Word

(* A step of one tab that leaves the wish alone. *)
LEMMA OneTabWord ==
    ASSUME IInv, Word, UsersStay, UNCHANGED <<wish, crossed>>, NEW t \in Tab,
           \A s \in Tab \ {t} : /\ pc'[s] = pc[s] /\ tok'[s] = tok[s]
                                /\ sess'[s] = sess[s] /\ answer'[s] = answer[s],
           ~crossed /\ refresh' \in DOMAIN row' => row'[refresh'].user = wish,
           ~crossed =>
                /\ pc'[t] = "read" /\ tok'[t] \in DOMAIN row' => row'[tok'[t]].user = wish
                /\ pc'[t] = "rotate" => sess'[t].user = wish
                /\ pc'[t] = "refreshed" /\ answer'[t] \in DOMAIN row' =>
                      row'[answer'[t]].user = wish,
           pc'[t] = "loggedIn" /\ answer'[t] \in DOMAIN row' =>
                row'[answer'[t]].user = sess'[t].user
    PROVE  Word'
<1>1. ASSUME NEW s \in Tab \ {t}
      PROVE  /\ ~crossed =>
                /\ pc[s] = "read" /\ tok[s] \in DOMAIN row' => row'[tok[s]].user = wish
                /\ pc[s] = "rotate" => sess[s].user = wish
                /\ pc[s] = "refreshed" /\ answer[s] \in DOMAIN row' =>
                      row'[answer[s]].user = wish
             /\ pc[s] = "loggedIn" /\ answer[s] \in DOMAIN row' =>
                row'[answer[s]].user = sess[s].user
  <2>1. tok[s] \in 0..minted /\ answer[s] \in 0..minted
    BY DEF IInv, Carried
  <2>2. QED BY <2>1 DEF UsersStay, Word
<1>2. QED BY <1>1 DEF Word

(* The jar keeps its user while it keeps its cookie. *)
LEMMA JarKeepsUser ==
    ASSUME IInv, Word, UsersStay, refresh' = refresh
    PROVE  ~crossed /\ refresh' \in DOMAIN row' => row'[refresh'].user = wish
<1>1. refresh \in 0..minted
  BY DEF IInv, Carried
<1>2. QED BY <1>1 DEF UsersStay, Word

LEMMA SendWord ==
    ASSUME IInv, Word, NEW t \in Tab, NEW place \in {"read", "revoke"}, Send(t, place),
           UNCHANGED <<refresh, wish, crossed>>,
           row' = row \/ row' = Revoked(tok[t])
    PROVE  Word'
<1>1. UsersStay
  BY UsersRevoked
<1>2. \A s \in Tab \ {t} : /\ pc'[s] = pc[s] /\ tok'[s] = tok[s]
                           /\ sess'[s] = sess[s] /\ answer'[s] = answer[s]
  BY DEF Send, Goto, IInv, TypeOK
<1>3. pc'[t] = place /\ tok'[t] = refresh
  BY DEF Send, Goto, IInv, TypeOK
<1>4. ~crossed /\ refresh \in DOMAIN row' => row'[refresh].user = wish
  BY <1>1, JarKeepsUser
<1>5. QED BY <1>1, <1>2, <1>3, <1>4, OneTabWord

LEMMA CloseWord ==
    ASSUME IInv, Word, NEW t \in Tab, Close(t), UNCHANGED <<wish, crossed>>,
           row' = row \/ row' = Revoked(tok[t]),
           \/ refresh' = refresh
           \/ pc[t] = "refreshed" /\ refresh' = answer[t]
    PROVE  Word'
<1>1. UsersStay
  BY UsersRevoked
<1>2. \A s \in Tab \ {t} : /\ pc'[s] = pc[s] /\ tok'[s] = tok[s]
                           /\ sess'[s] = sess[s] /\ answer'[s] = answer[s]
  BY DEF Close, Goto, IInv, TypeOK
<1>3. pc'[t] = "idle"
  BY DEF Close, Goto, IInv, TypeOK
<1>4. ~crossed /\ refresh' \in DOMAIN row' => row'[refresh'].user = wish
  <2>1. answer[t] \in 0..minted
    BY DEF IInv, Carried
  <2>2. CASE pc[t] = "refreshed" /\ refresh' = answer[t]
    BY <1>1, <2>1, <2>2 DEF UsersStay, Word
  <2>3. QED BY <1>1, <2>2, JarKeepsUser
<1>5. QED BY <1>1, <1>2, <1>3, <1>4, OneTabWord

(* A login or a logout is answered: nothing else is under way, or crossed. *)
LEMMA LastWordWord ==
    ASSUME IInv, Word, NEW t \in Tab, Close(t), NEW u, LastWord(t, u), row' = row,
           refresh' \in DOMAIN row => row[refresh'].user = u
    PROVE  Word'
<1>1. UsersStay
  BY UsersSame
<1>2. \A s \in Tab \ {t} : /\ pc'[s] = pc[s] /\ tok'[s] = tok[s]
                           /\ sess'[s] = sess[s] /\ answer'[s] = answer[s]
  BY DEF Close, Goto, IInv, TypeOK
<1>3. pc'[t] = "idle"
  BY DEF Close, Goto, IInv, TypeOK
<1>4. wish' = u
  BY DEF LastWord
<1>5. ~crossed' => \A s \in Tab \ {t} : pc[s] \notin {"read", "rotate", "refreshed"}
  BY DEF LastWord
<1>6. QED BY <1>2, <1>3, <1>4, <1>5 DEF Word

LEMMA NextWord == IInv /\ Word /\ [Next]_vars => Word'
<1> SUFFICES ASSUME IInv, Word, [Next]_vars PROVE Word'
  OBVIOUS
<1>1. ASSUME NEW t \in Tab, NEW u \in User, Login(t, u) PROVE Word'
  <2>1. PICK kept \in SUBSET DOMAIN row : Insert(kept, u)
    BY <1>1 DEF Login, Fresh
  <2>2. /\ DOMAIN row' = kept \cup {minted + 1}
        /\ row'[minted + 1] = Opened(u) /\ \A j \in kept : row'[j] = row[j]
    BY <1>1, <2>1, InsertFacts DEF Login
  <2>3. minted \in Nat
    BY SessionAssumption DEF IInv, TypeOK
  <2>4. UsersStay
    BY <2>2, <2>3 DEF UsersStay
  <2>5. /\ \A s \in Tab \ {t} : /\ pc'[s] = pc[s] /\ tok'[s] = tok[s]
                                /\ sess'[s] = sess[s] /\ answer'[s] = answer[s]
        /\ pc'[t] = "loggedIn" /\ answer'[t] = minted + 1 /\ sess'[t] = Opened(u)
        /\ UNCHANGED <<refresh, wish, crossed>>
    BY <1>1 DEF Login, Goto, IInv, TypeOK, history
  <2>6. ~crossed /\ refresh' \in DOMAIN row' => row'[refresh'].user = wish
    BY <2>4, <2>5, JarKeepsUser
  <2>7. QED BY <2>2, <2>4, <2>5, <2>6, OneTabWord
<1>2. ASSUME NEW t \in Tab, LoginAnswered(t) PROVE Word'
  <2>1. answer[t] \in DOMAIN row => row[answer[t]].user = sess[t].user
    BY <1>2 DEF LoginAnswered, Word
  <2>2. QED BY <1>2, <2>1, LastWordWord DEF LoginAnswered, sessions
<1>3. ASSUME NEW t \in Tab, LogoutAnswered(t) PROVE Word'
  <2>1. 0 \notin DOMAIN row
    BY DEF IInv, TypeOK, Token
  <2>2. QED BY <1>3, <2>1, LastWordWord DEF LogoutAnswered, sessions
<1>4. ASSUME NEW t \in Tab, RefreshAnswered(t) \/ Lost(t) PROVE Word'
  BY <1>4, CloseWord DEF RefreshAnswered, Lost, sessions, history
<1>5. ASSUME NEW t \in Tab, RefreshSend(t) \/ LogoutSend(t) PROVE Word'
  BY <1>5, SendWord DEF RefreshSend, LogoutSend, sessions
<1>6. ASSUME NEW t \in Tab, RefreshRead(t) PROVE Word'
  <2>1. CASE Valid(tok[t])
    <3>1. /\ \A s \in Tab \ {t} : /\ pc'[s] = pc[s] /\ tok'[s] = tok[s]
                                  /\ sess'[s] = sess[s] /\ answer'[s] = answer[s]
          /\ pc'[t] = "rotate" /\ sess'[t] = row[tok[t]] /\ tok[t] \in DOMAIN row
          /\ row' = row /\ UNCHANGED <<refresh, wish, crossed>> /\ pc[t] = "read"
      BY <1>6, <2>1 DEF RefreshRead, Goto, IInv, TypeOK, Valid, Unexpired
    <3>2. UsersStay
      BY <3>1, UsersSame
    <3>3. ~crossed => sess'[t].user = wish
      BY <3>1 DEF Word
    <3>4. ~crossed /\ refresh' \in DOMAIN row' => row'[refresh'].user = wish
      BY <3>1, <3>2, JarKeepsUser
    <3>5. QED BY <3>1, <3>2, <3>3, <3>4, OneTabWord
  <2>2. CASE ~Valid(tok[t])
    <3>1. /\ row' = row \/ row' = Revoked(tok[t])
          /\ UNCHANGED <<refresh, wish, crossed>>
          /\ Send(t, "read") \/ Close(t)
      BY <1>6, <2>2 DEF RefreshRead, Refused
    <3>2. QED BY <3>1, SendWord, CloseWord
  <2>3. QED BY <2>1, <2>2
<1>7. ASSUME NEW t \in Tab, RefreshRotate(t) PROVE Word'
  <2>1. CASE Close(t) /\ UNCHANGED sessions
    BY <1>7, <2>1, CloseWord DEF RefreshRotate, sessions, history
  <2>2. CASE /\ minted < MaxTokens
             /\ row' = Rotated(tok[t], sess[t], minted + 1)
             /\ answer' = [answer EXCEPT ![t] = minted + 1]
             /\ Goto(t, "refreshed")
             /\ UNCHANGED <<tok, sess>>
    <3>1. pc[t] = "rotate" /\ UNCHANGED <<refresh, wish, crossed>>
      BY <1>7 DEF RefreshRotate, history
    <3>2. /\ DOMAIN row' = DOMAIN row \cup {minted + 1}
          /\ Kin(sess[t], row'[minted + 1])
          /\ \A j \in DOMAIN row : Kin(row[j], row'[j])
      BY <2>2, <3>1, RotatedFacts
    <3>3. minted \in Nat
      BY SessionAssumption DEF IInv, TypeOK
    <3>4. UsersStay
      BY <3>2, <3>3 DEF UsersStay, Kin
    <3>5. /\ \A s \in Tab \ {t} : /\ pc'[s] = pc[s] /\ tok'[s] = tok[s]
                                  /\ sess'[s] = sess[s] /\ answer'[s] = answer[s]
          /\ pc'[t] = "refreshed" /\ answer'[t] = minted + 1
      BY <2>2 DEF Goto, IInv, TypeOK
    <3>6. ~crossed => row'[minted + 1].user = wish
      BY <3>1, <3>2 DEF Word, Kin
    <3>7. ~crossed /\ refresh' \in DOMAIN row' => row'[refresh'].user = wish
      BY <3>1, <3>4, JarKeepsUser
    <3>8. QED BY <3>1, <3>4, <3>5, <3>6, <3>7, OneTabWord
  <2>3. QED BY <1>7, <2>1, <2>2 DEF RefreshRotate
<1>8. ASSUME NEW t \in Tab, LogoutRevoke(t) PROVE Word'
  <2>1. UsersStay
    BY <1>8, UsersRevoked DEF LogoutRevoke
  <2>2. /\ \A s \in Tab \ {t} : /\ pc'[s] = pc[s] /\ tok'[s] = tok[s]
                                /\ sess'[s] = sess[s] /\ answer'[s] = answer[s]
        /\ pc'[t] = "loggedOut" /\ UNCHANGED <<refresh, wish, crossed>>
    BY <1>8 DEF LogoutRevoke, Goto, IInv, TypeOK
  <2>3. ~crossed /\ refresh' \in DOMAIN row' => row'[refresh'].user = wish
    BY <2>1, <2>2, JarKeepsUser
  <2>4. QED BY <2>1, <2>2, <2>3, OneTabWord
<1>9. CASE Tick \/ CookieExpires \/ UNCHANGED vars
  <2>1. /\ UNCHANGED <<row, pc, tok, sess, answer, wish, crossed>>
        /\ refresh' = refresh \/ refresh' = 0
    BY <1>9 DEF Tick, CookieExpires, vars, sessions, requests, history
  <2>2. 0 \notin DOMAIN row
    BY DEF IInv, TypeOK, Token
  <2>3. QED BY <2>1, <2>2 DEF Word
<1>10. QED BY <1>1, <1>2, <1>3, <1>4, <1>5, <1>6, <1>7, <1>8, <1>9 DEF Next
-----------------------------------------------------------------------------
(* The variables have their types, for any users, tabs and bounds. *)
THEOREM TypeCorrect == Spec => []TypeOK
<1>1. IInv => TypeOK
  BY DEF IInv
<1>2. QED
  BY InitInv, NextInv, <1>1, PTL DEF Spec

(* The rows of a family belong to one user and end together, however many   *)
(* rotations run at once and whatever the purge has left of them.           *)
THEOREM Deadline == Spec => []OneDeadline
<1>1. IInv => OneDeadline
  BY DEF IInv, Ledger
<1>2. QED
  BY InitInv, NextInv, <1>1, PTL DEF Spec

(* A session that nobody has logged out of has a live token until its       *)
(* deadline.                                                                *)
THEOREM Survives == Spec => []SessionSurvives
BY InitInv, NextInv, InitSurvives, NextSurvives, PTL DEF Spec

(* The browser is logged in as whoever logged in last, and not at all after  *)
(* a logout, unless a refresh was under way when that was answered.          *)
THEOREM LastWordHolds == Spec => []LastWordCounts
<1>1. Word => LastWordCounts
  BY DEF Word, LastWordCounts, Unexpired
<1>2. QED
  BY InitInv, NextInv, InitWord, NextWord, <1>1, PTL DEF Spec
-----------------------------------------------------------------------------
(* Two requests of one family *)

(* The request of tab t carries, will set, or has read family f. *)
Uses(t, f) ==
    \/ f \in FamilyOf(tok[t]) \cup FamilyOf(answer[t])
    \/ pc[t] = "rotate" /\ sess[t].family = f

Carrying == {"read", "rotate", "revoke", "loggedOut"}

(* Of a family that was never raced: one request uses it; one of its tokens *)
(* is live at most, the one that a rotation carries or an answer will set;  *)
(* a request that carries a token of the jar's family carries the jar's.    *)
OneUser(f) == \A s, t \in Tab : Uses(s, f) /\ Uses(t, f) => s = t
OneLive(f) == \A j, k \in Live(f) : j = k
Turn(f) ==
    \A t \in Tab : pc[t] = "rotate" /\ sess[t].family = f =>
        /\ tok[t] \in DOMAIN row \/ f \notin Families
        /\ Live(f) \subseteq {tok[t]}
Due(f) == \A t \in Tab : f \in FamilyOf(answer[t]) => Live(f) \subseteq {answer[t]}
OfTheJar(f) ==
    \A t \in Tab : f \in FamilyOf(refresh) /\ pc[t] \in Carrying /\ Uses(t, f) =>
        tok[t] = refresh
AloneIn(f) == OneUser(f) /\ OneLive(f) /\ Turn(f) /\ Due(f) /\ OfTheJar(f)
Alone == \A f \in Token \ raced : AloneIn(f)

(* Until an answer or a command is lost, that token is the one a request    *)
(* carries, or the jar's when none does, and a logout revokes it.           *)
Borne(f) ==
    \A t \in Tab : pc[t] \in Carrying /\ f \in FamilyOf(tok[t]) => Live(f) \subseteq {tok[t]}
AtRest(f) ==
    f \in FamilyOf(refresh) /\ (\A t \in Tab : ~Uses(t, f)) => Live(f) \subseteq {refresh}
Over(f) ==
    f \in ended => /\ \A k \in Live(f) : ~Unexpired(k)
                   /\ \A t \in Tab : pc[t] = "rotate" => sess[t].family # f
ClosedIn(f) == Borne(f) /\ AtRest(f) /\ Over(f)
Closed == \A f \in Token \ (raced \cup cut) : ClosedIn(f)

(* A logout ends a family there is. *)
Logged == ended \subseteq 1..minted

(* A rotated token and its replacement are purged together. *)
Paired ==
    \A t \in Tab : pc[t] = "refreshed" /\ tok[t] \in DOMAIN row =>
        answer[t] \in DOMAIN row /\ row[answer[t]].family = row[tok[t]].family

(* Which requests carry a token, and which answers one. *)
Filled ==
    \A t \in Tab : /\ pc[t] \in {"idle", "loggedIn"} => tok[t] = 0
                   /\ pc[t] \notin {"loggedIn", "refreshed"} => answer[t] = 0

(* A token on its way to the browser is nobody else's yet, and not revoked. *)
Newborn ==
    \A t \in Tab : pc[t] \in {"loggedIn", "refreshed"} =>
        /\ answer[t] \in DOMAIN row => ~row[answer[t]].revoked
        /\ answer[t] # 0 /\ refresh # answer[t]
        /\ \A s \in Tab : tok[s] # answer[t] /\ (s # t => answer[s] # answer[t])

Jar ==
    \A f \in FamilyOf(refresh) :
       \/ row[refresh].revoked = FALSE
       \/ ~Unexpired(refresh)
       \/ f \in ended \cup cut
       \/ \E t \in Tab : pc[t] = "refreshed" /\ f \in FamilyOf(answer[t])

(* The other tabs do nothing in a step of tab t. *)
Rest(t) ==
    \A s \in Tab \ {t} : /\ pc'[s] = pc[s] /\ tok'[s] = tok[s]
                         /\ sess'[s] = sess[s] /\ answer'[s] = answer[s]

(* A step that at most revokes rows, or one that moves in other variables. *)
RowsKept ==
    /\ DOMAIN row' = DOMAIN row
    /\ \A j \in DOMAIN row : Kin(row[j], row'[j]) /\ (row[j].revoked => row'[j].revoked)

LEMMA InFamily ==
    ASSUME NEW k, NEW f
    PROVE  f \in FamilyOf(k) <=> k \in DOMAIN row /\ row[k].family = f
BY DEF FamilyOf

LEMMA KeptFacts ==
    ASSUME RowsKept
    PROVE  /\ \A k : FamilyOf(k)' = FamilyOf(k)
           /\ \A f : Live(f)' \subseteq Live(f)
           /\ \A f : f \in Families' <=> f \in Families
<1>1. ASSUME NEW k PROVE FamilyOf(k)' = FamilyOf(k)
  BY DEF RowsKept, FamilyOf, Kin
<1>2. ASSUME NEW f PROVE Live(f)' \subseteq Live(f)
  BY DEF RowsKept, Live, Kin
<1>3. ASSUME NEW f PROVE f \in Families' <=> f \in Families
  BY DEF RowsKept, Families, Kin
<1>4. QED BY <1>1, <1>2, <1>3

LEMMA RevokingKeeps ==
    ASSUME TypeOK, NEW k, row' = row \/ row' = Revoked(k)
    PROVE  /\ RowsKept
           /\ row' = Revoked(k) => \A f : k \notin Live(f)'
           /\ \A j \in DOMAIN row : j # k => row'[j] = row[j]
<1>1. CASE row' = row
  <2>1. RowsKept
    BY <1>1 DEF RowsKept, Kin
  <2>2. row = Revoked(k) => \A f : k \notin Live(f)
    <3> SUFFICES ASSUME row = Revoked(k), NEW f, k \in Live(f) PROVE FALSE
      OBVIOUS
    <3>1. k \in DOMAIN row /\ ~row[k].revoked
      BY DEF Live
    <3>2. row[k] = [row[k] EXCEPT !.revoked = TRUE] /\ row[k] \in Row
      BY <3>1 DEF Revoked, TypeOK
    <3>3. QED BY <3>1, <3>2 DEF Row
  <2>3. \A f : Live(f)' = Live(f)
    BY <1>1 DEF Live
  <2>4. QED BY <1>1, <2>1, <2>2, <2>3
<1>2. CASE row' = Revoked(k)
  <2>1. /\ DOMAIN row' = DOMAIN row
        /\ \A j \in DOMAIN row : Kin(row[j], row'[j]) /\ (j # k => row'[j] = row[j])
    BY <1>2, RevokedFacts
  <2>2. k \in DOMAIN row => row'[k].revoked
    <3> SUFFICES ASSUME k \in DOMAIN row PROVE row'[k].revoked
      OBVIOUS
    <3>1. row'[k] = [row[k] EXCEPT !.revoked = TRUE] /\ row[k] \in Row
      BY <1>2 DEF Revoked, TypeOK
    <3>2. QED BY <3>1 DEF Row
  <2>3. QED BY <2>1, <2>2 DEF RowsKept, Live
<1>3. QED BY <1>1, <1>2

LEMMA CloseFacts ==
    ASSUME IInv, NEW t \in Tab, Close(t)
    PROVE  /\ Rest(t) /\ pc'[t] = "idle" /\ tok'[t] = 0 /\ answer'[t] = 0
           /\ 0 \notin DOMAIN row
BY DEF Close, Goto, Rest, IInv, TypeOK, Token

LEMMA SendFacts ==
    ASSUME IInv, NEW t \in Tab, NEW place, Send(t, place)
    PROVE  /\ Rest(t) /\ pc'[t] = place /\ tok'[t] = refresh
           /\ answer'[t] = answer[t] /\ 0 \notin DOMAIN row
BY DEF Send, Goto, Rest, IInv, TypeOK, Token

(* A purge takes a family whole or leaves it whole. *)
LEMMA LoginFacts ==
    ASSUME IInv, NEW t \in Tab, NEW u \in User, Login(t, u)
    PROVE  /\ Rest(t) /\ pc[t] = "idle" /\ pc'[t] = "loggedIn" /\ tok'[t] = tok[t]
           /\ answer'[t] = minted + 1
           /\ UNCHANGED <<refresh, now, history>>
           /\ minted + 1 \notin DOMAIN row
           /\ DOMAIN row' \subseteq DOMAIN row \cup {minted + 1}
           /\ \A j \in DOMAIN row' : j # minted + 1 =>
                 row'[j] = row[j] /\ row[j].family # minted + 1
           /\ minted + 1 \in DOMAIN row'
           /\ row'[minted + 1].family = minted + 1 /\ ~row'[minted + 1].revoked
           /\ \A j, k \in DOMAIN row :
                 row[j].family = row[k].family => (j \in DOMAIN row' <=> k \in DOMAIN row')
<1>1. PICK kept \in {Fresh, DOMAIN row} : Insert(kept, u)
  BY DEF Login
<1>2. kept \in SUBSET DOMAIN row
  BY DEF Fresh
<1>3. /\ DOMAIN row' = kept \cup {minted + 1} /\ minted + 1 \notin kept
      /\ row'[minted + 1] = Opened(u)
      /\ Opened(u).family = minted + 1 /\ ~Opened(u).revoked
      /\ \A j \in kept : row'[j] = row[j] /\ row[j].family # minted + 1
  BY <1>1, <1>2, InsertFacts DEF Login
<1>4. minted + 1 \notin DOMAIN row
  BY SessionAssumption DEF IInv, TypeOK, Ledger
<1>5. ASSUME NEW j \in DOMAIN row, NEW k \in DOMAIN row, row[j].family = row[k].family
      PROVE  j \in kept <=> k \in kept
  <2>1. row[j].expires = row[k].expires
    BY <1>5 DEF IInv, Ledger, OneDeadline
  <2>2. QED BY <1>1, <2>1 DEF Fresh
<1>6. /\ Rest(t) /\ pc[t] = "idle" /\ pc'[t] = "loggedIn" /\ tok'[t] = tok[t]
      /\ answer'[t] = minted + 1
      /\ UNCHANGED <<refresh, now, history>>
  BY DEF Login, Goto, Rest, IInv, TypeOK
<1>7. QED BY <1>2, <1>3, <1>4, <1>5, <1>6

LEMMA RotateFacts ==
    ASSUME IInv, NEW t \in Tab, RefreshRotate(t), ~Close(t)
    PROVE  /\ Rest(t) /\ pc[t] = "rotate" /\ pc'[t] = "refreshed" /\ tok'[t] = tok[t]
           /\ answer'[t] = minted + 1
           /\ UNCHANGED <<refresh, now, history>>
           /\ minted + 1 \notin DOMAIN row
           /\ DOMAIN row' = DOMAIN row \cup {minted + 1}
           /\ row'[minted + 1].family = sess[t].family /\ ~row'[minted + 1].revoked
           /\ \A j \in DOMAIN row : /\ Kin(row[j], row'[j])
                                    /\ j # tok[t] => row'[j] = row[j]
           /\ tok[t] \in DOMAIN row => row'[tok[t]].revoked
           /\ tok[t] \in DOMAIN row => row[tok[t]].family = sess[t].family
           /\ sess[t].family \in Token
<1>1. /\ minted < MaxTokens /\ pc[t] = "rotate"
      /\ row' = Rotated(tok[t], sess[t], minted + 1)
      /\ answer' = [answer EXCEPT ![t] = minted + 1]
      /\ Goto(t, "refreshed")
      /\ UNCHANGED <<tok, sess, refresh, now, history>>
  BY DEF RefreshRotate
<1>2. /\ DOMAIN row' = DOMAIN row \cup {minted + 1} /\ minted + 1 \notin DOMAIN row
      /\ Kin(sess[t], row'[minted + 1]) /\ ~row'[minted + 1].revoked
      /\ \A j \in DOMAIN row : Kin(row[j], row'[j]) /\ (j # tok[t] => row'[j] = row[j])
  BY <1>1, RotatedFacts
<1>3. tok[t] \in DOMAIN row => row'[tok[t]].revoked
  <2> SUFFICES ASSUME tok[t] \in DOMAIN row PROVE row'[tok[t]].revoked
    OBVIOUS
  <2>1. row[tok[t]] \in Row
    BY DEF IInv, TypeOK
  <2>2. row'[tok[t]] = IF ~row[tok[t]].revoked
                       THEN [row[tok[t]] EXCEPT !.revoked = TRUE, !.replaced = minted + 1]
                       ELSE row[tok[t]]
    BY <1>1, <1>2 DEF Rotated
  <2>3. QED BY <2>1, <2>2 DEF Row
<1>4. /\ tok[t] \in DOMAIN row => row[tok[t]].family = sess[t].family
      /\ sess[t].family \in Token
  BY <1>1 DEF IInv, Held, Row
<1>5. /\ Rest(t) /\ pc'[t] = "refreshed" /\ tok'[t] = tok[t] /\ answer'[t] = minted + 1
  BY <1>1 DEF Goto, Rest, IInv, TypeOK
<1>6. QED BY <1>1, <1>2, <1>3, <1>4, <1>5 DEF Kin

LEMMA FilledInit == Init => Filled
BY DEF Init, Filled

LEMMA FilledStep ==
    ASSUME IInv, Filled, [Next]_vars
    PROVE  Filled'
<1> USE DEF Filled
<1>1. ASSUME NEW t \in Tab, Close(t) PROVE Filled'
  BY <1>1, CloseFacts DEF Rest
<1>2. ASSUME NEW t \in Tab, Send(t, "read") \/ Send(t, "revoke"), pc[t] \in {"idle", "read"}
      PROVE  Filled'
  BY <1>2, SendFacts DEF Rest
<1>3. ASSUME NEW t \in Tab, NEW u \in User, Login(t, u) PROVE Filled'
  BY <1>3, LoginFacts DEF Rest
<1>4. ASSUME NEW t \in Tab, RefreshRotate(t), ~Close(t) PROVE Filled'
  BY <1>4, RotateFacts DEF Rest
<1>5. ASSUME NEW t \in Tab, RefreshRead(t), Valid(tok[t]) PROVE Filled'
  BY <1>5 DEF RefreshRead, Goto, IInv, TypeOK
<1>6. ASSUME NEW t \in Tab, LogoutRevoke(t) PROVE Filled'
  BY <1>6 DEF LogoutRevoke, Goto, IInv, TypeOK
<1>7. CASE Tick \/ CookieExpires \/ UNCHANGED vars
  BY <1>7 DEF Tick, CookieExpires, vars, requests
<1>8. ASSUME NEW t \in Tab, RefreshRead(t), ~Valid(tok[t])
      PROVE  pc[t] = "read" /\ (Send(t, "read") \/ Close(t))
  BY <1>8 DEF RefreshRead, Refused
<1>9. QED
  BY <1>1, <1>2, <1>3, <1>4, <1>5, <1>6, <1>7, <1>8
  DEF Next, LoginAnswered, Lost, RefreshSend, RefreshAnswered, LogoutSend, LogoutAnswered

LEMMA NewbornInit == Init => Newborn
BY DEF Init, Newborn

LEMMA NewbornStep ==
    ASSUME IInv, Filled, Newborn, [Next]_vars
    PROVE  Newborn'
<1>a. \A t \in Tab : tok[t] \in 0..minted /\ answer[t] \in 0..minted
  BY DEF IInv, Carried
<1>b. refresh \in 0..minted /\ minted \in Nat /\ 0 \notin DOMAIN row
  BY SessionAssumption DEF IInv, Carried, TypeOK, Token
<1>1. ASSUME NEW t \in Tab, Close(t), row' = row \/ row' = Revoked(tok[t]),
             \/ refresh' \in {refresh, 0}
             \/ refresh' = answer[t] /\ pc[t] \in {"loggedIn", "refreshed"}
      PROVE  Newborn'
  <2>1. /\ Rest(t) /\ pc'[t] = "idle" /\ tok'[t] = 0 /\ answer'[t] = 0
        /\ DOMAIN row' = DOMAIN row
        /\ \A j \in DOMAIN row : j # tok[t] => row'[j] = row[j]
    BY <1>1, CloseFacts, RevokedFacts DEF IInv
  <2> SUFFICES ASSUME NEW s \in Tab, pc'[s] \in {"loggedIn", "refreshed"}
               PROVE  /\ answer'[s] \in DOMAIN row' => ~row'[answer'[s]].revoked
                      /\ answer'[s] # 0 /\ refresh' # answer'[s]
                      /\ \A r \in Tab : /\ tok'[r] # answer'[s]
                                        /\ r # s => answer'[r] # answer'[s]
    BY DEF Newborn
  <2>2. s # t /\ pc[s] = pc'[s] /\ answer'[s] = answer[s]
    BY <2>1 DEF Rest
  <2>3. /\ answer[s] \in DOMAIN row => ~row[answer[s]].revoked
        /\ answer[s] # 0 /\ refresh # answer[s]
        /\ \A r \in Tab : tok[r] # answer[s] /\ (r # s => answer[r] # answer[s])
    BY <2>2 DEF Newborn
  <2>4. \A r \in Tab : /\ tok'[r] # answer[s]
                       /\ r # s => answer'[r] # answer[s]
    BY <2>1, <2>3 DEF Rest
  <2>5. QED BY <1>1, <2>1, <2>2, <2>3, <2>4
<1>2. ASSUME NEW t \in Tab, NEW place \in {"read", "revoke"}, Send(t, place),
             refresh' = refresh, row' = row \/ row' = Revoked(tok[t])
      PROVE  Newborn'
  <2>1. /\ Rest(t) /\ pc'[t] = place /\ tok'[t] = refresh /\ answer'[t] = answer[t]
        /\ DOMAIN row' = DOMAIN row
        /\ \A j \in DOMAIN row : j # tok[t] => row'[j] = row[j]
    BY <1>2, SendFacts, RevokedFacts DEF IInv
  <2> SUFFICES ASSUME NEW s \in Tab, pc'[s] \in {"loggedIn", "refreshed"}
               PROVE  /\ answer'[s] \in DOMAIN row' => ~row'[answer'[s]].revoked
                      /\ answer'[s] # 0 /\ refresh' # answer'[s]
                      /\ \A r \in Tab : /\ tok'[r] # answer'[s]
                                        /\ r # s => answer'[r] # answer'[s]
    BY DEF Newborn
  <2>2. s # t /\ pc[s] = pc'[s] /\ answer'[s] = answer[s]
    BY <2>1 DEF Rest
  <2>3. QED BY <1>2, <2>1, <2>2 DEF Newborn, Rest
<1>3. ASSUME NEW t \in Tab, NEW u \in User, Login(t, u) PROVE Newborn'
  <2>1. /\ Rest(t) /\ pc'[t] = "loggedIn" /\ tok'[t] = tok[t] /\ answer'[t] = minted + 1
        /\ refresh' = refresh /\ ~row'[minted + 1].revoked
        /\ DOMAIN row' \subseteq DOMAIN row \cup {minted + 1}
        /\ \A j \in DOMAIN row' : j # minted + 1 => row'[j] = row[j]
    BY <1>3, LoginFacts
  <2>2. \A r \in Tab : tok'[r] # minted + 1 /\ (r # t => answer'[r] # minted + 1)
    BY <1>a, <1>b, <2>1 DEF Rest
  <2>3. QED BY <1>b, <2>1, <2>2 DEF Newborn, Rest
<1>4. ASSUME NEW t \in Tab, RefreshRotate(t), ~Close(t) PROVE Newborn'
  <2>1. /\ Rest(t) /\ pc'[t] = "refreshed" /\ tok'[t] = tok[t] /\ answer'[t] = minted + 1
        /\ refresh' = refresh /\ ~row'[minted + 1].revoked
        /\ DOMAIN row' = DOMAIN row \cup {minted + 1}
        /\ \A j \in DOMAIN row : j # tok[t] => row'[j] = row[j]
    BY <1>4, RotateFacts
  <2>2. \A r \in Tab : tok'[r] # minted + 1 /\ (r # t => answer'[r] # minted + 1)
    BY <1>a, <1>b, <2>1 DEF Rest
  <2>3. QED BY <1>b, <2>1, <2>2 DEF Newborn, Rest
<1>5. ASSUME NEW t \in Tab, RefreshRead(t), Valid(tok[t]) PROVE Newborn'
  BY <1>5 DEF Newborn, RefreshRead, Goto, IInv, TypeOK
<1>6. ASSUME NEW t \in Tab, LogoutRevoke(t) PROVE Newborn'
  <2>1. /\ DOMAIN row' = DOMAIN row /\ UNCHANGED <<tok, answer, refresh>>
        /\ \A j \in DOMAIN row : j # tok[t] => row'[j] = row[j]
        /\ \A s \in Tab : s # t => pc'[s] = pc[s]
        /\ pc'[t] = "loggedOut"
    BY <1>6, RevokedFacts DEF LogoutRevoke, Goto, IInv, TypeOK
  <2>2. QED BY <2>1 DEF Newborn
<1>7. CASE Tick \/ CookieExpires \/ UNCHANGED vars
  BY <1>7 DEF Newborn, Tick, CookieExpires, vars, requests, sessions
<1>8. ASSUME NEW t \in Tab, RefreshRead(t), ~Valid(tok[t])
      PROVE  /\ Send(t, "read") \/ Close(t)
             /\ row' = row \/ row' = Revoked(tok[t])
             /\ refresh' = refresh
  BY <1>8 DEF RefreshRead, Refused
<1>9. ASSUME NEW t \in Tab, RefreshRotate(t), Close(t) PROVE row' = row /\ refresh' = refresh
  BY <1>9, CloseFacts, RotateFacts DEF RefreshRotate, sessions, Close, Goto, IInv, TypeOK
<1>10. QED
  BY <1>1, <1>2, <1>3, <1>4, <1>5, <1>6, <1>7, <1>8, <1>9
  DEF Next, LoginAnswered, Lost, RefreshSend, RefreshAnswered, LogoutSend, LogoutAnswered,
      sessions

LEMMA PairedInit == Init => Paired
BY DEF Init, Paired

LEMMA PairedStep ==
    ASSUME IInv, Paired, [Next]_vars
    PROVE  Paired'
<1>a. \A t \in Tab : tok[t] \in 0..minted /\ answer[t] \in 0..minted
  BY DEF IInv, Carried
<1>b. minted \in Nat
  BY SessionAssumption DEF IInv, TypeOK
<1>1. ASSUME RowsKept, NEW t \in Tab, Rest(t), pc'[t] # "refreshed" PROVE Paired'
  BY <1>1 DEF Paired, RowsKept, Rest, Kin
<1>2. ASSUME NEW t \in Tab, Close(t) \/ Send(t, "read") \/ Send(t, "revoke")
      PROVE  Rest(t) /\ pc'[t] # "refreshed"
  BY <1>2, CloseFacts, SendFacts
<1>3. ASSUME NEW t \in Tab, NEW u \in User, Login(t, u) PROVE Paired'
  <2>1. /\ Rest(t) /\ pc'[t] = "loggedIn"
        /\ minted + 1 \notin DOMAIN row
        /\ DOMAIN row' \subseteq DOMAIN row \cup {minted + 1}
        /\ \A j \in DOMAIN row' : j # minted + 1 => row'[j] = row[j]
        /\ \A j, k \in DOMAIN row :
                 row[j].family = row[k].family => (j \in DOMAIN row' <=> k \in DOMAIN row')
    BY <1>3, LoginFacts
  <2>2. ASSUME NEW s \in Tab \ {t}, pc[s] = "refreshed", tok[s] \in DOMAIN row'
        PROVE  answer[s] \in DOMAIN row' /\ row'[answer[s]].family = row'[tok[s]].family
    <3>1. tok[s] \in DOMAIN row
      BY <1>a, <1>b, <2>1, <2>2
    <3>2. answer[s] \in DOMAIN row /\ row[answer[s]].family = row[tok[s]].family
      BY <2>2, <3>1 DEF Paired
    <3>3. answer[s] \in DOMAIN row'
      BY <2>1, <2>2, <3>1, <3>2
    <3>4. QED BY <2>1, <2>2, <3>1, <3>2, <3>3
  <2>3. QED BY <2>1, <2>2 DEF Paired, Rest
<1>4. ASSUME NEW t \in Tab, RefreshRotate(t), ~Close(t) PROVE Paired'
  <2>1. /\ Rest(t) /\ pc'[t] = "refreshed" /\ tok'[t] = tok[t] /\ answer'[t] = minted + 1
        /\ minted + 1 \notin DOMAIN row
        /\ DOMAIN row' = DOMAIN row \cup {minted + 1}
        /\ row'[minted + 1].family = sess[t].family
        /\ \A j \in DOMAIN row : Kin(row[j], row'[j])
        /\ tok[t] \in DOMAIN row => row[tok[t]].family = sess[t].family
    BY <1>4, RotateFacts
  <2>2. ASSUME NEW s \in Tab \ {t}, pc[s] = "refreshed", tok[s] \in DOMAIN row'
        PROVE  answer[s] \in DOMAIN row' /\ row'[answer[s]].family = row'[tok[s]].family
    <3>1. tok[s] \in DOMAIN row
      BY <1>a, <1>b, <2>1, <2>2
    <3>2. QED BY <2>1, <2>2, <3>1 DEF Paired, Kin
  <2>3. tok[t] \in DOMAIN row' => row'[tok[t]].family = sess[t].family
    BY <1>a, <1>b, <2>1 DEF Kin
  <2>4. QED BY <2>1, <2>2, <2>3 DEF Paired, Rest
<1>5. ASSUME NEW t \in Tab, RefreshRead(t) PROVE Paired'
  <2>1. RowsKept
    BY <1>5, RevokingKeeps DEF RefreshRead, IInv
  <2>2. CASE Valid(tok[t])
    BY <1>5, <2>1, <2>2, <1>1 DEF RefreshRead, Goto, Rest, IInv, TypeOK
  <2>3. CASE ~Valid(tok[t])
    BY <1>5, <2>1, <2>3, <1>1, <1>2 DEF RefreshRead, Refused
  <2>4. QED BY <2>2, <2>3
<1>6. ASSUME NEW t \in Tab, LogoutRevoke(t) PROVE Paired'
  <2>1. RowsKept
    BY <1>6, RevokingKeeps DEF LogoutRevoke, IInv
  <2>2. QED BY <1>6, <2>1, <1>1 DEF LogoutRevoke, Goto, Rest, IInv, TypeOK
<1>7. CASE Tick \/ CookieExpires \/ UNCHANGED vars
  BY <1>7 DEF Paired, Tick, CookieExpires, vars, requests, sessions
<1>8. ASSUME row' = row PROVE RowsKept
  BY <1>8, RevokingKeeps DEF IInv
<1>9. ASSUME NEW t \in Tab, RefreshRotate(t), Close(t) PROVE row' = row
  BY <1>9, CloseFacts DEF RefreshRotate, sessions, Goto, IInv, TypeOK
<1>10. QED
  BY <1>1, <1>2, <1>3, <1>4, <1>5, <1>6, <1>7, <1>8, <1>9
  DEF Next, LoginAnswered, Lost, RefreshSend, RefreshAnswered, LogoutSend, LogoutAnswered,
      sessions

LEMMA JarInit == Init => Jar
BY DEF Init, Jar, FamilyOf

(* The jar keeps its token, whose row is kept or was in use. *)
LEMMA JarKept ==
    ASSUME IInv, Jar, RowsKept, refresh' = refresh, now' \in Nat, now' >= now,
           refresh \in DOMAIN row => row'[refresh].revoked = row[refresh].revoked,
           ended \subseteq ended', cut \subseteq cut',
           \A f \in FamilyOf(refresh), t \in Tab :
              pc[t] = "refreshed" /\ f \in FamilyOf(answer[t]) =>
                 f \in cut' \/ (pc'[t] = "refreshed" /\ answer'[t] = answer[t])
    PROVE  Jar'
<1> SUFFICES ASSUME NEW f \in FamilyOf(refresh)'
             PROVE  \/ row'[refresh].revoked = FALSE
                    \/ ~Unexpired(refresh)'
                    \/ f \in ended' \cup cut'
                    \/ \E t \in Tab : pc'[t] = "refreshed" /\ f \in FamilyOf(answer[t])'
                                      /\ answer'[t] = answer[t]
  BY DEF Jar, FamilyOf
<1>1. f \in FamilyOf(refresh) /\ refresh \in DOMAIN row
  BY KeptFacts, InFamily
<1>2. CASE row[refresh].revoked = FALSE
  BY <1>1, <1>2
<1>3. CASE ~Unexpired(refresh)
  <2>1. row[refresh].expires \in Nat /\ now \in Nat
    BY <1>1, SessionAssumption DEF IInv, TypeOK, Row
  <2>2. row'[refresh].expires = row[refresh].expires
    BY <1>1 DEF RowsKept, Kin
  <2>3. QED BY <1>1, <1>3, <2>1, <2>2 DEF Unexpired
<1>4. CASE f \in ended \cup cut
  BY <1>4
<1>5. ASSUME NEW t \in Tab, pc[t] = "refreshed", f \in FamilyOf(answer[t])
      PROVE  \/ f \in cut'
             \/ pc'[t] = "refreshed" /\ f \in FamilyOf(answer[t])' /\ answer'[t] = answer[t]
  <2>1. f \in cut' \/ (pc'[t] = "refreshed" /\ answer'[t] = answer[t])
    BY <1>1, <1>5
  <2>2. CASE answer'[t] = answer[t]
    BY <1>5, <2>1, <2>2 DEF FamilyOf, RowsKept, Kin
  <2>3. QED BY <2>1, <2>2
<1>6. QED BY <1>1, <1>2, <1>3, <1>4, <1>5 DEF Jar

LEMMA JarStep ==
    ASSUME IInv, Filled, Newborn, Jar, [Next]_vars
    PROVE  Jar'
<1>a. /\ \A t \in Tab : tok[t] \in 0..minted /\ answer[t] \in 0..minted
      /\ refresh \in 0..minted
  BY DEF IInv, Carried
<1>b. minted \in Nat /\ 0 \notin DOMAIN row /\ now \in Nat
  BY SessionAssumption DEF IInv, TypeOK, Token
<1>c. row' = row => RowsKept
  BY RevokingKeeps DEF IInv
<1>1. ASSUME NEW t \in Tab, LoginAnswered(t) \/ RefreshAnswered(t) PROVE Jar'
  <2>1. refresh' = answer[t] /\ row' = row /\ pc[t] \in {"loggedIn", "refreshed"}
    BY <1>1 DEF LoginAnswered, RefreshAnswered, sessions
  <2>2. answer[t] \in DOMAIN row => row[answer[t]].revoked = FALSE
    <3>1. answer[t] \in DOMAIN row => ~row[answer[t]].revoked /\ row[answer[t]] \in Row
      BY <2>1 DEF Newborn, IInv, TypeOK
    <3>2. QED BY <3>1 DEF Row
  <2>3. QED BY <2>1, <2>2 DEF Jar, FamilyOf
<1>2. CASE refresh' = 0 /\ row' = row
  BY <1>b, <1>2 DEF Jar, FamilyOf
<1>3. ASSUME NEW t \in Tab, Lost(t) PROVE Jar'
  <2>1. /\ Rest(t) /\ row' = row /\ UNCHANGED <<refresh, now, ended>>
        /\ cut' = cut \cup FamilyOf(answer[t])
    BY <1>3, CloseFacts DEF Lost, sessions
  <2>2. ASSUME NEW f \in FamilyOf(refresh), NEW s \in Tab, pc[s] = "refreshed",
               f \in FamilyOf(answer[s])
        PROVE  f \in cut' \/ (pc'[s] = "refreshed" /\ answer'[s] = answer[s])
    BY <2>1, <2>2 DEF Rest
  <2>3. QED BY <1>b, <1>c, <2>1, <2>2, JarKept
<1>4. ASSUME RowsKept, NEW t \in Tab, Rest(t), UNCHANGED <<refresh, now, ended, cut>>,
             pc[t] # "refreshed",
             refresh \in DOMAIN row => row'[refresh].revoked = row[refresh].revoked
      PROVE  Jar'
  <2>1. ASSUME NEW f \in FamilyOf(refresh), NEW s \in Tab, pc[s] = "refreshed",
               f \in FamilyOf(answer[s])
        PROVE  f \in cut' \/ (pc'[s] = "refreshed" /\ answer'[s] = answer[s])
    BY <1>4, <2>1 DEF Rest
  <2>2. QED BY <1>b, <1>4, <2>1, JarKept
<1>5. ASSUME NEW t \in Tab, RefreshSend(t) \/ LogoutSend(t) PROVE Jar'
  <2>1. /\ Rest(t) /\ row' = row /\ UNCHANGED <<refresh, now, ended, cut>> /\ pc[t] # "refreshed"
    BY <1>5, SendFacts DEF RefreshSend, LogoutSend, sessions
  <2>2. QED BY <1>c, <1>4, <2>1
<1>6. ASSUME NEW t \in Tab, RefreshRead(t) PROVE Jar'
  <2>1. UNCHANGED <<refresh, now, ended, cut>> /\ pc[t] = "read"
    BY <1>6 DEF RefreshRead
  <2>2. Rest(t)
    <3>1. CASE Valid(tok[t])
      BY <1>6, <3>1 DEF RefreshRead, Goto, Rest, IInv, TypeOK
    <3>2. CASE ~Valid(tok[t])
      BY <1>6, <3>2, SendFacts, CloseFacts DEF RefreshRead, Refused
    <3>3. QED BY <3>1, <3>2
  <2>3. CASE row' = row
    BY <1>c, <1>4, <2>1, <2>2, <2>3
  <2>4. CASE ~Unexpired(tok[t]) /\ row' = Revoked(tok[t])
    <3>1. RowsKept /\ \A j \in DOMAIN row : j # tok[t] => row'[j] = row[j]
      BY <2>4, RevokingKeeps DEF IInv
    <3>2. CASE refresh # tok[t]
      BY <1>4, <2>1, <2>2, <3>1, <3>2
    <3>3. CASE refresh = tok[t]
      <4>1. ~Unexpired(refresh)'
        BY <2>1, <2>4, <3>1, <3>3 DEF Unexpired, RowsKept, Kin
      <4>2. QED BY <4>1 DEF Jar
    <3>4. QED BY <3>2, <3>3
  <2>5. QED BY <1>6, <2>3, <2>4 DEF RefreshRead
<1>7. ASSUME NEW t \in Tab, LogoutRevoke(t) PROVE Jar'
  <2>1. /\ UNCHANGED <<refresh, now, answer>> /\ ended' = ended \cup FamilyOf(tok[t])
        /\ cut \subseteq cut' /\ pc[t] = "revoke" /\ \A s \in Tab \ {t} : pc'[s] = pc[s]
    BY <1>7 DEF LogoutRevoke, Goto, IInv, TypeOK
  <2>2. RowsKept /\ \A j \in DOMAIN row : j # tok[t] => row'[j] = row[j]
    BY <1>7, RevokingKeeps DEF LogoutRevoke, IInv
  <2>3. CASE refresh = tok[t]
    <3>1. \A f \in FamilyOf(refresh)' : f \in ended'
      BY <2>1, <2>2, <2>3 DEF FamilyOf, RowsKept, Kin
    <3>2. QED BY <3>1 DEF Jar
  <2>4. CASE refresh # tok[t]
    <3>1. \A f \in FamilyOf(refresh), s \in Tab :
              pc[s] = "refreshed" /\ f \in FamilyOf(answer[s]) =>
                 f \in cut' \/ (pc'[s] = "refreshed" /\ answer'[s] = answer[s])
      BY <2>1
    <3>2. QED BY <1>b, <2>1, <2>2, <2>4, <3>1, JarKept
  <2>5. QED BY <2>3, <2>4
<1>8. ASSUME NEW t \in Tab, RefreshRotate(t) PROVE Jar'
  <2>1. CASE Close(t)
    <3>1. Rest(t) /\ row' = row /\ UNCHANGED <<refresh, now, ended, cut>> /\ pc[t] # "refreshed"
      BY <1>8, <2>1, CloseFacts DEF RefreshRotate, sessions, history, Goto, IInv, TypeOK
    <3>2. QED BY <1>c, <1>4, <3>1
  <2>2. CASE ~Close(t)
    <3>1. /\ Rest(t) /\ pc[t] = "rotate" /\ pc'[t] = "refreshed" /\ answer'[t] = minted + 1
          /\ UNCHANGED <<refresh, now, ended, cut>>
          /\ DOMAIN row' = DOMAIN row \cup {minted + 1}
          /\ row'[minted + 1].family = sess[t].family
          /\ \A j \in DOMAIN row : Kin(row[j], row'[j]) /\ (j # tok[t] => row'[j] = row[j])
          /\ tok[t] \in DOMAIN row => row[tok[t]].family = sess[t].family
      BY <1>8, <2>2, RotateFacts DEF history
    <3> SUFFICES ASSUME NEW f \in FamilyOf(refresh)'
                 PROVE  \/ row'[refresh].revoked = FALSE
                        \/ ~Unexpired(refresh)'
                        \/ f \in ended' \cup cut'
                        \/ \E s \in Tab : pc'[s] = "refreshed" /\ f \in FamilyOf(answer[s])'
      BY <3>1 DEF Jar
    <3>2. refresh \in DOMAIN row /\ row[refresh].family = f
      BY <1>a, <1>b, <3>1 DEF FamilyOf, Kin
    <3>3. CASE refresh = tok[t]
      <4>1. f \in FamilyOf(answer[t])'
        BY <3>1, <3>2, <3>3 DEF FamilyOf
      <4>2. QED BY <3>1, <4>1
    <3>4. CASE refresh # tok[t]
      <4>1. row'[refresh] = row[refresh] /\ Unexpired(refresh)' = Unexpired(refresh)
        BY <3>1, <3>2, <3>4 DEF Unexpired
      <4>2. ASSUME NEW s \in Tab, pc[s] = "refreshed", f \in FamilyOf(answer[s])
            PROVE  pc'[s] = "refreshed" /\ f \in FamilyOf(answer[s])'
        BY <3>1, <4>2 DEF Rest, FamilyOf, Kin
      <4>3. QED BY <3>1, <3>2, <4>1, <4>2 DEF Jar, FamilyOf
    <3>5. QED BY <3>3, <3>4
  <2>3. QED BY <2>1, <2>2
<1>9. ASSUME NEW t \in Tab, NEW u \in User, Login(t, u) PROVE Jar'
  <2>1. /\ Rest(t) /\ pc[t] = "idle"
        /\ UNCHANGED <<refresh, now, ended, cut>>
        /\ DOMAIN row' \subseteq DOMAIN row \cup {minted + 1}
        /\ \A j \in DOMAIN row' : j # minted + 1 => row'[j] = row[j]
        /\ \A j, k \in DOMAIN row :
              row[j].family = row[k].family => (j \in DOMAIN row' <=> k \in DOMAIN row')
    BY <1>9, LoginFacts DEF history
  <2> SUFFICES ASSUME NEW f \in FamilyOf(refresh)'
               PROVE  \/ row'[refresh].revoked = FALSE
                      \/ ~Unexpired(refresh)'
                      \/ f \in ended' \cup cut'
                      \/ \E s \in Tab : pc'[s] = "refreshed" /\ f \in FamilyOf(answer[s])'
    BY <2>1 DEF Jar
  <2>2. /\ refresh \in DOMAIN row /\ refresh \in DOMAIN row' /\ row[refresh].family = f
        /\ row'[refresh] = row[refresh]
    BY <1>a, <1>b, <2>1 DEF FamilyOf
  <2>3. Unexpired(refresh)' = Unexpired(refresh)
    BY <2>1, <2>2 DEF Unexpired
  <2>4. ASSUME NEW s \in Tab, pc[s] = "refreshed", f \in FamilyOf(answer[s])
        PROVE  pc'[s] = "refreshed" /\ f \in FamilyOf(answer[s])'
    <3>1. s # t /\ pc'[s] = pc[s] /\ answer'[s] = answer[s]
      BY <2>1, <2>4 DEF Rest
    <3>2. answer[s] \in DOMAIN row /\ row[answer[s]].family = f /\ answer[s] # minted + 1
      BY <1>a, <1>b, <2>4, InFamily
    <3>3. answer[s] \in DOMAIN row' /\ row'[answer[s]] = row[answer[s]]
      BY <2>1, <2>2, <3>2
    <3>4. QED BY <2>4, <3>1, <3>2, <3>3 DEF FamilyOf
  <2>5. QED BY <2>1, <2>2, <2>3, <2>4 DEF Jar, FamilyOf
<1>10. CASE Tick \/ UNCHANGED vars
  <2>1. /\ row' = row /\ UNCHANGED <<refresh, pc, answer, ended, cut>>
        /\ now' \in Nat /\ now' >= now
    BY <1>b, <1>10 DEF Tick, vars, sessions, requests, history
  <2>2. QED BY <1>c, <2>1, JarKept
<1>11. QED
  BY <1>1, <1>2, <1>3, <1>5, <1>6, <1>7, <1>8, <1>9, <1>10
  DEF Next, LogoutAnswered, CookieExpires, sessions

-----------------------------------------------------------------------------
(* One family in a step *)

LEMMA OthersKept ==
    ASSUME RowsKept, NEW t \in Tab, Rest(t), NEW s \in Tab, s # t
    PROVE  /\ pc'[s] = pc[s] /\ tok'[s] = tok[s] /\ sess'[s] = sess[s] /\ answer'[s] = answer[s]
           /\ FamilyOf(tok[s])' = FamilyOf(tok[s]) /\ FamilyOf(answer[s])' = FamilyOf(answer[s])
           /\ \A f : Uses(s, f)' <=> Uses(s, f)
<1>1. pc'[s] = pc[s] /\ tok'[s] = tok[s] /\ sess'[s] = sess[s] /\ answer'[s] = answer[s]
  BY DEF Rest
<1>2. FamilyOf(tok[s])' = FamilyOf(tok[s]) /\ FamilyOf(answer[s])' = FamilyOf(answer[s])
  BY <1>1, KeptFacts DEF FamilyOf
<1>3. QED BY <1>1, <1>2 DEF Uses

LEMMA CloseAlone ==
    ASSUME IInv, RowsKept, NEW t \in Tab, Close(t), NEW f, AloneIn(f),
           refresh' \in {refresh, 0, answer[t]}
    PROVE  AloneIn(f)' /\ \A s \in Tab : Uses(s, f)' => s # t /\ Uses(s, f)
<1>1. /\ Rest(t) /\ pc'[t] = "idle" /\ tok'[t] = 0 /\ answer'[t] = 0 /\ 0 \notin DOMAIN row
  BY CloseFacts
<1>2. /\ \A k : FamilyOf(k)' = FamilyOf(k)
      /\ Live(f)' \subseteq Live(f)
      /\ f \in Families' <=> f \in Families
      /\ DOMAIN row' = DOMAIN row
  BY KeptFacts DEF RowsKept
<1>3. FamilyOf(0) = {}
  BY <1>1 DEF FamilyOf
<1>4. ASSUME NEW s \in Tab, s # t
      PROVE  /\ pc'[s] = pc[s] /\ tok'[s] = tok[s] /\ sess'[s] = sess[s] /\ answer'[s] = answer[s]
             /\ FamilyOf(tok[s])' = FamilyOf(tok[s]) /\ FamilyOf(answer[s])' = FamilyOf(answer[s])
  BY <1>1, <1>4, OthersKept
<1>5. FamilyOf(tok[t])' = {} /\ FamilyOf(answer[t])' = {}
  BY <1>1, <1>2 DEF FamilyOf
<1>6. ASSUME NEW s \in Tab, Uses(s, f)' PROVE s # t /\ Uses(s, f)
  BY <1>1, <1>4, <1>5, <1>6 DEF Uses
<1>7. OneUser(f)' /\ OneLive(f)'
  BY <1>2, <1>6 DEF OneUser, OneLive, AloneIn
<1>8. Turn(f)' /\ Due(f)'
  BY <1>1, <1>2, <1>4, <1>5 DEF Turn, Due, AloneIn
<1>9. ASSUME NEW s \in Tab, f \in FamilyOf(refresh)', pc'[s] \in Carrying, Uses(s, f)'
      PROVE  tok'[s] = refresh'
  <2>1. s # t /\ Uses(s, f)
    BY <1>6, <1>9
  <2>2. f \in FamilyOf(refresh')
    BY <1>9, <1>2 DEF FamilyOf
  <2>3. CASE refresh' = refresh
    BY <1>4, <1>9, <2>1, <2>2, <2>3 DEF OfTheJar, AloneIn
  <2>4. CASE refresh' = answer[t]
    BY <2>1, <2>2, <2>4 DEF AloneIn, OneUser, Uses
  <2>5. QED BY <1>3, <2>2, <2>3, <2>4
<1>10. QED BY <1>6, <1>7, <1>8, <1>9 DEF OfTheJar, AloneIn

LEMMA CloseClosed ==
    ASSUME IInv, RowsKept, Filled, Paired, NEW t \in Tab, Close(t), pc[t] # "idle",
           refresh' \in {refresh, 0, answer[t]}, UNCHANGED <<now, ended>>,
           NEW f, AloneIn(f), ClosedIn(f),
           refresh' # answer[t] /\ pc[t] \notin Carrying => f \notin FamilyOf(answer[t])
    PROVE  ClosedIn(f)'
<1>1. /\ Rest(t) /\ pc'[t] = "idle" /\ tok'[t] = 0 /\ answer'[t] = 0 /\ 0 \notin DOMAIN row
  BY CloseFacts
<1>2. /\ \A k : FamilyOf(k)' = FamilyOf(k)
      /\ Live(f)' \subseteq Live(f)
  BY KeptFacts
<1>3. FamilyOf(0) = {} /\ FamilyOf(tok[t])' = {}
  BY <1>1, <1>2 DEF FamilyOf
<1>4. Borne(f)'
  BY <1>1, <1>2, <1>3, OthersKept DEF Borne, ClosedIn
<1>5. AtRest(f)'
  <2> SUFFICES ASSUME f \in FamilyOf(refresh'), \A s \in Tab : s # t => ~Uses(s, f)
               PROVE  Live(f) \subseteq {refresh'}
    BY <1>1, <1>2, OthersKept DEF AtRest, FamilyOf
  <2>1. CASE refresh' = answer[t]
    BY <2>1 DEF AloneIn, Due
  <2>2. CASE refresh' = refresh /\ ~Uses(t, f)
    BY <2>2 DEF ClosedIn, AtRest
  <2>3. CASE refresh' = refresh /\ Uses(t, f) /\ pc[t] \in Carrying
    <3>1. tok[t] = refresh
      BY <2>3 DEF AloneIn, OfTheJar
    <3>2. QED BY <2>3, <3>1 DEF ClosedIn, Borne
  <2>4. CASE refresh' # answer[t] /\ Uses(t, f) /\ pc[t] \notin Carrying
    <3>1. pc[t] \in {"loggedIn", "refreshed"}
      BY <2>4 DEF Carrying, IInv, TypeOK
    <3>2. f \in FamilyOf(tok[t])
      BY <2>4, <3>1 DEF Uses
    <3>3. pc[t] = "refreshed"
      BY <1>3, <3>1, <3>2 DEF Filled
    <3>4. f \in FamilyOf(answer[t])
      BY <3>2, <3>3 DEF Paired, FamilyOf
    <3>5. QED BY <2>4, <3>4
  <2>5. QED BY <1>3, <2>1, <2>2, <2>3, <2>4
<1>6. Over(f)'
  <2> SUFFICES ASSUME f \in ended
               PROVE  /\ \A k \in Live(f)' : ~Unexpired(k)'
                      /\ \A s \in Tab : pc'[s] = "rotate" => sess'[s].family # f
    BY DEF Over
  <2>1. \A k : Unexpired(k)' <=> Unexpired(k)
    BY DEF RowsKept, Unexpired, Kin
  <2>2. QED BY <1>1, <1>2, <2>1, OthersKept DEF Over, ClosedIn
<1>7. QED BY <1>4, <1>5, <1>6 DEF ClosedIn

LEMMA SendAlone ==
    ASSUME IInv, RowsKept, Filled, NEW t \in Tab, NEW place \in {"read", "revoke"},
           Send(t, place), pc[t] \in {"idle", "read"}, refresh' = refresh,
           NEW f, f \notin raced', AloneIn(f)
    PROVE  /\ AloneIn(f)'
           /\ Uses(t, f)' <=> f \in FamilyOf(refresh)
           /\ f \in FamilyOf(refresh) => \A s \in Tab : s # t => ~Uses(s, f)
<1>1. /\ Rest(t) /\ pc'[t] = place /\ tok'[t] = refresh /\ answer'[t] = 0 /\ 0 \notin DOMAIN row
  BY SendFacts DEF Filled
<1>2. /\ \A k : FamilyOf(k)' = FamilyOf(k)
      /\ Live(f)' \subseteq Live(f)
      /\ f \in Families' <=> f \in Families
      /\ DOMAIN row' = DOMAIN row
  BY KeptFacts DEF RowsKept
<1>3. FamilyOf(tok[t])' = FamilyOf(refresh) /\ FamilyOf(answer[t])' = {}
  BY <1>1, <1>2 DEF FamilyOf
<1>4. Uses(t, f)' <=> f \in FamilyOf(refresh)
  BY <1>1, <1>3 DEF Uses
<1>5. ASSUME f \in FamilyOf(refresh), NEW s \in Tab, s # t, Uses(s, f) PROVE FALSE
  <2>1. s \notin Using(f)
    BY <1>5 DEF Send
  <2>2. pc[s] = "rotate" /\ sess[s].family = f /\ f \notin FamilyOf(tok[s])
    BY <1>5, <2>1 DEF Uses, Using
  <2>3. tok[s] \notin DOMAIN row
    BY <2>2 DEF IInv, Held, FamilyOf
  <2>4. f \in Families
    BY <1>5 DEF FamilyOf, Families
  <2>5. QED BY <2>2, <2>3, <2>4 DEF AloneIn, Turn
<1>6. OneUser(f)' /\ OneLive(f)'
  BY <1>1, <1>2, <1>4, <1>5, OthersKept DEF OneUser, OneLive, AloneIn
<1>7. Turn(f)' /\ Due(f)'
  BY <1>1, <1>2, <1>3, OthersKept DEF Turn, Due, AloneIn
<1>8. ASSUME NEW s \in Tab, f \in FamilyOf(refresh)', pc'[s] \in Carrying, Uses(s, f)'
      PROVE  tok'[s] = refresh'
  <2>1. f \in FamilyOf(refresh)
    BY <1>2, <1>8 DEF FamilyOf
  <2>2. QED BY <1>1, <1>5, <1>8, <2>1, OthersKept
<1>9. QED BY <1>4, <1>5, <1>6, <1>7, <1>8 DEF OfTheJar, AloneIn

LEMMA SendClosed ==
    ASSUME IInv, RowsKept, Filled, NEW t \in Tab, NEW place \in {"read", "revoke"},
           Send(t, place), pc[t] \in {"idle", "read"}, refresh' = refresh,
           UNCHANGED <<now, ended>>,
           NEW f, f \notin raced', AloneIn(f), ClosedIn(f)
    PROVE  ClosedIn(f)'
<1>1. /\ Rest(t) /\ pc'[t] = place /\ tok'[t] = refresh /\ 0 \notin DOMAIN row
  BY SendFacts
<1>2. /\ \A k : FamilyOf(k)' = FamilyOf(k)
      /\ Live(f)' \subseteq Live(f)
  BY KeptFacts
<1>3. FamilyOf(tok[t])' = FamilyOf(refresh)
  BY <1>1, <1>2 DEF FamilyOf
<1>4. ASSUME f \in FamilyOf(refresh) PROVE Live(f) \subseteq {refresh}
  <2>1. \A s \in Tab : s # t => ~Uses(s, f)
    BY <1>4, SendAlone
  <2>2. CASE ~Uses(t, f)
    BY <1>4, <2>1, <2>2 DEF ClosedIn, AtRest
  <2>3. CASE Uses(t, f)
    <3>1. answer[t] = 0 /\ (pc[t] = "idle" => tok[t] = 0) /\ FamilyOf(0) = {}
      BY <1>1 DEF Filled, FamilyOf
    <3>2. f \in FamilyOf(tok[t]) /\ pc[t] = "read"
      BY <2>3, <3>1 DEF Uses
    <3>3. tok[t] = refresh
      BY <1>4, <2>3, <3>2 DEF AloneIn, OfTheJar, Carrying
    <3>4. QED BY <3>2, <3>3 DEF ClosedIn, Borne, Carrying
  <2>4. QED BY <2>2, <2>3
<1>5. Borne(f)'
  BY <1>1, <1>2, <1>3, <1>4, OthersKept DEF Borne, ClosedIn
<1>6. AtRest(f)'
  BY <1>2, SendAlone DEF AtRest, FamilyOf
<1>7. Over(f)'
  <2> SUFFICES ASSUME f \in ended
               PROVE  /\ \A k \in Live(f)' : ~Unexpired(k)'
                      /\ \A s \in Tab : pc'[s] = "rotate" => sess'[s].family # f
    BY DEF Over
  <2>1. \A k : Unexpired(k)' <=> Unexpired(k)
    BY DEF RowsKept, Unexpired, Kin
  <2>2. QED BY <1>1, <1>2, <2>1, OthersKept DEF Over, ClosedIn
<1>8. QED BY <1>5, <1>6, <1>7 DEF ClosedIn

LEMMA ReadKeeps ==
    ASSUME IInv, NEW t \in Tab, RefreshRead(t), Valid(tok[t]), NEW f, AloneIn(f)
    PROVE  /\ AloneIn(f)'
           /\ ClosedIn(f) => ClosedIn(f)'
<1>1. /\ Rest(t) /\ pc[t] = "read" /\ pc'[t] = "rotate" /\ sess'[t] = row[tok[t]]
      /\ UNCHANGED <<row, now, refresh, tok, answer, ended>>
  BY DEF RefreshRead, Goto, Rest, IInv, TypeOK
<1>2. RowsKept
  BY <1>1, RevokingKeeps DEF IInv
<1>3. /\ \A k : FamilyOf(k)' = FamilyOf(k) /\ (Unexpired(k)' <=> Unexpired(k))
      /\ Live(f)' = Live(f)
      /\ f \in Families' <=> f \in Families
  BY <1>1 DEF FamilyOf, Live, Families, Unexpired
<1>4. \A s \in Tab : /\ FamilyOf(tok[s])' = FamilyOf(tok[s])
                   /\ FamilyOf(answer[s])' = FamilyOf(answer[s])
  BY <1>1 DEF FamilyOf
<1>5. FamilyOf(refresh)' = FamilyOf(refresh)
  BY <1>1 DEF FamilyOf
<1>6. Unexpired(tok[t]) /\ tok[t] \in DOMAIN row /\ FamilyOf(tok[t]) = {row[tok[t]].family}
  BY DEF Valid, Unexpired, FamilyOf
<1>7. row[tok[t]].family = f => tok[t] \in Live(f)
  BY <1>6 DEF Valid, Live
<1>8. \A s \in Tab : Uses(s, f)' <=> Uses(s, f)
  BY <1>1, <1>2, <1>4, <1>6, OthersKept DEF Uses
<1>9. OneUser(f)' /\ OneLive(f)' /\ Due(f)' /\ OfTheJar(f)'
  BY <1>1, <1>2, <1>3, <1>4, <1>5, <1>8, OthersKept
  DEF AloneIn, OneUser, OneLive, Due, OfTheJar, Carrying
<1>10. Turn(f)'
  <2>1. row[tok[t]].family = f => Live(f) \subseteq {tok[t]}
    BY <1>7 DEF AloneIn, OneLive
  <2>2. QED BY <1>1, <1>2, <1>3, <1>6, <2>1, OthersKept DEF AloneIn, Turn
<1>11. ASSUME ClosedIn(f) PROVE ClosedIn(f)'
  <2>1. Borne(f)' /\ AtRest(f)'
    BY <1>1, <1>2, <1>3, <1>4, <1>5, <1>8, <1>11, OthersKept DEF ClosedIn, Borne, AtRest, Carrying
  <2>2. f \in ended => row[tok[t]].family # f
    BY <1>6, <1>7, <1>11 DEF ClosedIn, Over
  <2>3. Over(f)'
    <3> SUFFICES ASSUME f \in ended
                 PROVE  /\ \A k \in Live(f)' : ~Unexpired(k)'
                        /\ \A s \in Tab : pc'[s] = "rotate" => sess'[s].family # f
      BY <1>1 DEF Over
    <3>1. QED BY <1>1, <1>2, <1>3, <1>11, <2>2, OthersKept DEF Over, ClosedIn
  <2>4. QED BY <2>1, <2>3 DEF ClosedIn
<1>12. QED BY <1>1, <1>9, <1>10, <1>11 DEF AloneIn

(* The family that a rotation adds a token to. *)
LEMMA RotateKeepsOwn ==
    ASSUME IInv, Filled, NEW t \in Tab, RefreshRotate(t), ~Close(t), AloneIn(sess[t].family)
    PROVE  \A f : f = sess[t].family => AloneIn(f)' /\ (ClosedIn(f) => ClosedIn(f)')
<1> SUFFICES ASSUME NEW f, f = sess[t].family
             PROVE  AloneIn(f)' /\ (ClosedIn(f) => ClosedIn(f)')
  OBVIOUS
<1> DEFINE new == minted + 1
<1>1. /\ Rest(t) /\ pc[t] = "rotate" /\ pc'[t] = "refreshed" /\ tok'[t] = tok[t]
      /\ answer'[t] = new /\ UNCHANGED <<refresh, now, ended>>
      /\ DOMAIN row' = DOMAIN row \cup {new} /\ new \notin DOMAIN row
      /\ \A j \in DOMAIN row : Kin(row[j], row'[j]) /\ (j # tok[t] => row'[j] = row[j])
      /\ tok[t] \in DOMAIN row => row'[tok[t]].revoked
  BY RotateFacts DEF history
<1>a. \A s \in Tab : tok[s] # new /\ answer[s] # new
  BY SessionAssumption DEF IInv, Carried, TypeOK
<1> HIDE DEF new
<1>b. \A k : k # new => FamilyOf(k)' = FamilyOf(k)
  BY <1>1 DEF FamilyOf, Kin
<1>2. AloneIn(f) /\ Uses(t, f)
  BY <1>1 DEF Uses
<1>3. ASSUME NEW s \in Tab, s # t PROVE ~Uses(s, f) /\ ~Uses(s, f)' /\ pc'[s] = pc[s]
  <2>1. ~Uses(s, f)
    BY <1>2, <1>3 DEF AloneIn, OneUser
  <2>2. pc'[s] = pc[s] /\ tok'[s] = tok[s] /\ sess'[s] = sess[s] /\ answer'[s] = answer[s]
    BY <1>1, <1>3 DEF Rest
  <2>3. FamilyOf(tok[s])' = FamilyOf(tok[s]) /\ FamilyOf(answer[s])' = FamilyOf(answer[s])
    BY <1>a, <1>b, <2>2 DEF FamilyOf
  <2>4. QED BY <2>1, <2>2, <2>3 DEF Uses
<1>4. Live(f)' \subseteq {new}
  <2>1. Live(f) \subseteq {tok[t]}
    BY <1>1, <1>2 DEF AloneIn, Turn
  <2>2. ASSUME NEW k \in Live(f)', k # new PROVE FALSE
    <3>1. k \in DOMAIN row /\ row'[k].family = f /\ ~row'[k].revoked
      BY <1>1, <2>2 DEF Live
    <3>2. k # tok[t] /\ row'[k] = row[k]
      BY <1>1, <3>1
    <3>3. k \in Live(f)
      BY <3>1, <3>2 DEF Live
    <3>4. QED BY <2>1, <3>2, <3>3
  <2>3. QED BY <2>2
<1>5. ASSUME NEW s \in Tab, s # t
      PROVE  /\ f \notin FamilyOf(tok[s])' /\ f \notin FamilyOf(answer[s])'
             /\ pc'[s] = "rotate" => sess'[s].family # f
  BY <1>3, <1>5 DEF Uses
<1>6. OneUser(f)' /\ OneLive(f)' /\ Due(f)' /\ OfTheJar(f)' /\ Turn(f)'
  BY <1>1, <1>3, <1>4, <1>5 DEF OneUser, OneLive, Due, OfTheJar, Turn, Carrying
<1>7. ASSUME ClosedIn(f) PROVE ClosedIn(f)'
  <2>1. Borne(f)'
    BY <1>1, <1>5 DEF Borne, Carrying
  <2>2. Uses(t, f)'
    <3>1. row'[new].family = f
      BY RotateFacts DEF new
    <3>2. FamilyOf(answer[t])' = {f}
      BY <1>1, <3>1 DEF FamilyOf
    <3>3. QED BY <3>2 DEF Uses
  <2>3. f \notin ended
    BY <1>1, <1>7 DEF ClosedIn, Over
  <2>4. QED BY <1>1, <2>1, <2>2, <2>3 DEF ClosedIn, AtRest, Over
<1>8. QED BY <1>6, <1>7 DEF AloneIn

LEMMA RotateKeepsOther ==
    ASSUME IInv, Filled, NEW t \in Tab, RefreshRotate(t), ~Close(t),
           NEW f, f # sess[t].family, AloneIn(f)
    PROVE  AloneIn(f)' /\ (ClosedIn(f) => ClosedIn(f)')
<1> DEFINE new == minted + 1
<1>1. /\ Rest(t) /\ pc[t] = "rotate" /\ pc'[t] = "refreshed" /\ tok'[t] = tok[t]
      /\ answer'[t] = new /\ UNCHANGED <<refresh, now, ended>>
      /\ DOMAIN row' = DOMAIN row \cup {new} /\ new \notin DOMAIN row
      /\ row'[new].family = sess[t].family
      /\ \A j \in DOMAIN row : Kin(row[j], row'[j]) /\ (j # tok[t] => row'[j] = row[j])
      /\ tok[t] \in DOMAIN row => row[tok[t]].family = sess[t].family
  BY RotateFacts DEF history
<1>a. /\ \A s \in Tab : tok[s] # new /\ answer[s] # new
      /\ refresh # new
  BY SessionAssumption DEF IInv, Carried, TypeOK
<1> HIDE DEF new
<1>2. /\ Live(f)' \subseteq Live(f)
      /\ f \in Families' <=> f \in Families
      /\ \A k \in Live(f) : Unexpired(k)' <=> Unexpired(k)
      /\ \A k : k # new => FamilyOf(k)' = FamilyOf(k)
  <2>1. Live(f)' \subseteq Live(f)
    BY <1>1 DEF Live, Kin
  <2>2. f \in Families' <=> f \in Families
    BY <1>1 DEF Families, Kin
  <2>3. \A k \in Live(f) : Unexpired(k)' <=> Unexpired(k)
    BY <1>1 DEF Live, Unexpired, Kin
  <2>4. \A k : k # new => FamilyOf(k)' = FamilyOf(k)
    BY <1>1 DEF FamilyOf, Kin
  <2>5. QED BY <2>1, <2>2, <2>3, <2>4
<1>3. ASSUME NEW s \in Tab, s # t
      PROVE  /\ pc'[s] = pc[s] /\ tok'[s] = tok[s] /\ sess'[s] = sess[s] /\ answer'[s] = answer[s]
             /\ FamilyOf(tok[s])' = FamilyOf(tok[s]) /\ FamilyOf(answer[s])' = FamilyOf(answer[s])
             /\ Uses(s, f)' <=> Uses(s, f)
  <2>1. pc'[s] = pc[s] /\ tok'[s] = tok[s] /\ sess'[s] = sess[s] /\ answer'[s] = answer[s]
    BY <1>1, <1>3 DEF Rest
  <2>2. FamilyOf(tok[s])' = FamilyOf(tok[s]) /\ FamilyOf(answer[s])' = FamilyOf(answer[s])
    BY <1>a, <1>2, <2>1 DEF FamilyOf
  <2>3. QED BY <2>1, <2>2 DEF Uses
<1>4. f \notin FamilyOf(tok[t])' /\ f \notin FamilyOf(answer[t])' /\ ~Uses(t, f)'
  <2>1. f \notin FamilyOf(tok[t])'
    BY <1>1, <1>a DEF FamilyOf, Kin
  <2>2. f \notin FamilyOf(answer[t])'
    BY <1>1 DEF FamilyOf
  <2>3. QED BY <1>1, <2>1, <2>2 DEF Uses
<1>5. ~Uses(t, f)
  <2>1. f \notin FamilyOf(tok[t])
    BY <1>1 DEF FamilyOf
  <2>2. FamilyOf(answer[t]) = {}
    BY <1>1 DEF Filled, FamilyOf, IInv, TypeOK, Token
  <2>3. QED BY <2>1, <2>2 DEF Uses
<1>6. FamilyOf(refresh)' = FamilyOf(refresh)
  BY <1>1, <1>a, <1>2 DEF FamilyOf
<1>7. \A k \in DOMAIN row : k \in DOMAIN row'
  BY <1>1
<1>8. OneUser(f)' /\ OneLive(f)' /\ OfTheJar(f)'
  BY <1>1, <1>2, <1>3, <1>4, <1>6 DEF AloneIn, OneUser, OneLive, OfTheJar
<1>9. Due(f)' /\ Turn(f)'
  BY <1>1, <1>2, <1>3, <1>4, <1>7 DEF AloneIn, Due, Turn
<1>10. ASSUME ClosedIn(f) PROVE ClosedIn(f)'
  <2>1. Borne(f)' /\ AtRest(f)'
    BY <1>1, <1>2, <1>3, <1>4, <1>5, <1>6, <1>10 DEF ClosedIn, Borne, AtRest
  <2>2. Over(f)'
    <3> SUFFICES ASSUME f \in ended
                 PROVE  /\ \A k \in Live(f)' : ~Unexpired(k)'
                        /\ \A s \in Tab : pc'[s] = "rotate" => sess'[s].family # f
      BY <1>1, <1>a DEF Over
    <3>1. QED BY <1>1, <1>a, <1>2, <1>3, <1>10 DEF Over, ClosedIn
  <2>3. QED BY <2>1, <2>2 DEF ClosedIn
<1>11. QED BY <1>8, <1>9, <1>10 DEF AloneIn

(* The family that a login opens. *)
LEMMA LoginOpens ==
    ASSUME IInv, Logged, NEW t \in Tab, NEW u \in User, Login(t, u),
           NEW f, f = minted + 1
    PROVE  AloneIn(f)' /\ ClosedIn(f)'
<1>1. /\ Rest(t) /\ pc'[t] = "loggedIn" /\ tok'[t] = tok[t] /\ answer'[t] = f
      /\ UNCHANGED <<refresh, ended>> /\ pc[t] = "idle"
      /\ f \notin DOMAIN row
      /\ \A j \in DOMAIN row' : j # f => row'[j].family # f
  BY LoginFacts DEF history
<1>2. /\ \A s \in Tab : tok[s] # f /\ answer[s] # f
      /\ refresh # f /\ f \notin ended
      /\ \A s \in Tab : pc[s] = "rotate" => sess[s].family # f
  BY SessionAssumption DEF IInv, Carried, Held, TypeOK, Logged
<1>3. \A k : k # f => f \notin FamilyOf(k)'
  BY <1>1 DEF FamilyOf
<1>4. Live(f)' \subseteq {f} /\ f \notin FamilyOf(refresh)'
  BY <1>1, <1>2 DEF Live, FamilyOf
<1>5. ASSUME NEW s \in Tab
      PROVE  f \notin FamilyOf(tok[s])' /\ (pc'[s] = "rotate" => sess'[s].family # f)
  <2>1. tok'[s] # f
    BY <1>1, <1>2 DEF Rest
  <2>2. f \notin FamilyOf(tok[s])'
    BY <1>1, <2>1 DEF FamilyOf
  <2>3. QED BY <1>1, <1>2, <2>2 DEF Rest
<1>6. ASSUME NEW s \in Tab, s # t PROVE f \notin FamilyOf(answer[s])' /\ ~Uses(s, f)'
  <2>1. answer'[s] # f
    BY <1>1, <1>2, <1>6 DEF Rest
  <2>2. f \notin FamilyOf(answer[s])'
    BY <1>1, <2>1 DEF FamilyOf
  <2>3. QED BY <1>5, <2>2 DEF Uses
<1>7. OneUser(f)' /\ OneLive(f)' /\ Turn(f)' /\ OfTheJar(f)'
  BY <1>4, <1>5, <1>6 DEF OneUser, OneLive, Turn, OfTheJar
<1>8. Due(f)'
  BY <1>1, <1>4, <1>6 DEF Due
<1>9. Borne(f)' /\ AtRest(f)' /\ Over(f)'
  BY <1>1, <1>2, <1>4, <1>5 DEF Borne, AtRest, Over
<1>10. QED BY <1>7, <1>8, <1>9 DEF AloneIn, ClosedIn

LEMMA LoginKeeps ==
    ASSUME IInv, Filled, NEW t \in Tab, NEW u \in User, Login(t, u),
           NEW f, f # minted + 1, AloneIn(f)
    PROVE  AloneIn(f)' /\ (ClosedIn(f) => ClosedIn(f)')
<1> DEFINE new == minted + 1
<1>1. /\ Rest(t) /\ pc[t] = "idle" /\ pc'[t] = "loggedIn" /\ tok'[t] = tok[t]
      /\ answer'[t] = new
      /\ UNCHANGED <<refresh, now, ended>>
      /\ new \notin DOMAIN row
      /\ DOMAIN row' \subseteq DOMAIN row \cup {new}
      /\ \A j \in DOMAIN row' : j # new => row'[j] = row[j]
      /\ row'[new].family # f
      /\ \A j, k \in DOMAIN row :
            row[j].family = row[k].family => (j \in DOMAIN row' <=> k \in DOMAIN row')
  BY LoginFacts DEF history
<1>a. /\ \A s \in Tab : tok[s] # new /\ answer[s] # new
      /\ refresh # new
  BY SessionAssumption DEF IInv, Carried, TypeOK
<1> HIDE DEF new
<1>b. \A k : k # new => FamilyOf(k)' \subseteq FamilyOf(k)
  BY <1>1 DEF FamilyOf
<1>2. /\ Live(f)' \subseteq Live(f)
      /\ f \in Families' => f \in Families
      /\ \A k \in Live(f)' : Unexpired(k)' <=> Unexpired(k)
  <2>1. Live(f)' \subseteq Live(f)
    BY <1>1 DEF Live
  <2>2. f \in Families' => f \in Families
    BY <1>1 DEF Families
  <2>3. \A k \in Live(f)' : Unexpired(k)' <=> Unexpired(k)
    BY <1>1 DEF Live, Unexpired
  <2>4. QED BY <2>1, <2>2, <2>3
<1>3. ASSUME NEW s \in Tab, s # t
      PROVE  /\ pc'[s] = pc[s] /\ tok'[s] = tok[s] /\ sess'[s] = sess[s] /\ answer'[s] = answer[s]
             /\ FamilyOf(tok[s])' \subseteq FamilyOf(tok[s])
             /\ FamilyOf(answer[s])' \subseteq FamilyOf(answer[s])
             /\ Uses(s, f)' => Uses(s, f)
  <2>1. pc'[s] = pc[s] /\ tok'[s] = tok[s] /\ sess'[s] = sess[s] /\ answer'[s] = answer[s]
    BY <1>1, <1>3 DEF Rest
  <2>2. /\ FamilyOf(tok[s])' \subseteq FamilyOf(tok[s])
        /\ FamilyOf(answer[s])' \subseteq FamilyOf(answer[s])
    BY <1>a, <1>1, <2>1 DEF FamilyOf
  <2>3. QED BY <2>1, <2>2 DEF Uses
<1>4. /\ FamilyOf(tok[t])' = {} /\ f \notin FamilyOf(answer[t])'
      /\ ~Uses(t, f) /\ ~Uses(t, f)' /\ 0 \notin DOMAIN row
  <2>1. tok[t] = 0 /\ answer[t] = 0 /\ 0 \notin DOMAIN row
    BY <1>1 DEF Filled, IInv, TypeOK, Token
  <2>2. FamilyOf(tok[t])' = {} /\ f \notin FamilyOf(answer[t])' /\ FamilyOf(0) = {}
    BY <1>1, <1>a, <2>1 DEF FamilyOf
  <2>3. QED BY <1>1, <2>1, <2>2 DEF Uses
<1>5. FamilyOf(refresh)' \subseteq FamilyOf(refresh)
  BY <1>1, <1>a DEF FamilyOf
<1>6. OneUser(f)' /\ OneLive(f)' /\ OfTheJar(f)' /\ Due(f)'
  BY <1>1, <1>2, <1>3, <1>4, <1>5 DEF AloneIn, OneUser, OneLive, OfTheJar, Due
<1>7. Turn(f)'
  <2> SUFFICES ASSUME NEW s \in Tab, pc'[s] = "rotate", sess'[s].family = f
               PROVE  tok'[s] \in DOMAIN row' \/ f \notin Families'
    BY <1>1, <1>2, <1>3 DEF AloneIn, Turn
  <2>1. s # t /\ pc[s] = "rotate" /\ sess[s].family = f /\ tok'[s] = tok[s]
    BY <1>1, <1>3
  <2>2. CASE f \in Families'
    <3>1. PICK k \in DOMAIN row' : row'[k].family = f
      BY <2>2 DEF Families
    <3>2. k \in DOMAIN row /\ row[k].family = f
      BY <1>1, <3>1
    <3>3. tok[s] \in DOMAIN row
      BY <1>2, <2>1, <2>2 DEF AloneIn, Turn
    <3>4. row[tok[s]].family = f
      BY <2>1, <3>3 DEF IInv, Held
    <3>5. QED BY <1>1, <2>1, <3>1, <3>2, <3>3, <3>4
  <2>3. QED BY <2>2
<1>8. ASSUME ClosedIn(f) PROVE ClosedIn(f)'
  <2>1. Borne(f)'
    BY <1>1, <1>2, <1>3, <1>4, <1>8 DEF ClosedIn, Borne
  <2>2. AtRest(f)'
    <3> SUFFICES ASSUME f \in FamilyOf(refresh)', \A s \in Tab : ~Uses(s, f)'
                 PROVE  Live(f) \subseteq {refresh}
      BY <1>1, <1>2 DEF AtRest
    <3>1. refresh \in DOMAIN row' /\ refresh \in DOMAIN row /\ row[refresh].family = f
      BY <1>1, <1>a DEF FamilyOf
    <3>2. ASSUME NEW s \in Tab, Uses(s, f) PROVE FALSE
      <4>1. s # t
        BY <1>4, <3>2
      <4>2. ASSUME NEW k, k # new, f \in FamilyOf(k) PROVE f \in FamilyOf(k)'
        BY <1>1, <3>1, <4>2 DEF FamilyOf
      <4>3. tok'[s] # new /\ answer'[s] # new
        BY <1>a, <1>3, <4>1
      <4>4. f \in FamilyOf(tok[s]) => f \in FamilyOf(tok[s])'
        BY <1>1, <1>3, <1>a, <3>1, <4>1 DEF FamilyOf
      <4>5. f \in FamilyOf(answer[s]) => f \in FamilyOf(answer[s])'
        BY <1>1, <1>3, <1>a, <3>1, <4>1 DEF FamilyOf
      <4>6. Uses(s, f)'
        BY <1>3, <3>2, <4>1, <4>4, <4>5 DEF Uses
      <4>7. QED BY <4>6
    <3>3. QED BY <1>8, <3>1, <3>2 DEF ClosedIn, AtRest, FamilyOf
  <2>3. Over(f)'
    <3> SUFFICES ASSUME f \in ended
                 PROVE  /\ \A k \in Live(f)' : ~Unexpired(k)'
                        /\ \A s \in Tab : pc'[s] = "rotate" => sess'[s].family # f
      BY <1>1, <1>a DEF Over
    <3>1. QED BY <1>1, <1>a, <1>2, <1>3, <1>8 DEF Over, ClosedIn
  <2>4. QED BY <2>1, <2>2, <2>3 DEF ClosedIn
<1>9. QED BY <1>6, <1>7, <1>8 DEF AloneIn

LEMMA RevokeKeeps ==
    ASSUME IInv, NEW t \in Tab, LogoutRevoke(t), NEW f, AloneIn(f)
    PROVE  AloneIn(f)' /\ (ClosedIn(f) /\ f \notin cut' => ClosedIn(f)')
<1>1. /\ Rest(t) /\ pc[t] = "revoke" /\ pc'[t] = "loggedOut"
      /\ UNCHANGED <<now, refresh, tok, sess, answer>>
      /\ ended' = ended \cup FamilyOf(tok[t])
  BY DEF LogoutRevoke, Goto, Rest, IInv, TypeOK
<1>2. RowsKept
  BY RevokingKeeps DEF LogoutRevoke, IInv
<1>3. /\ \A k : FamilyOf(k)' = FamilyOf(k)
      /\ Live(f)' \subseteq Live(f)
      /\ f \in Families' <=> f \in Families
      /\ DOMAIN row' = DOMAIN row
      /\ \A k : Unexpired(k)' <=> Unexpired(k)
  BY <1>1, <1>2, KeptFacts DEF RowsKept, Unexpired, Kin
<1>4. ASSUME NEW s \in Tab
      PROVE  /\ FamilyOf(tok[s])' = FamilyOf(tok[s]) /\ FamilyOf(answer[s])' = FamilyOf(answer[s])
             /\ pc[s] \in Carrying <=> pc'[s] \in Carrying
             /\ pc'[s] = "rotate" => pc[s] = "rotate"
             /\ Uses(s, f)' <=> Uses(s, f)
  <2>1. FamilyOf(tok[s])' = FamilyOf(tok[s]) /\ FamilyOf(answer[s])' = FamilyOf(answer[s])
    BY <1>1, <1>3 DEF FamilyOf
  <2>2. CASE s = t
    BY <1>1, <2>1, <2>2 DEF Uses, Carrying
  <2>3. CASE s # t
    BY <1>1, <2>1, <2>3 DEF Uses, Carrying, Rest
  <2>4. QED BY <2>1, <2>2, <2>3
<1>5. FamilyOf(refresh)' = FamilyOf(refresh)
  BY <1>1, <1>3 DEF FamilyOf
<1>6. OneUser(f)' /\ OneLive(f)' /\ Turn(f)' /\ Due(f)' /\ OfTheJar(f)'
  BY <1>1, <1>3, <1>4, <1>5 DEF AloneIn, OneUser, OneLive, Turn, Due, OfTheJar
<1>7. ASSUME ClosedIn(f), f \notin cut' PROVE ClosedIn(f)'
  <2>1. Borne(f)' /\ AtRest(f)'
    BY <1>1, <1>3, <1>4, <1>5, <1>7 DEF ClosedIn, Borne, AtRest
  <2>2. CASE f \notin FamilyOf(tok[t])
    BY <1>1, <1>3, <1>4, <1>7, <2>1, <2>2 DEF ClosedIn, Over
  <2>3. CASE f \in FamilyOf(tok[t])
    <3>1. row' = IF Unexpired(tok[t]) THEN Revoked(tok[t]) ELSE row
      BY <1>7, <2>3 DEF LogoutRevoke
    <3>2. Live(f) \subseteq {tok[t]}
      BY <1>1, <1>7, <2>3 DEF ClosedIn, Borne, Carrying
    <3>3. \A k \in Live(f)' : ~Unexpired(k)'
      <4>1. CASE Unexpired(tok[t])
        <5>1. tok[t] \notin Live(f)'
          BY <3>1, <4>1, RevokingKeeps DEF IInv
        <5>2. QED BY <1>3, <3>2, <5>1
      <4>2. CASE ~Unexpired(tok[t])
        BY <1>3, <3>2, <4>2
      <4>3. QED BY <4>1, <4>2
    <3>4. \A s \in Tab : pc'[s] = "rotate" => sess'[s].family # f
      BY <1>1, <1>4, <2>3 DEF AloneIn, OneUser, Uses
    <3>5. QED BY <1>1, <2>1, <3>3, <3>4 DEF ClosedIn, Over
  <2>4. QED BY <2>1, <2>2, <2>3 DEF ClosedIn
<1>8. QED BY <1>6, <1>7 DEF AloneIn

(* The clock, and the jar that drops its cookie. *)
LEMMA StillKeeps ==
    ASSUME IInv, Tick \/ CookieExpires \/ UNCHANGED vars, NEW f, AloneIn(f)
    PROVE  AloneIn(f)' /\ (ClosedIn(f) => ClosedIn(f)')
<1>1. /\ UNCHANGED <<row, pc, tok, sess, answer, ended>>
      /\ refresh' \in {refresh, 0}
      /\ now' \in {now, now + 1} /\ now \in Nat /\ 0 \notin DOMAIN row
      /\ \A k \in DOMAIN row : row[k].expires \in Nat
  BY SessionAssumption
  DEF Tick, CookieExpires, vars, sessions, requests, history, IInv, TypeOK, Token, Row
<1>2. /\ Live(f)' = Live(f) /\ Families' = Families /\ FamilyOf(0) = {}
      /\ \A k : FamilyOf(k)' = FamilyOf(k) /\ (Unexpired(k)' => Unexpired(k))
      /\ \A s \in Tab : /\ FamilyOf(tok[s])' = FamilyOf(tok[s])
                          /\ FamilyOf(answer[s])' = FamilyOf(answer[s])
  BY <1>1 DEF Live, Families, FamilyOf, Unexpired
<1>3. \A s \in Tab : Uses(s, f)' <=> Uses(s, f)
  BY <1>1, <1>2 DEF Uses
<1>4. f \in FamilyOf(refresh)' => refresh' = refresh /\ f \in FamilyOf(refresh)
  BY <1>1, <1>2 DEF FamilyOf
<1>5. OneUser(f)' /\ OneLive(f)' /\ Turn(f)' /\ Due(f)' /\ OfTheJar(f)'
  BY <1>1, <1>2, <1>3, <1>4 DEF AloneIn, OneUser, OneLive, Turn, Due, OfTheJar
<1>6. ASSUME ClosedIn(f) PROVE Borne(f)' /\ AtRest(f)' /\ Over(f)'
  BY <1>1, <1>2, <1>3, <1>4, <1>6 DEF ClosedIn, Borne, AtRest, Over
<1>7. QED BY <1>5, <1>6 DEF AloneIn, ClosedIn

-----------------------------------------------------------------------------
(* Every family in every step *)

LEMMA LoggedInit == Init => Logged
BY DEF Init, Logged

LEMMA LoggedStep ==
    ASSUME IInv, Logged, [Next]_vars
    PROVE  Logged'
<1>1. minted \in Nat /\ \A k : FamilyOf(k) \subseteq 1..minted
  BY SessionAssumption DEF IInv, TypeOK, Ledger, FamilyOf
<1>2. ASSUME NEW t \in Tab, LogoutRevoke(t) PROVE Logged'
  BY <1>1, <1>2 DEF LogoutRevoke, Logged
<1>3. ASSUME ended' = ended, minted' \in {minted, minted + 1} PROVE Logged'
  BY <1>1, <1>3 DEF Logged
<1>4. QED
  BY <1>2, <1>3 DEF Next, Login, LoginAnswered, Lost, RefreshSend, RefreshRead, RefreshRotate,
     RefreshAnswered, LogoutSend, LogoutAnswered, Tick, CookieExpires, sessions, history, vars

LEMMA AloneInit == Init => Alone /\ Closed
BY DEF Init, Alone, Closed, AloneIn, ClosedIn, OneUser, OneLive, Turn, Due, OfTheJar, Borne,
       AtRest, Over, Uses, Live, FamilyOf, Carrying

(* The races and the losses that are on record stay there. *)
LEMMA HistoryGrows ==
    ASSUME [Next]_vars
    PROVE  raced \subseteq raced' /\ cut \subseteq cut'
BY DEF Next, Login, LoginAnswered, Lost, RefreshSend, RefreshRead, RefreshRotate,
     RefreshAnswered, LogoutSend, LogoutRevoke, LogoutAnswered, Tick, CookieExpires, history, vars,
     Refused, Send

LEMMA FamilyStep ==
    ASSUME IInv, Filled, Paired, Logged, [Next]_vars,
           NEW f, f \notin raced', AloneIn(f), f \notin cut' => ClosedIn(f)
    PROVE  AloneIn(f)' /\ (f \notin cut' => ClosedIn(f)')
<1> DEFINE Goal == AloneIn(f)' /\ (f \notin cut' => ClosedIn(f)')
<1>a. row' = row => RowsKept
  BY RevokingKeeps DEF IInv
<1>1. ASSUME RowsKept, NEW t \in Tab, Close(t), pc[t] # "idle",
             refresh' \in {refresh, 0, answer[t]}, UNCHANGED <<now, ended>>,
             refresh' # answer[t] /\ pc[t] \notin Carrying => FamilyOf(answer[t]) \subseteq cut'
      PROVE  Goal
  <2>1. AloneIn(f)'
    BY <1>1, CloseAlone
  <2>2. ASSUME f \notin cut' PROVE ClosedIn(f)'
    <3>1. refresh' # answer[t] /\ pc[t] \notin Carrying => f \notin FamilyOf(answer[t])
      BY <1>1, <2>2
    <3>2. ClosedIn(f)
      BY <2>2
    <3>3. QED BY <1>1, <3>1, <3>2, CloseClosed
  <2>3. QED BY <2>1, <2>2
<1>2. ASSUME RowsKept, NEW t \in Tab, NEW place \in {"read", "revoke"}, Send(t, place),
             pc[t] \in {"idle", "read"}, refresh' = refresh, UNCHANGED <<now, ended>>
      PROVE  Goal
  <2>1. AloneIn(f)'
    BY <1>2, SendAlone
  <2>2. ASSUME f \notin cut' PROVE ClosedIn(f)'
    <3>1. ClosedIn(f)
      BY <2>2
    <3>2. QED BY <1>2, <3>1, SendClosed
  <2>3. QED BY <2>1, <2>2
<1>3. ASSUME NEW t \in Tab, NEW u \in User, Login(t, u) PROVE Goal
  <2>1. CASE f = minted + 1
    BY <1>3, <2>1, LoginOpens
  <2>2. CASE f # minted + 1
    BY <1>3, <2>2, LoginKeeps
  <2>3. QED BY <2>1, <2>2
<1>4. ASSUME NEW t \in Tab, RefreshRead(t) PROVE Goal
  <2>1. CASE Valid(tok[t])
    BY <1>4, <2>1, ReadKeeps
  <2>2. CASE ~Valid(tok[t])
    <3>1. /\ Send(t, "read") \/ Close(t)
          /\ pc[t] = "read" /\ UNCHANGED <<now, ended, refresh>>
      BY <1>4, <2>2 DEF RefreshRead, Refused
    <3>2. RowsKept
      BY <1>4, RevokingKeeps DEF RefreshRead, IInv
    <3>3. CASE Send(t, "read")
      BY <1>2, <3>1, <3>2, <3>3
    <3>4. CASE Close(t)
      BY <1>1, <3>1, <3>2, <3>4 DEF Carrying
    <3>5. QED BY <3>1, <3>3, <3>4
  <2>3. QED BY <2>1, <2>2
<1>5. ASSUME NEW t \in Tab, RefreshRotate(t) PROVE Goal
  <2>1. CASE Close(t)
    <3>1. /\ row' = row /\ pc[t] = "rotate" /\ UNCHANGED <<now, ended, refresh>>
      BY <1>5, <2>1, CloseFacts DEF RefreshRotate, sessions, history, Goto, IInv, TypeOK
    <3>2. QED BY <1>1, <1>a, <2>1, <3>1 DEF Carrying
  <2>2. CASE ~Close(t)
    <3>1. CASE f = sess[t].family
      BY <1>5, <2>2, <3>1, RotateKeepsOwn
    <3>2. CASE f # sess[t].family
      BY <1>5, <2>2, <3>2, RotateKeepsOther
    <3>3. QED BY <3>1, <3>2
  <2>3. QED BY <2>1, <2>2
<1>6. ASSUME NEW t \in Tab, LogoutRevoke(t) PROVE Goal
  BY <1>6, RevokeKeeps
<1>7. ASSUME NEW t \in Tab,
             LoginAnswered(t) \/ RefreshAnswered(t) \/ LogoutAnswered(t) \/ Lost(t)
      PROVE  Goal
  <2>1. /\ row' = row /\ Close(t) /\ pc[t] # "idle" /\ UNCHANGED <<now, ended>>
        /\ refresh' \in {refresh, 0, answer[t]}
    BY <1>7 DEF LoginAnswered, RefreshAnswered, LogoutAnswered, Lost, sessions, history
  <2>2. refresh' # answer[t] /\ pc[t] \notin Carrying => FamilyOf(answer[t]) \subseteq cut'
    <3>1. CASE Lost(t)
      BY <3>1 DEF Lost
    <3>2. CASE LogoutAnswered(t)
      BY <3>2 DEF LogoutAnswered, Carrying
    <3>3. CASE LoginAnswered(t) \/ RefreshAnswered(t)
      BY <3>3 DEF LoginAnswered, RefreshAnswered
    <3>4. QED BY <1>7, <3>1, <3>2, <3>3
  <2>3. QED BY <1>1, <1>a, <2>1, <2>2
<1>8. ASSUME NEW t \in Tab, RefreshSend(t) \/ LogoutSend(t) PROVE Goal
  <2>1. /\ row' = row /\ pc[t] = "idle" /\ UNCHANGED <<now, ended, refresh>>
        /\ Send(t, "read") \/ Send(t, "revoke")
    BY <1>8 DEF RefreshSend, LogoutSend, sessions
  <2>2. QED BY <1>2, <1>a, <2>1
<1>9. CASE Tick \/ CookieExpires \/ UNCHANGED vars
  BY <1>9, StillKeeps
<1>10. QED
  BY <1>3, <1>4, <1>5, <1>6, <1>7, <1>8, <1>9 DEF Next

LEMMA AloneStep ==
    ASSUME IInv, Filled, Paired, Logged, Alone, Closed, [Next]_vars
    PROVE  Alone' /\ Closed'
<1>1. raced \subseteq raced' /\ cut \subseteq cut'
  BY HistoryGrows
<1>2. ASSUME NEW f \in Token, f \notin raced'
      PROVE  AloneIn(f)' /\ (f \notin cut' => ClosedIn(f)')
  <2>1. AloneIn(f)
    BY <1>1, <1>2 DEF Alone
  <2>2. f \notin cut' => ClosedIn(f)
    BY <1>1, <1>2 DEF Closed
  <2>3. QED BY <1>2, <2>1, <2>2, FamilyStep
<1>3. Alone'
  BY <1>2 DEF Alone
<1>4. Closed'
  BY <1>2 DEF Closed
<1>5. QED BY <1>3, <1>4

(* One request at a time: the invariant of the two theorems below. *)
Browser == Filled /\ Newborn /\ Paired /\ Logged /\ Jar /\ Alone /\ Closed

LEMMA BrowserInductive == Spec => [](IInv /\ Browser)
<1>1. Init => Browser
  BY FilledInit, NewbornInit, PairedInit, LoggedInit, JarInit, AloneInit DEF Browser
<1>2. IInv /\ Browser /\ [Next]_vars => Browser'
  BY FilledStep, NewbornStep, PairedStep, LoggedStep, JarStep, AloneStep DEF Browser
<1>3. QED
  BY InitInv, NextInv, <1>1, <1>2, PTL DEF Spec

(* The browser's cookie is a live token once the refreshes under way have   *)
(* been answered, unless it logged out, an answer was lost or its deadline  *)
(* has passed: answers that arrive in any order never leave it with a       *)
(* token that was replaced.                                                 *)
THEOREM CookieIsLive == Spec => []JarIsLive
<1>1. Browser => JarIsLive
  BY DEF Browser, Jar, JarIsLive, Using
<1>2. QED
  BY BrowserInductive, <1>1, PTL

(* Requests that do not overlap never leave two live tokens in a family,    *)
(* and none after a logout whose command did not fail.                      *)
THEOREM SafeAlone == Spec => []SafeOneAtATime
<1>1. ASSUME IInv, Browser PROVE SafeOneAtATime
  <2> SUFFICES ASSUME NEW f \in Families, f \notin raced
               PROVE  /\ Cardinality(Live(f)) <= 1
                      /\ f \in ended \ cut => \A k \in Live(f) : ~Unexpired(k)
    BY DEF SafeOneAtATime
  <2>1. f \in Token
    BY <1>1 DEF IInv, TypeOK, Families, Row
  <2>2. Cardinality(Live(f)) <= 1
    <3>1. CASE Live(f) = {}
      BY <3>1, FS_EmptySet
    <3>2. ASSUME NEW k \in Live(f) PROVE Cardinality(Live(f)) = 1
      <4>1. Live(f) = {k}
        BY <1>1, <2>1, <3>2 DEF Browser, Alone, AloneIn, OneLive
      <4>2. QED BY <4>1, FS_Singleton
    <3>3. QED BY <3>1, <3>2
  <2>3. f \in ended \ cut => \A k \in Live(f) : ~Unexpired(k)
    BY <1>1, <2>1 DEF Browser, Closed, ClosedIn, Over
  <2>4. QED BY <2>2, <2>3
<1>2. QED
  BY BrowserInductive, <1>1, PTL
=============================================================================
