----------------------------- MODULE AuthSession -----------------------------
(***************************************************************************)
(* Login sessions and their refresh tokens, as one browser sees them.       *)
(*                                                                         *)
(* A login creates a family of refresh tokens.  A refresh replaces the     *)
(* token by a new one of the same family; a logout revokes the token it    *)
(* carries.  All tabs share one cookie jar: a request carries the cookies  *)
(* the jar holds when it is sent, an answer sets them when it arrives.     *)
(*                                                                         *)
(* A token is the number of its row (the jti).  Its signed claims are the  *)
(* user and the deadline, which a refresh never changes.  The users are    *)
(* those an administrator has approved, which is never undone; module      *)
(* RequestGate has the approval and the access tokens.                     *)
(***************************************************************************)
EXTENDS Integers, FiniteSets

CONSTANTS
    User,           \* the user names
    Tab,            \* the tabs, each with one request at a time
    Nobody,         \* no user, an empty cookie
    Lifetime,       \* RefreshTokenExpireMinutes
    MaxTime,        \* bound on the clock
    MaxTokens,      \* bound on the rows ever inserted
    MaxFaults       \* bound on failed SQL commands and lost answers

ASSUME SessionAssumption ==
    /\ Nobody \notin User
    /\ Lifetime \in Nat /\ MaxTime \in Nat
    /\ MaxTokens \in Nat /\ MaxFaults \in Nat

VARIABLES
    row,            \* the rows of auth_sessions, by token
    minted,         \* the rows inserted so far
    now,            \* the clock
    refresh,        \* the cookie refresh_token of the jar, 0 if there is none
    pc,             \* pc[t]: where the request of tab t stands
    tok,            \* tok[t]: the refresh token it carries, 0 if none
    sess,           \* sess[t]: the row its handler has read or inserted
    answer,         \* answer[t]: the token its answer sets
    retried,        \* retried[t]: doRefresh is at its second attempt
    ended,          \* history: the families a logout has revoked a token of
    raced,          \* history: the families two requests used at once
    cut,            \* history: the families with a lost answer or command
    wish,           \* history: whose session the last login or logout left
    crossed,        \* history: a refresh was under way at that moment
    faults          \* the faults so far

sessions == <<row, minted>>
requests == <<pc, tok, sess, answer, retried>>
history  == <<ended, raced, cut, wish, crossed>>
vars == <<row, minted, now, refresh, pc, tok,
          sess, answer, retried, ended, raced, cut, wish, crossed,
          faults>>

Token == 1..MaxTokens

(* replaced is replaced_by, 0 for NULL; revoked is revoked_at IS NOT NULL. *)
NewRow(f, u, e) ==
    [family |-> f, user |-> u, expires |-> e, revoked |-> FALSE, replaced |-> 0]
NoRow == NewRow(0, Nobody, 0)
Row == [family: Token, user: User, expires: Nat, revoked: BOOLEAN,
        replaced: 0..MaxTokens]

Fault == faults < MaxFaults /\ faults' = faults + 1
Goto(t, place) == pc' = [pc EXCEPT ![t] = place]

Live(f) == {k \in DOMAIN row : row[k].family = f /\ ~row[k].revoked}
Families == {row[k].family : k \in DOMAIN row}
FamilyOf(k) == IF k \in DOMAIN row THEN {row[k].family} ELSE {}
Unexpired(k) == k \in DOMAIN row /\ row[k].expires >= now

(* The tabs with a request that carries, or will set, a token of family f. *)
Using(f) == {t \in Tab : f \in FamilyOf(tok[t]) \cup FamilyOf(answer[t])}
-----------------------------------------------------------------------------
Init ==
    /\ row = << >>
    /\ minted = 0
    /\ now = 0
    /\ refresh = 0
    /\ pc = [t \in Tab |-> "idle"]
    /\ tok = [t \in Tab |-> 0]
    /\ sess = [t \in Tab |-> NoRow]
    /\ answer = [t \in Tab |-> 0]
    /\ retried = [t \in Tab |-> FALSE]
    /\ ended = {}
    /\ raced = {}
    /\ cut = {}
    /\ wish = Nobody
    /\ crossed = FALSE
    /\ faults = 0
-----------------------------------------------------------------------------
(* Answers *)

(* The request of tab t is over. *)
Close(t) ==
    /\ Goto(t, "idle")
    /\ tok' = [tok EXCEPT ![t] = 0]
    /\ sess' = [sess EXCEPT ![t] = NoRow]
    /\ answer' = [answer EXCEPT ![t] = 0]
    /\ retried' = [retried EXCEPT ![t] = FALSE]

(* A request with a cookie of a family that another request uses races it. *)
Send(t, place) ==
    /\ Goto(t, place)
    /\ tok' = [tok EXCEPT ![t] = refresh]
    /\ raced' = raced \cup {f \in FamilyOf(refresh) : Using(f) \ {t} # {}}
    /\ UNCHANGED <<sess, answer>>

(* A login or a logout has the last word on the jar, unless a refresh is    *)
(* under way in another tab.                                                *)
LastWord(t, u) ==
    /\ wish' = u
    /\ crossed' = (\E s \in Tab \ {t} : pc[s] \in {"read", "rotate", "refreshed"})

(* The answer does not reach the browser. *)
Lost(t) ==
    /\ pc[t] \in {"loggedIn", "refreshed", "loggedOut"}
    /\ Fault
    /\ cut' = cut \cup FamilyOf(answer[t])
    /\ Close(t)
    /\ UNCHANGED <<sessions, now, refresh, ended, raced, wish, crossed>>
-----------------------------------------------------------------------------
(* Login *)

(* DeleteExpiredAuthSessions *)
Fresh == {k \in DOMAIN row : row[k].expires >= now}

(* CreateAuthSession, of a new family; kept are the rows the purge has left. *)
Opened(u) == NewRow(minted + 1, u, now + Lifetime)
Insert(kept, u) ==
    row' = [k \in kept \cup {minted + 1} |-> IF k \in kept THEN row[k] ELSE Opened(u)]

(* The name, the password and the approval are in order, and the session is  *)
(* created.  That the purge of expired rows has failed is ignored.           *)
Login(t, u) ==
    /\ pc[t] = "idle" /\ minted < MaxTokens
    /\ \/ Insert(Fresh, u) /\ UNCHANGED faults
       \/ Insert(DOMAIN row, u) /\ Fault
    /\ minted' = minted + 1
    /\ answer' = [answer EXCEPT ![t] = minted + 1]
    /\ sess' = [sess EXCEPT ![t] = Opened(u)]
    /\ Goto(t, "loggedIn")
    /\ UNCHANGED <<now, refresh, tok, retried, history>>

LoginAnswered(t) ==
    /\ pc[t] = "loggedIn"
    /\ refresh' = answer[t]
    /\ LastWord(t, sess[t].user)
    /\ Close(t)
    /\ UNCHANGED <<sessions, now, ended, raced, cut, faults>>
-----------------------------------------------------------------------------
(* doRefresh and Refresh *)

RefreshSend(t) ==
    /\ pc[t] = "idle"
    /\ Send(t, "read")
    /\ UNCHANGED <<sessions, now, refresh, retried, ended, cut, wish, crossed, faults>>

(* 401: doRefresh tries once more, with the cookie of now, then gives up. *)
Refused(t) ==
    \/ /\ ~retried[t]
       /\ Send(t, "read")
       /\ retried' = [retried EXCEPT ![t] = TRUE]
    \/ /\ retried[t]
       /\ Close(t)
       /\ UNCHANGED raced

(* RevokeAuthSession *)
Revoked(k) ==
    [j \in DOMAIN row |-> IF j = k THEN [row[j] EXCEPT !.revoked = TRUE] ELSE row[j]]

(* The claims, the row and the user: what makes a token good for a rotation. *)
Valid(k) == Unexpired(k) /\ ~row[k].revoked /\ row[k].replaced = 0

(* Mutant: a token that comes back revokes its family. *)
RefreshReadFamily(t) ==
    /\ pc[t] = "read"
    /\ IF Valid(tok[t])
       THEN /\ sess' = [sess EXCEPT ![t] = row[tok[t]]]
            /\ Goto(t, "rotate")
            /\ UNCHANGED <<row, tok, answer, retried, raced>>
       ELSE /\ row' = [k \in DOMAIN row |-> [row[k] EXCEPT !.revoked =
                         row[k].revoked \/ row[k].family \in FamilyOf(tok[t])]]
            /\ Refused(t)
    /\ UNCHANGED <<minted, now, refresh, ended, cut, wish, crossed, faults>>

(* GetAuthSession and the checks of what it read.  The deadline is checked   *)
(* in the claims first: the row is revoked only if it passes in between.     *)
RefreshRead(t) ==
    /\ pc[t] = "read"
    /\ IF Valid(tok[t])
       THEN /\ sess' = [sess EXCEPT ![t] = row[tok[t]]]
            /\ Goto(t, "rotate")
            /\ UNCHANGED <<row, tok, answer, retried, raced>>
       ELSE /\ \/ UNCHANGED row
               \/ ~Unexpired(tok[t]) /\ row' = Revoked(tok[t])
            /\ Refused(t)
    /\ UNCHANGED <<minted, now, refresh, ended, cut, wish, crossed, faults>>

(* Mutants: the deadline starts anew; the old token stays as it is. *)
RotatedExtended(k, old, new) ==
    [j \in DOMAIN row \cup {new} |->
       IF j = new THEN NewRow(old.family, old.user, now + Lifetime)
       ELSE IF j = k /\ ~row[j].revoked
            THEN [row[j] EXCEPT !.revoked = TRUE, !.replaced = new]
       ELSE row[j]]
RotatedKeeping(k, old, new) ==
    [j \in DOMAIN row \cup {new} |->
       IF j = new THEN NewRow(old.family, old.user, old.expires) ELSE row[j]]

(* RotateRefreshSession: the INSERT, then the UPDATE, which touches the old  *)
(* row only while it is not revoked.  The rows it touched are not counted.   *)
Rotated(k, old, new) ==
    [j \in DOMAIN row \cup {new} |->
       IF j = new THEN NewRow(old.family, old.user, old.expires)
       ELSE IF j = k /\ ~row[j].revoked
            THEN [row[j] EXCEPT !.revoked = TRUE, !.replaced = new]
       ELSE row[j]]

(* The transaction; when it fails, 500 and nothing has changed. *)
RefreshRotate(t) ==
    /\ pc[t] = "rotate"
    /\ \/ /\ minted < MaxTokens
          /\ row' = Rotated(tok[t], sess[t], minted + 1)
          /\ minted' = minted + 1
          /\ answer' = [answer EXCEPT ![t] = minted + 1]
          /\ Goto(t, "refreshed")
          /\ UNCHANGED <<tok, sess, retried, faults>>
       \/ /\ Fault
          /\ Close(t)
          /\ UNCHANGED sessions
    /\ UNCHANGED <<now, refresh, history>>

(* Mutant: the cookie is set to the token of the request. *)
RefreshAnsweredOld(t) ==
    /\ pc[t] = "refreshed"
    /\ refresh' = tok[t]
    /\ Close(t)
    /\ UNCHANGED <<sessions, now, history, faults>>

RefreshAnswered(t) ==
    /\ pc[t] = "refreshed"
    /\ refresh' = answer[t]
    /\ Close(t)
    /\ UNCHANGED <<sessions, now, history, faults>>
-----------------------------------------------------------------------------
(* Logout *)

LogoutSend(t) ==
    /\ pc[t] = "idle"
    /\ Send(t, "revoke")
    /\ UNCHANGED <<sessions, now, refresh, retried, ended, cut, wish, crossed, faults>>

(* Whether the UPDATE fails is ignored; it needs a token that is still valid. *)
LogoutRevoke(t) ==
    /\ pc[t] = "revoke"
    /\ \/ /\ row' = IF Unexpired(tok[t]) THEN Revoked(tok[t]) ELSE row
          /\ ended' = ended \cup FamilyOf(tok[t])
          /\ UNCHANGED <<cut, faults>>
       \/ /\ Fault
          /\ ended' = ended \cup FamilyOf(tok[t])
          /\ cut' = cut \cup FamilyOf(tok[t])
          /\ UNCHANGED row
    /\ Goto(t, "loggedOut")
    /\ UNCHANGED <<minted, now, refresh, tok, sess, answer, retried,
                   raced, wish, crossed>>

(* Mutant: only the cookie at another path is cleared. *)
LogoutAnsweredElsewhere(t) ==
    /\ pc[t] = "loggedOut"
    /\ LastWord(t, Nobody)
    /\ Close(t)
    /\ UNCHANGED <<refresh, sessions, now, ended, raced, cut, faults>>

LogoutAnswered(t) ==
    /\ pc[t] = "loggedOut"
    /\ refresh' = 0
    /\ LastWord(t, Nobody)
    /\ Close(t)
    /\ UNCHANGED <<sessions, now, ended, raced, cut, faults>>
-----------------------------------------------------------------------------
(* Time *)

Tick ==
    /\ now < MaxTime
    /\ now' = now + 1
    /\ UNCHANGED <<sessions, refresh, requests, history, faults>>

(* The browser drops the cookie at the deadline of its session (MaxAge). *)
CookieExpires ==
    /\ refresh # 0 /\ ~Unexpired(refresh)
    /\ refresh' = 0
    /\ UNCHANGED <<sessions, now, requests, history, faults>>
-----------------------------------------------------------------------------
Next ==
    \/ \E t \in Tab :
          \/ \E u \in User : Login(t, u)
          \/ LoginAnswered(t) \/ Lost(t)
          \/ RefreshSend(t) \/ RefreshRead(t) \/ RefreshRotate(t) \/ RefreshAnswered(t)
          \/ LogoutSend(t) \/ LogoutRevoke(t) \/ LogoutAnswered(t)
    \/ Tick \/ CookieExpires

Spec == Init /\ [][Next]_vars
-----------------------------------------------------------------------------
(* Properties *)

TypeOK ==
    /\ DOMAIN row \subseteq Token
    /\ \A k \in DOMAIN row : row[k] \in Row
    /\ minted \in 0..MaxTokens
    /\ now \in 0..MaxTime
    /\ refresh \in 0..MaxTokens
    /\ pc \in [Tab -> {"idle", "loggedIn", "read", "rotate", "refreshed", "revoke",
                       "loggedOut"}]
    /\ tok \in [Tab -> 0..MaxTokens]
    /\ sess \in [Tab -> Row \cup {NoRow}]
    /\ answer \in [Tab -> 0..MaxTokens]
    /\ retried \in [Tab -> BOOLEAN]
    /\ ended \subseteq Token /\ raced \subseteq Token /\ cut \subseteq Token
    /\ wish \in User \cup {Nobody}
    /\ crossed \in BOOLEAN
    /\ faults \in 0..MaxFaults

(* "rotation always preserves the absolute expiry" (handlers/auth.go:186):   *)
(* however a family was refreshed, raced or purged in part, its rows belong  *)
(* to one user and end together, and a replacement is a later row of it.     *)
OneDeadline ==
    \A k \in DOMAIN row :
       /\ \A j \in DOMAIN row :
             row[j].family = row[k].family =>
                row[j].user = row[k].user /\ row[j].expires = row[k].expires
       /\ row[k].replaced # 0 =>
             /\ row[k].replaced \in DOMAIN row
             /\ row[k].replaced > k
             /\ row[row[k].replaced].family = row[k].family

(* A session that nobody has logged out of has a live token until its        *)
(* deadline, whatever races, failures and purges come ("no state where ...   *)
(* the old token is dead but the new one was never born", db/sessions.go:40).*)
SessionSurvives ==
    \A k \in DOMAIN row :
       Unexpired(k) /\ row[k].family \notin ended => Live(row[k].family) # {}

(* The browser can go on: its cookie is a live token, once the refreshes     *)
(* under way have been answered, unless it logged out or an answer was lost. *)
(* Answers that arrive in any order never leave it with a replaced token.    *)
JarIsLive ==
    \A f \in FamilyOf(refresh) :
       \/ row[refresh].revoked = FALSE
       \/ ~Unexpired(refresh)
       \/ f \in ended \cup cut
       \/ \E t \in Using(f) : pc[t] = "refreshed"

(* Requests that do not overlap never leave two live tokens in a family, and *)
(* none after a logout whose command did not fail: the read of Refresh and   *)
(* its transaction are far apart, and nothing else protects them.            *)
SafeOneAtATime ==
    \A f \in Families \ raced :
       /\ Cardinality(Live(f)) <= 1
       /\ f \in ended \ cut => \A k \in Live(f) : ~Unexpired(k)

(* The browser is logged in as whoever logged in last, and not at all after  *)
(* a logout, unless the answer of an older refresh came after it.            *)
LastWordCounts ==
    ~crossed /\ Unexpired(refresh) => row[refresh].user = wish
=============================================================================
