-------------------------- MODULE RequestGateProofs --------------------------
(* Theorems about RequestGate, for any users, processes, requests, limits    *)
(* and windows.                                                              *)
EXTENDS RequestGate, FiniteSetTheorems, SequenceTheorems, TLAPS

Places == {"idle", "put", "slot", "limit", "work"}
EntryType == [u : User, t : 0..MaxTime, n : 1..MaxCalls, in : Source, life : 0..MaxRestarts]

Holding(p) == {r \in Request : At[r] = p /\ pc[r] \in {"limit", "work"}}
Waiting == {r \in Request : pc[r] \in {"put", "slot", "limit"}}

(* Who holds a token has an approved account, and nothing else is read of   *)
(* it or cached for it.                                                      *)
Persons ==
    /\ account \in [User -> Status] /\ cache \in [User -> {"none", "approved"}]
    /\ token \subseteq User
    /\ pc \in [Request -> Places] /\ by \in [Request -> User \cup {Nobody}]
    /\ seen \in [Request -> Status]
    /\ \A u \in token : account[u] = "approved"
    /\ \A r \in Request : /\ pc[r] # "idle" => by[r] \in User
                          /\ pc[r] = "put" => seen[r] = "approved"

(* The slots that are taken are those of the requests past the first queue. *)
Slots ==
    /\ slots \in [Proc -> 0..MaxSlots]
    /\ \A p \in Proc : slots[p] = Cardinality(Holding(p))

(* Whoever waits still has a call to make. *)
Calls == calls \in Nat /\ calls + Cardinality(Waiting) <= MaxCalls

(* The counter u has at a source of counts. *)
Counter(u, c) == IF c = "redis" THEN zset[u] ELSE hits[c][u]

(* What a counter holds was logged, and what was logged at a counter in its  *)
(* present life it holds as long as a call that is made now could look for   *)
(* it.  No call was logged in a life that is to come.                        *)
Counts ==
    /\ now \in 0..MaxTime
    /\ restarts \in 0..MaxRestarts /\ life \in [Source -> 0..restarts]
    /\ zset \in [User -> SUBSET Stamp] /\ hits \in [Proc -> [User -> SUBSET Stamp]]
    /\ log \subseteq EntryType /\ IsFiniteSet(log)
    /\ \A u \in User, c \in Source :
          /\ IsFiniteSet(Counter(u, c))
          /\ \A m \in Counter(u, c) :
                /\ m.n <= calls
                /\ \E e \in log : e.u = u /\ e.t = m.t /\ e.n = m.n
    /\ \A e \in log :
          /\ e.life <= restarts
          /\ e.life = life[e.in] /\ e.t > now - Window =>
                [t |-> e.t, n |-> e.n] \in Counter(e.u, e.in)

(* The calls of one window in one life of a counter. *)
Logged(u, c, k, x) ==
    {e \in log : /\ e.u = u /\ e.in = c /\ e.life = k
                 /\ x <= e.t /\ e.t < x + Window - Skew}

Inv == /\ redis \in BOOLEAN /\ trusted \subseteq Address
       /\ Persons /\ Slots /\ Calls /\ Counts /\ EveryWindowHolds

-----------------------------------------------------------------------------
(* Counters *)

LEMMA Windows ==
    EveryWindowHolds <=>
       \A u \in User, c \in Source, k \in 0..MaxRestarts, x \in 0..MaxTime :
          Cardinality(Logged(u, c, k, x)) <= Limit
BY DEF EveryWindowHolds, Logged

LEMMA Parameters ==
    /\ MaxSlots \in Nat /\ MaxSlots # 0 /\ Limit \in Nat /\ Limit # 0
    /\ Window \in Nat /\ Skew \in Nat /\ MaxTime \in Nat /\ MaxCalls \in Nat
    /\ MaxRestarts \in Nat
    /\ At \in [Request -> Proc] /\ "redis" \notin Proc /\ IsFiniteSet(Request)
    /\ Nobody \notin User /\ Veteran \subseteq User
<1>1. Skew \in 0..Window /\ Window \in Nat
  BY GateAssumption
<1>2. Skew \in Nat
  BY <1>1
<1>3. QED BY <1>1, <1>2, GateAssumption

LEMMA Typed ==
    ASSUME Counts, NEW u \in User, NEW c \in Source
    PROVE  /\ Counter(u, c) \subseteq Stamp
           /\ IsFiniteSet(Counter(u, c))
           /\ \A m \in Counter(u, c) : /\ m.t \in 0..MaxTime /\ m.n \in 1..MaxCalls
                                       /\ m = [t |-> m.t, n |-> m.n]
<1>1. Counter(u, c) \subseteq Stamp
  <2>1. zset \in [User -> SUBSET Stamp] /\ hits \in [Proc -> [User -> SUBSET Stamp]]
    BY DEF Counts
  <2>2. CASE c = "redis"
    BY <2>1, <2>2 DEF Counter
  <2>3. CASE c # "redis"
    <3>1. c \in Proc
      BY <2>3 DEF Source
    <3>2. hits[c] \in [User -> SUBSET Stamp]
      BY <2>1, <3>1
    <3>3. QED BY <2>3, <3>2 DEF Counter
  <2>4. QED BY <2>2, <2>3
<1>2. IsFiniteSet(Counter(u, c))
  BY DEF Counts
<1>3. \A m \in Stamp : /\ m.t \in 0..MaxTime /\ m.n \in 1..MaxCalls
                       /\ m = [t |-> m.t, n |-> m.n]
  BY DEF Stamp
<1>4. QED BY <1>1, <1>2, <1>3

(* What an injection shows of two finite sets. *)
LEMMA AtMost ==
    ASSUME NEW S, NEW T, IsFiniteSet(T), NEW f \in [S -> T],
           \A x, y \in S : f[x] = f[y] => x = y
    PROVE  Cardinality(S) <= Cardinality(T)
<1>1. f \in Injection(S, T)
  BY DEF Injection, IsInjective
<1>2. QED BY <1>1, FS_Injection

(* A full counter all of which was logged has that many calls in the log. *)
LEMMA FullLog ==
    ASSUME NEW S, IsFiniteSet(S), NEW L, IsFiniteSet(L), NEW u, NEW t \in Nat,
           \A m \in S : /\ m = [t |-> m.t, n |-> m.n]
                        /\ \E e \in L : e.u = u /\ e.t = m.t /\ e.n = m.n,
           ~HasRoom(S, t)
    PROVE  ~(Cardinality(Recent(L, u, t)) < Limit)
<1> DEFINE W == InWindow(S, t)
           made(m) == CHOOSE e \in L : e.u = u /\ e.t = m.t /\ e.n = m.n
           f == [m \in W |-> made(m)]
<1>1. \A m \in W : made(m) \in L /\ made(m).u = u /\ made(m).t = m.t /\ made(m).n = m.n
  BY DEF InWindow
<1>2. \A m \in W : m.t > t - Window /\ m = [t |-> m.t, n |-> m.n]
  BY DEF InWindow
<1>3. IsFiniteSet(W) /\ Cardinality(W) \in Nat
  BY FS_Subset, FS_CardinalityType DEF InWindow
<1>4. ~(Cardinality(W) < Limit)
  BY DEF HasRoom
<1> HIDE DEF W, made
<1>5. f \in [W -> Recent(L, u, t)]
  BY <1>1, <1>2 DEF Recent
<1>6. \A x, y \in W : f[x] = f[y] => x = y
  BY <1>1, <1>2
<1>7. IsFiniteSet(Recent(L, u, t)) /\ Cardinality(Recent(L, u, t)) \in Nat
  BY FS_Subset, FS_CardinalityType DEF Recent
<1> HIDE DEF f
<1>8. Cardinality(W) <= Cardinality(Recent(L, u, t))
  BY <1>5, <1>6, <1>7, AtMost
<1>9. QED BY <1>3, <1>4, <1>7, <1>8, Parameters

(* A counter with room has less than Limit calls of any window around now. *)
LEMMA RoomLog ==
    ASSUME Counts, NEW u \in User, NEW c \in Source, NEW t \in 0..MaxTime,
           NEW x \in 0..MaxTime, now - Skew <= t, x <= t, t < x + Window - Skew,
           HasRoom(Counter(u, c), t)
    PROVE  Cardinality(Logged(u, c, life[c], x)) < Limit
<1> DEFINE S == InWindow(Counter(u, c), t)
           f == [e \in Logged(u, c, life[c], x) |-> [t |-> e.t, n |-> e.n]]
<1>1. /\ now \in Nat /\ MaxTime \in Nat /\ Window \in Nat /\ Skew \in Nat /\ Limit \in Nat
      /\ t \in Nat /\ x \in Nat /\ MaxCalls \in Nat
  BY Parameters DEF Counts
<1>2. \A e \in Logged(u, c, life[c], x) :
         /\ e = [u |-> u, t |-> e.t, n |-> e.n, in |-> c, life |-> life[c]]
         /\ e.t \in 0..MaxTime /\ x <= e.t
  BY DEF Logged, Counts, EntryType
<1>3. \A e \in Logged(u, c, life[c], x) : e.t > now - Window /\ e.t > t - Window
  BY <1>1, <1>2
<1>4. \A e \in Logged(u, c, life[c], x) : [t |-> e.t, n |-> e.n] \in Counter(u, c)
  BY <1>2, <1>3 DEF Counts, Logged
<1>5. f \in [Logged(u, c, life[c], x) -> S]
  BY <1>3, <1>4 DEF InWindow
<1>6. \A d, e \in Logged(u, c, life[c], x) : f[d] = f[e] => d = e
  BY <1>2
<1>7. IsFiniteSet(S) /\ Cardinality(S) \in Nat
  BY Typed, FS_Subset, FS_CardinalityType DEF InWindow
<1> HIDE DEF f, S
<1>8. Cardinality(Logged(u, c, life[c], x)) <= Cardinality(S)
  BY <1>5, <1>6, <1>7, AtMost
<1>9. Cardinality(S) < Limit
  BY DEF HasRoom, S
<1>10. IsFiniteSet(Logged(u, c, life[c], x)) /\ Cardinality(Logged(u, c, life[c], x)) \in Nat
  BY FS_Subset, FS_CardinalityType DEF Counts, Logged
<1>11. QED BY <1>1, <1>7, <1>8, <1>9, <1>10

-----------------------------------------------------------------------------
(* One call of u with stamp m: some of its counters count it, and it is      *)
(* logged, at most once, at one that had room.                               *)
LEMMA CountCall ==
    ASSUME Counts, EveryWindowHolds, calls \in Nat, calls' = calls + 1, UNCHANGED <<now, restarts, life>>,
           NEW u \in User, NEW m \in Stamp, m.n = calls + 1, now - Skew <= m.t, m.t <= now,
           zset' \in [User -> SUBSET Stamp], hits' \in [Proc -> [User -> SUBSET Stamp]],
           \A v \in User, c \in Source :
              \/ Counter(v, c)' = Counter(v, c)
              \/ v = u /\ Counter(v, c)' = Counted(Counter(v, c), m),
           \/ /\ log' = log
              /\ \A c \in Source :
                    Counter(u, c)' # Counter(u, c) => ~HasRoom(Counter(u, c), m.t)
           \/ \E c \in Source :
                /\ Counter(u, c)' = Counted(Counter(u, c), m) /\ HasRoom(Counter(u, c), m.t)
                /\ log' = log \cup {[u |-> u, t |-> m.t, n |-> m.n, in |-> c, life |-> life[c]]}
    PROVE  Counts' /\ EveryWindowHolds'
<1>1. /\ m.t \in 0..MaxTime /\ m.n \in 1..MaxCalls /\ m = [t |-> m.t, n |-> m.n]
      /\ now \in 0..MaxTime /\ log \subseteq EntryType /\ IsFiniteSet(log)
  BY DEF Stamp, Counts
<1>2. /\ now \in Nat /\ m.t \in Nat /\ Window \in Nat /\ Skew \in Nat /\ Limit \in Nat
      /\ restarts \in 0..MaxRestarts /\ life \in [Source -> 0..restarts]
      /\ \A c \in Source : life[c] \in 0..MaxRestarts /\ life[c] <= restarts
  BY <1>1, Parameters DEF Counts
<1>3. \/ log' = log
      \/ \E c \in Source :
            /\ Counter(u, c)' = Counted(Counter(u, c), m) /\ HasRoom(Counter(u, c), m.t)
            /\ log' = log \cup {[u |-> u, t |-> m.t, n |-> m.n, in |-> c, life |-> life[c]]}
  OBVIOUS
<1>4. /\ log \subseteq log' /\ log' \subseteq EntryType /\ IsFiniteSet(log')
      /\ \A e \in log' : \/ e \in log
                        \/ (e.u = u /\ e.t = m.t /\ e.n = m.n /\ e.life <= restarts)
  <2>1. CASE log' = log
    BY <1>1, <2>1
  <2>2. ASSUME NEW c \in Source,
               log' = log \cup {[u |-> u, t |-> m.t, n |-> m.n, in |-> c, life |-> life[c]]}
        PROVE  /\ log \subseteq log' /\ log' \subseteq EntryType /\ IsFiniteSet(log')
               /\ \A e \in log' : \/ e \in log
                                 \/ (e.u = u /\ e.t = m.t /\ e.n = m.n /\ e.life <= restarts)
    <3>1. [u |-> u, t |-> m.t, n |-> m.n, in |-> c, life |-> life[c]] \in EntryType
      BY <1>1, <1>2 DEF EntryType
    <3>2. IsFiniteSet(log')
      BY <1>1, <2>2, FS_AddElement
    <3>3. QED BY <1>1, <1>2, <2>2, <3>1, <3>2
  <2>3. QED BY <1>3, <2>1, <2>2
<1>5. ASSUME NEW v \in User, NEW c \in Source
      PROVE  /\ IsFiniteSet(Counter(v, c)')
             /\ \A x \in Counter(v, c)' :
                   /\ x.n <= calls + 1
                   /\ \E e \in log' : e.u = v /\ e.t = x.t /\ e.n = x.n
  <2>1. /\ IsFiniteSet(Counter(v, c)) /\ Counter(v, c) \subseteq Stamp
        /\ \A x \in Counter(v, c) : x.n <= calls /\ \E e \in log : e.u = v /\ e.t = x.t /\ e.n = x.n
    BY Typed DEF Counts
  <2>2. \A x \in Counter(v, c) : x.n \in Nat
    BY <2>1 DEF Stamp
  <2>3. CASE Counter(v, c)' = Counter(v, c)
    BY <1>4, <2>1, <2>2, <2>3
  <2>4. CASE /\ v = u /\ Counter(v, c)' = Counted(Counter(v, c), m)
             /\ Counter(v, c)' # Counter(v, c)
    <3>1. /\ InWindow(Counter(v, c), m.t) \subseteq Counter(v, c)
          /\ Counter(v, c)' \subseteq InWindow(Counter(v, c), m.t) \cup {m}
      BY <2>4 DEF Counted, InWindow
    <3>2. IsFiniteSet(Counter(v, c)')
      <4>1. IsFiniteSet(Counter(v, c) \cup {m})
        BY <2>1, FS_AddElement
      <4>2. QED BY <3>1, <4>1, FS_Subset
    <3>3. CASE HasRoom(Counter(v, c), m.t)
      <4>1. PICK d \in Source :
               log' = log \cup {[u |-> u, t |-> m.t, n |-> m.n, in |-> d, life |-> life[d]]}
        BY <2>4, <3>3
      <4>2. [u |-> u, t |-> m.t, n |-> m.n, in |-> d, life |-> life[d]] \in log'
        BY <4>1
      <4>3. \E e \in log' : e.u = u /\ e.t = m.t /\ e.n = m.n
        BY <4>2
      <4>4. QED BY <1>4, <2>1, <2>2, <2>4, <3>1, <3>2, <4>3
    <3>4. CASE ~HasRoom(Counter(v, c), m.t)
      <4>1. Counter(v, c)' \subseteq Counter(v, c)
        BY <2>4, <3>1, <3>4 DEF Counted
      <4>2. QED BY <1>4, <2>1, <2>2, <3>2, <4>1
    <3>5. QED BY <3>3, <3>4
  <2>5. QED BY <2>3, <2>4
<1>6. ASSUME NEW e \in log', e.life = life[e.in], e.t > now - Window
      PROVE  [t |-> e.t, n |-> e.n] \in Counter(e.u, e.in)'
  <2>1. e.u \in User /\ e.in \in Source /\ e.t \in Nat
    BY <1>1, <1>4 DEF EntryType
  <2>2. CASE e \in log
    <3>1. [t |-> e.t, n |-> e.n] \in Counter(e.u, e.in)
      BY <1>6, <2>2 DEF Counts
    <3>2. e.t > m.t - Window
      BY <1>2, <1>6, <2>1
    <3>3. [t |-> e.t, n |-> e.n] \in InWindow(Counter(e.u, e.in), m.t)
      BY <3>1, <3>2 DEF InWindow
    <3>4. QED BY <2>1, <3>1, <3>3 DEF Counted
  <2>3. CASE e \notin log
    <3>1. PICK c \in Source :
             /\ Counter(u, c)' = Counted(Counter(u, c), m) /\ HasRoom(Counter(u, c), m.t)
             /\ log' = log \cup {[u |-> u, t |-> m.t, n |-> m.n, in |-> c, life |-> life[c]]}
      BY <1>3, <1>6, <2>3
    <3>2. e = [u |-> u, t |-> m.t, n |-> m.n, in |-> c, life |-> life[c]]
      BY <2>3, <3>1
    <3>3. m \in Counter(u, c)'
      BY <3>1 DEF Counted
    <3>4. /\ e.u = u /\ e.in = c /\ [t |-> e.t, n |-> e.n] = m
      BY <1>1, <3>2
    <3>5. QED BY <3>3, <3>4
  <2>4. QED BY <2>2, <2>3
<1>7. Counts'
  <2>1. \A v \in User, c \in Source :
           /\ IsFiniteSet(Counter(v, c)')
           /\ \A x \in Counter(v, c)' :
                /\ x.n <= calls'
                /\ \E e \in log' : e.u = v /\ e.t = x.t /\ e.n = x.n
    BY <1>5
  <2>2. \A e \in log' : /\ e.life <= restarts'
                        /\ e.life = life'[e.in] /\ e.t > now' - Window =>
                              [t |-> e.t, n |-> e.n] \in Counter(e.u, e.in)'
    BY <1>4, <1>6 DEF Counts
  <2>3. /\ now' \in 0..MaxTime /\ log' \subseteq EntryType /\ IsFiniteSet(log')
        /\ restarts' \in 0..MaxRestarts /\ life' \in [Source -> 0..restarts']
    BY <1>1, <1>2, <1>4
  <2>4. QED BY <2>1, <2>2, <2>3 DEF Counts, EntryType, Stamp, Source
<1>8. ASSUME NEW v \in User, NEW c \in Source, NEW k \in 0..MaxRestarts, NEW x \in 0..MaxTime
      PROVE  Cardinality(Logged(v, c, k, x)') <= Limit
  <2>1. Cardinality(Logged(v, c, k, x)) <= Limit
    BY Windows
  <2>2. IsFiniteSet(Logged(v, c, k, x)) /\ Cardinality(Logged(v, c, k, x)) \in Nat
    BY <1>1, FS_Subset, FS_CardinalityType DEF Logged
  <2>3. CASE Logged(v, c, k, x)' = Logged(v, c, k, x)
    BY <2>1, <2>3
  <2>4. CASE Logged(v, c, k, x)' # Logged(v, c, k, x)
    <3>1. log' # log
      BY <2>4 DEF Logged
    <3>2. PICK d \in Source :
             /\ HasRoom(Counter(u, d), m.t)
             /\ log' = log \cup {[u |-> u, t |-> m.t, n |-> m.n, in |-> d, life |-> life[d]]}
      BY <1>3, <3>1
    <3> DEFINE e == [u |-> u, t |-> m.t, n |-> m.n, in |-> d, life |-> life[d]]
    <3>3. e.u = u /\ e.in = d /\ e.t = m.t /\ e.life = life[d]
      OBVIOUS
    <3> HIDE DEF e
    <3>4. log' = log \cup {e}
      BY <3>2 DEF e
    <3>5. v = u /\ c = d /\ k = life[d] /\ x <= m.t /\ m.t < x + Window - Skew
      <4>1. PICK y \in Logged(v, c, k, x)' : y \notin Logged(v, c, k, x)
        <5>1. Logged(v, c, k, x) \subseteq Logged(v, c, k, x)'
          BY <1>4 DEF Logged
        <5>2. QED BY <2>4, <5>1
      <4>2. /\ y \in log' /\ y.u = v /\ y.in = c /\ y.life = k
            /\ x <= y.t /\ y.t < x + Window - Skew
        BY <4>1 DEF Logged
      <4>3. y \notin log
        BY <4>1, <4>2 DEF Logged
      <4>4. y = e
        BY <3>4, <4>2, <4>3
      <4>5. QED BY <3>3, <4>2, <4>4
    <3>6. Logged(v, c, k, x)' = Logged(v, c, k, x) \cup {e}
      <4>1. Logged(v, c, k, x)' = {y \in log' : /\ y.u = v /\ y.in = c /\ y.life = k
                                             /\ x <= y.t /\ y.t < x + Window - Skew}
        BY DEF Logged
      <4>2. \A y : y \in Logged(v, c, k, x)' <=>
                      y \in log' /\ y.u = v /\ y.in = c /\ y.life = k /\ x <= y.t /\ y.t < x + Window - Skew
        BY <4>1
      <4>3. \A y : y \in Logged(v, c, k, x) <=>
                      y \in log /\ y.u = v /\ y.in = c /\ y.life = k /\ x <= y.t /\ y.t < x + Window - Skew
        BY DEF Logged
      <4>4. e \in Logged(v, c, k, x)'
        BY <3>3, <3>4, <3>5, <4>2
      <4>5. \A y : y \in Logged(v, c, k, x)' <=> y \in Logged(v, c, k, x) \/ y = e
        BY <3>4, <4>2, <4>3, <4>4
      <4>6. QED BY <4>5
    <3>7. Cardinality(Logged(v, c, k, x)) < Limit
      <4>1. x <= m.t /\ m.t < x + Window - Skew /\ HasRoom(Counter(u, d), m.t)
        BY <3>2, <3>5
      <4>2. Cardinality(Logged(u, d, life[d], x)) < Limit
        BY <1>1, <4>1, RoomLog
      <4>3. QED BY <3>5, <4>2
    <3>8. Cardinality(Logged(v, c, k, x)') <= Cardinality(Logged(v, c, k, x)) + 1
      <4>1. Cardinality(Logged(v, c, k, x) \cup {e})
               = IF e \in Logged(v, c, k, x) THEN Cardinality(Logged(v, c, k, x))
                 ELSE Cardinality(Logged(v, c, k, x)) + 1
        BY <2>2, FS_AddElement
      <4>2. Cardinality(Logged(v, c, k, x) \cup {e}) <= Cardinality(Logged(v, c, k, x)) + 1
        BY <2>2, <4>1
      <4>3. QED BY <3>6, <4>2
    <3>9. IsFiniteSet(Logged(v, c, k, x)') /\ Cardinality(Logged(v, c, k, x)') \in Nat
      <4>1. IsFiniteSet(Logged(v, c, k, x) \cup {e})
        BY <2>2, FS_AddElement
      <4>2. Cardinality(Logged(v, c, k, x) \cup {e}) \in Nat
        BY <4>1, FS_CardinalityType
      <4>3. QED BY <3>6, <4>1, <4>2
    <3>10. QED BY <1>2, <2>2, <3>7, <3>8, <3>9
  <2>5. QED BY <2>3, <2>4
<1>9. EveryWindowHolds'
  <2>1. \A v \in User, c \in Source, k \in 0..MaxRestarts, x \in 0..MaxTime :
           Cardinality({e \in log' : /\ e.u = v /\ e.in = c /\ e.life = k
                                     /\ x <= e.t /\ e.t < x + Window - Skew}) <= Limit
    BY <1>8 DEF Logged
  <2>2. QED BY <2>1 DEF EveryWindowHolds, Source
<1>10. QED BY <1>7, <1>9

(* A call in progress, its time stamp taken. *)
Made(r, d) == LET m == [t |-> now - d, n |-> calls + 1] IN
              AllowRedis(r, m) \/ AllowResent(r, m) \/ AllowRam(r, m)

LEMMA CallCounts ==
    ASSUME Counts, EveryWindowHolds, Calls, calls < MaxCalls, NEW r \in Request, by[r] \in User,
           calls' = calls + 1, UNCHANGED <<now, restarts, life>>,
           NEW d \in 0..Skew, d <= now, Made(r, d)
    PROVE  Counts' /\ EveryWindowHolds'
<1>1. /\ calls \in Nat /\ now \in 0..MaxTime /\ now \in Nat /\ d \in Nat
      /\ MaxCalls \in Nat /\ Skew \in Nat
  BY Parameters DEF Calls, Counts
<1>2. PICK m \in Stamp : /\ m = [t |-> now - d, n |-> calls + 1]
                        /\ m.n = calls + 1 /\ now - Skew <= m.t /\ m.t <= now
  <2>1. now - d \in 0..MaxTime /\ calls + 1 \in 1..MaxCalls
    BY <1>1, Parameters
  <2>2. [t |-> now - d, n |-> calls + 1] \in Stamp
    BY <2>1 DEF Stamp
  <2>3. now - Skew <= now - d /\ now - d <= now
    BY <1>1
  <2>4. QED BY <2>2, <2>3
<1>3. PICK u \in User : u = by[r]
  OBVIOUS
<1>4. /\ zset \in [User -> SUBSET Stamp] /\ hits \in [Proc -> [User -> SUBSET Stamp]]
  BY DEF Counts
<1>5. AllowRedis(r, m) \/ AllowResent(r, m) \/ AllowRam(r, m)
  BY <1>2 DEF Made
<1>6. At[r] \in Proc /\ At[r] # "redis"
  BY Parameters
<1>7. \A S \in SUBSET Stamp : Counted(S, m) \in SUBSET Stamp
  BY <1>2 DEF Counted, InWindow
<1>8. \A v \in User : Counter(v, "redis") = zset[v] /\ Counter(v, "redis")' = zset'[v]
  BY DEF Counter
<1>9. \A v \in User, p \in Proc : Counter(v, p) = hits[p][v] /\ Counter(v, p)' = hits'[p][v]
  BY Parameters DEF Counter
<1>10. \A c \in Proc : c \in Source
  BY DEF Source
<1>11. CASE AllowRedis(r, m)
  <2>1. zset' = [zset EXCEPT ![u] = Counted(zset[u], m)] /\ hits' = hits
    BY <1>3, <1>11 DEF AllowRedis
  <2>2. zset' \in [User -> SUBSET Stamp] /\ zset'[u] = Counted(zset[u], m)
        /\ \A v \in User \ {u} : zset'[v] = zset[v]
    BY <1>4, <1>7, <2>1
  <2>3. \A v \in User, c \in Source :
           \/ Counter(v, c)' = Counter(v, c)
           \/ v = u /\ Counter(v, c)' = Counted(Counter(v, c), m)
    BY <1>8, <1>9, <2>1, <2>2 DEF Source
  <2>4. Counter(u, "redis")' = Counted(Counter(u, "redis"), m)
    BY <1>8, <2>2
  <2>5. \A c \in Source : Counter(u, c)' # Counter(u, c) => c = "redis"
    BY <1>9, <2>1 DEF Source
  <2>6. CASE HasRoom(zset[u], m.t)
    <3>1. log' = log \cup {[u |-> u, t |-> m.t, n |-> m.n, in |-> "redis", life |-> life["redis"]]}
      BY <1>3, <1>11, <2>6 DEF AllowRedis, Entry
    <3>2. HasRoom(Counter(u, "redis"), m.t) /\ "redis" \in Source
      BY <1>8, <2>6 DEF Source
    <3>3. QED BY <1>2, <1>4, <2>1, <2>2, <2>3, <2>4, <3>1, <3>2, CountCall DEF Calls
  <2>7. CASE ~HasRoom(zset[u], m.t)
    <3>1. log' = log
      BY <1>3, <1>11, <2>7 DEF AllowRedis
    <3>2. \A c \in Source : Counter(u, c)' # Counter(u, c) => ~HasRoom(Counter(u, c), m.t)
      BY <1>8, <2>5, <2>7
    <3>3. QED BY <1>2, <1>4, <2>1, <2>2, <2>3, <3>1, <3>2, CountCall DEF Calls
  <2>8. QED BY <2>6, <2>7
<1>14. CASE AllowResent(r, m)
  <2>1. zset' = [zset EXCEPT ![u] = Counted(zset[u], m)] /\ hits' = hits
    BY <1>3, <1>14 DEF AllowResent
  <2>2. zset' \in [User -> SUBSET Stamp] /\ zset'[u] = Counted(zset[u], m)
        /\ \A v \in User \ {u} : zset'[v] = zset[v]
    BY <1>4, <1>7, <2>1
  <2>3. \A v \in User, c \in Source :
           \/ Counter(v, c)' = Counter(v, c)
           \/ v = u /\ Counter(v, c)' = Counted(Counter(v, c), m)
    BY <1>8, <1>9, <2>1, <2>2 DEF Source
  <2>4. /\ Counter(u, "redis")' = Counted(Counter(u, "redis"), m)
        /\ HasRoom(Counter(u, "redis"), m.t) /\ "redis" \in Source
    BY <1>3, <1>8, <1>14, <2>2 DEF AllowResent, Source
  <2>5. log' = log \cup {[u |-> u, t |-> m.t, n |-> m.n, in |-> "redis", life |-> life["redis"]]}
    BY <1>3, <1>14 DEF AllowResent, Entry
  <2>6. QED BY <1>2, <1>4, <2>1, <2>2, <2>3, <2>4, <2>5, CountCall DEF Calls
<1>12. CASE AllowRam(r, m)
  <2>1. PICK p \in Proc : p = At[r] /\ p # "redis"
    BY <1>6
  <2>2. /\ zset' = zset \/ zset' = [zset EXCEPT ![u] = Counted(zset[u], m)]
        /\ hits' = [hits EXCEPT ![p] = [hits[p] EXCEPT ![u] = Counted(hits[p][u], m)]]
    <3>1. hits' = [hits EXCEPT ![p][u] = Counted(@, m)]
      BY <1>3, <2>1, <1>12 DEF AllowRam
    <3>2. QED BY <1>4, <1>3, <1>6, <1>12, <3>1 DEF AllowRam
  <2>3. zset' \in [User -> SUBSET Stamp] /\ (zset'[u] = zset[u] \/ zset'[u] = Counted(zset[u], m))
        /\ \A v \in User \ {u} : zset'[v] = zset[v]
    BY <1>4, <1>7, <2>2
  <2>4. /\ hits' \in [Proc -> [User -> SUBSET Stamp]] /\ hits'[p][u] = Counted(hits[p][u], m)
        /\ \A v \in User \ {u} : hits'[p][v] = hits[p][v]
        /\ \A q \in Proc \ {p} : hits'[q] = hits[q]
    <3>1. hits[p] \in [User -> SUBSET Stamp] /\ Counted(hits[p][u], m) \in SUBSET Stamp
      BY <1>4, <1>6, <1>7
    <3>2. [hits[p] EXCEPT ![u] = Counted(hits[p][u], m)] \in [User -> SUBSET Stamp]
      BY <3>1
    <3>3. hits'[p] = [hits[p] EXCEPT ![u] = Counted(hits[p][u], m)]
      BY <1>4, <1>6, <2>2
    <3>4. hits' \in [Proc -> [User -> SUBSET Stamp]]
      BY <1>4, <1>6, <2>2, <3>2
    <3>5. QED BY <1>4, <1>6, <2>2, <3>1, <3>3, <3>4
  <2>5. \A v \in User, c \in Source :
           \/ Counter(v, c)' = Counter(v, c)
           \/ v = u /\ Counter(v, c)' = Counted(Counter(v, c), m)
    BY <1>8, <1>9, <2>3, <2>4 DEF Source
  <2>6. Counter(u, p)' = Counted(Counter(u, p), m) /\ p \in Source
    BY <1>6, <1>9, <1>10, <2>4
  <2>7. CASE HasRoom(hits[p][u], m.t)
    <3>1. log' = log \cup {[u |-> u, t |-> m.t, n |-> m.n, in |-> p, life |-> life[p]]}
      BY <1>3, <2>1, <1>12, <2>7 DEF AllowRam, Entry
    <3>2. HasRoom(Counter(u, p), m.t)
      BY <1>6, <1>9, <2>7
    <3>3. QED BY <1>2, <2>3, <2>4, <2>5, <2>6, <3>1, <3>2, CountCall DEF Calls
  <2>8. CASE ~HasRoom(hits[p][u], m.t)
    <3>1. log' = log \cup {Entry(r, "redis", x) : x \in zset'[u] \cap {m}}
      BY <1>3, <2>1, <1>12, <2>8 DEF AllowRam
    <3>2. m \notin zset[u]
      <4>1. \A x \in zset[u] : x.n <= calls
        BY <1>8 DEF Counts, Source
      <4>2. QED BY <1>1, <1>2, <4>1
    <3>3. CASE m \in zset'[u]
      <4>1. zset'[u] = Counted(zset[u], m)
        BY <2>3, <3>2, <3>3
      <4>2. HasRoom(zset[u], m.t)
        BY <3>2, <3>3, <4>1 DEF Counted, InWindow
      <4>3. log' = log \cup {[u |-> u, t |-> m.t, n |-> m.n, in |-> "redis", life |-> life["redis"]]}
        <5>1. zset'[u] \cap {m} = {m}
          BY <3>3
        <5>2. QED BY <1>3, <3>1, <5>1 DEF Entry
      <4>4. /\ Counter(u, "redis")' = Counted(Counter(u, "redis"), m)
            /\ HasRoom(Counter(u, "redis"), m.t) /\ "redis" \in Source
        BY <1>8, <4>1, <4>2 DEF Source
      <4>5. QED BY <1>2, <2>3, <2>4, <2>5, <4>3, <4>4, CountCall DEF Calls
    <3>4. CASE m \notin zset'[u]
      <4>1. log' = log
        <5>1. zset'[u] \cap {m} = {}
          BY <3>4
        <5>2. QED BY <3>1, <5>1
      <4>2. zset'[u] # zset[u] => ~HasRoom(zset[u], m.t)
        BY <2>3, <3>4 DEF Counted
      <4>3. \A c \in Source : Counter(u, c)' # Counter(u, c) => ~HasRoom(Counter(u, c), m.t)
        <5>1. \A q \in Proc : Counter(u, q)' # Counter(u, q) => q = p
          BY <1>9, <2>4
        <5>2. ~HasRoom(Counter(u, p), m.t)
          BY <1>6, <1>9, <2>8
        <5>3. QED BY <1>8, <4>2, <5>1, <5>2 DEF Source
      <4>4. QED BY <1>2, <2>3, <2>4, <2>5, <4>1, <4>3, CountCall DEF Calls
    <3>5. QED BY <3>3, <3>4
  <2>9. QED BY <2>7, <2>8
<1>13. QED BY <1>5, <1>11, <1>12, <1>14

-----------------------------------------------------------------------------
(* One request moves *)

LEMMA HoldingFinite ==
    ASSUME NEW p \in Proc
    PROVE  IsFiniteSet(Holding(p)) /\ Cardinality(Holding(p)) \in Nat
BY Parameters, FS_Subset, FS_CardinalityType DEF Holding

LEMMA WaitingFinite == IsFiniteSet(Waiting) /\ Cardinality(Waiting) \in Nat
BY Parameters, FS_Subset, FS_CardinalityType DEF Waiting

LEMMA Add ==
    ASSUME NEW S, NEW x, IsFiniteSet(S), x \notin S
    PROVE  Cardinality(S \cup {x}) = Cardinality(S) + 1
BY FS_AddElement

LEMMA Remove ==
    ASSUME NEW S, NEW x, IsFiniteSet(S), x \in S
    PROVE  Cardinality(S \ {x}) = Cardinality(S) - 1
BY FS_RemoveElement

LEMMA SlotMove ==
    ASSUME Slots, pc \in [Request -> Places], NEW r \in Request, NEW place \in Places,
           Goto(r, place),
           \/ slots' = slots /\ (pc[r] \in {"limit", "work"} <=> place \in {"limit", "work"})
           \/ /\ pc[r] \notin {"limit", "work"} /\ place \in {"limit", "work"} /\ Free(At[r])
              /\ slots' = [slots EXCEPT ![At[r]] = slots[At[r]] + 1]
           \/ /\ pc[r] \in {"limit", "work"} /\ place \notin {"limit", "work"}
              /\ slots' = [slots EXCEPT ![At[r]] = slots[At[r]] - 1]
    PROVE  Slots'
<1>1. /\ pc'[r] = place /\ \A s \in Request \ {r} : pc'[s] = pc[s]
  BY DEF Goto
<1>2. PICK p \in Proc : p = At[r]
  BY Parameters
<1>3. \A q \in Proc \ {p} : Holding(q)' = Holding(q)
  BY <1>1, <1>2 DEF Holding
<1>4. /\ slots \in [Proc -> 0..MaxSlots] /\ MaxSlots \in Nat
      /\ \A q \in Proc : slots[q] = Cardinality(Holding(q)) /\ slots[q] \in Nat
  BY Parameters DEF Slots
<1>5. CASE slots' = slots /\ (pc[r] \in {"limit", "work"} <=> place \in {"limit", "work"})
  <2>1. Holding(p)' = Holding(p)
    BY <1>1, <1>5 DEF Holding
  <2>2. \A q \in Proc : Holding(q)' = Holding(q)
    BY <1>3, <2>1
  <2>3. QED BY <1>4, <1>5, <2>2 DEF Slots
<1>6. CASE /\ pc[r] \notin {"limit", "work"} /\ place \in {"limit", "work"} /\ Free(At[r])
           /\ slots' = [slots EXCEPT ![At[r]] = slots[At[r]] + 1]
  <2>1. Holding(p)' = Holding(p) \cup {r} /\ r \notin Holding(p)
    BY <1>1, <1>2, <1>6 DEF Holding
  <2>2. Cardinality(Holding(p)') = slots[p] + 1
    BY <1>4, <2>1, HoldingFinite, Add
  <2>3. slots[p] + 1 \in 0..MaxSlots
    BY <1>2, <1>4, <1>6 DEF Free
  <2>4. /\ slots' \in [Proc -> 0..MaxSlots] /\ slots'[p] = slots[p] + 1
        /\ \A q \in Proc \ {p} : slots'[q] = slots[q]
    BY <1>2, <1>4, <1>6, <2>3
  <2>5. \A q \in Proc : slots'[q] = Cardinality(Holding(q)')
    BY <1>3, <1>4, <2>2, <2>4
  <2>6. QED BY <2>4, <2>5 DEF Slots
<1>7. CASE /\ pc[r] \in {"limit", "work"} /\ place \notin {"limit", "work"}
           /\ slots' = [slots EXCEPT ![At[r]] = slots[At[r]] - 1]
  <2>1. Holding(p)' = Holding(p) \ {r} /\ r \in Holding(p)
    BY <1>1, <1>2, <1>7 DEF Holding
  <2>2. Cardinality(Holding(p)') = slots[p] - 1
    BY <1>4, <2>1, HoldingFinite, Remove
  <2>3. slots[p] # 0
    BY <1>4, <2>1, HoldingFinite, FS_EmptySet
  <2>4. slots[p] - 1 \in 0..MaxSlots
    BY <1>4, <2>3
  <2>5. /\ slots' \in [Proc -> 0..MaxSlots] /\ slots'[p] = slots[p] - 1
        /\ \A q \in Proc \ {p} : slots'[q] = slots[q]
    BY <1>2, <1>4, <1>7, <2>4
  <2>6. \A q \in Proc : slots'[q] = Cardinality(Holding(q)')
    BY <1>3, <1>4, <2>2, <2>5
  <2>7. QED BY <2>5, <2>6 DEF Slots
<1>8. QED BY <1>5, <1>6, <1>7

LEMMA WaitMove ==
    ASSUME Calls, pc \in [Request -> Places], NEW r \in Request, NEW place \in Places,
           Goto(r, place),
           \/ calls' = calls /\ (place \in {"put", "slot", "limit"} =>
                                    pc[r] \in {"put", "slot", "limit"})
           \/ calls' = calls /\ pc[r] = "idle" /\ Room
           \/ /\ calls' = calls + 1 /\ pc[r] \in {"put", "slot", "limit"}
              /\ place \notin {"put", "slot", "limit"}
    PROVE  Calls'
<1>1. /\ pc'[r] = place /\ \A s \in Request \ {r} : pc'[s] = pc[s]
  BY DEF Goto
<1>2. /\ calls \in Nat /\ MaxCalls \in Nat /\ calls + Cardinality(Waiting) <= MaxCalls
      /\ IsFiniteSet(Waiting) /\ Cardinality(Waiting) \in Nat
  BY Parameters, WaitingFinite DEF Calls
<1>3. IsFiniteSet(Waiting') /\ Cardinality(Waiting') \in Nat
  BY Parameters, FS_Subset, FS_CardinalityType DEF Waiting
<1>4. CASE calls' = calls /\ (place \in {"put", "slot", "limit"} =>
                                 pc[r] \in {"put", "slot", "limit"})
  <2>1. Waiting' \subseteq Waiting
    BY <1>1, <1>4 DEF Waiting
  <2>2. Cardinality(Waiting') <= Cardinality(Waiting)
    BY <1>2, <2>1, FS_Subset
  <2>3. QED BY <1>2, <1>3, <1>4, <2>2 DEF Calls
<1>5. CASE calls' = calls /\ pc[r] = "idle" /\ Room
  <2> DEFINE busy == {s \in Request : pc[s] # "idle"}
  <2>1. Waiting' \subseteq busy \cup {r} /\ r \notin busy
    BY <1>1, <1>5 DEF Waiting
  <2>2. IsFiniteSet(busy) /\ Cardinality(busy) \in Nat
    BY Parameters, FS_Subset, FS_CardinalityType
  <2>3. calls + Cardinality(busy) < MaxCalls
    BY <1>5 DEF Room
  <2> HIDE DEF busy
  <2>4. IsFiniteSet(busy \cup {r}) /\ Cardinality(busy \cup {r}) = Cardinality(busy) + 1
    BY <2>1, <2>2, FS_AddElement
  <2>5. Cardinality(Waiting') <= Cardinality(busy) + 1
    BY <2>1, <2>4, FS_Subset
  <2>6. QED BY <1>2, <1>3, <1>5, <2>2, <2>3, <2>5 DEF Calls
<1>6. CASE /\ calls' = calls + 1 /\ pc[r] \in {"put", "slot", "limit"}
           /\ place \notin {"put", "slot", "limit"}
  <2>1. Waiting' = Waiting \ {r} /\ r \in Waiting
    BY <1>1, <1>6 DEF Waiting
  <2>2. Cardinality(Waiting') = Cardinality(Waiting) - 1
    BY <1>2, <2>1, Remove
  <2>3. QED BY <1>2, <1>6, <2>2 DEF Calls
<1>7. QED BY <1>4, <1>5, <1>6

(* Time passes, or what no call looks for is dropped. *)
LEMMA QuietCounts ==
    ASSUME Counts, EveryWindowHolds, UNCHANGED <<zset, log, calls, restarts, life>>,
           hits' \in [Proc -> [User -> SUBSET Stamp]], now' \in 0..MaxTime, now <= now',
           \A p \in Proc, u \in User :
              /\ hits'[p][u] \subseteq hits[p][u]
              /\ \A m \in hits[p][u] : m.t > now' - Window => m \in hits'[p][u]
    PROVE  Counts' /\ EveryWindowHolds'
<1>1. EveryWindowHolds'
  BY DEF EveryWindowHolds
<1>2. \A u \in User : Counter(u, "redis") = zset[u] /\ Counter(u, "redis")' = zset[u]
  BY DEF Counter
<1>3. \A u \in User, p \in Proc : Counter(u, p) = hits[p][u] /\ Counter(u, p)' = hits'[p][u]
  BY Parameters DEF Counter
<1>4. ASSUME NEW u \in User, NEW c \in Source
      PROVE  /\ Counter(u, c)' \subseteq Counter(u, c)
             /\ \A m \in Counter(u, c) : m.t > now' - Window => m \in Counter(u, c)'
  BY <1>2, <1>3 DEF Source
<1>5. ASSUME NEW u \in User, NEW c \in Source
      PROVE  /\ IsFiniteSet(Counter(u, c)')
             /\ \A m \in Counter(u, c)' :
                   m.n <= calls /\ \E e \in log : e.u = u /\ e.t = m.t /\ e.n = m.n
  <2>1. IsFiniteSet(Counter(u, c)')
    BY <1>4, Typed, FS_Subset
  <2>2. QED BY <1>4, <2>1 DEF Counts
<1>6. ASSUME NEW e \in log, e.life = life[e.in], e.t > now' - Window
      PROVE  [t |-> e.t, n |-> e.n] \in Counter(e.u, e.in)'
  <2>1. e.u \in User /\ e.in \in Source /\ e.t \in Nat
    BY DEF Counts, EntryType
  <2>2. now \in Nat /\ now' \in Nat /\ Window \in Nat
    BY Parameters DEF Counts
  <2>3. e.t > now - Window
    BY <1>6, <2>1, <2>2
  <2>4. QED BY <1>4, <1>6, <2>1, <2>3 DEF Counts
<1>7. Counts'
  <2>1. \A u \in User, c \in Source :
           /\ IsFiniteSet(Counter(u, c)')
           /\ \A m \in Counter(u, c)' :
                 m.n <= calls' /\ \E e \in log' : e.u = u /\ e.t = m.t /\ e.n = m.n
    BY <1>5
  <2>2. \A e \in log' : /\ e.life <= restarts'
                        /\ e.life = life'[e.in] /\ e.t > now' - Window =>
                              [t |-> e.t, n |-> e.n] \in Counter(e.u, e.in)'
    BY <1>6 DEF Counts
  <2>3. /\ zset' \in [User -> SUBSET Stamp] /\ log' \subseteq EntryType /\ IsFiniteSet(log')
        /\ restarts' \in 0..MaxRestarts /\ life' \in [Source -> 0..restarts']
    BY DEF Counts
  <2>4. QED BY <2>1, <2>2, <2>3 DEF Counts, EntryType, Stamp, Source
<1>8. QED BY <1>1, <1>7

LEMMA SameCounts ==
    ASSUME Counts, EveryWindowHolds, UNCHANGED <<now, zset, hits, log, calls, restarts, life>>
    PROVE  Counts' /\ EveryWindowHolds'
<1>1. now \in Nat /\ now \in 0..MaxTime /\ hits \in [Proc -> [User -> SUBSET Stamp]]
  BY Parameters DEF Counts
<1>2. QED BY <1>1, QuietCounts

LEMMA SameSlots ==
    ASSUME Slots, UNCHANGED <<pc, slots>>
    PROVE  Slots'
BY DEF Slots, Holding

LEMMA SameCalls ==
    ASSUME Calls, UNCHANGED <<pc, calls>>
    PROVE  Calls'
BY DEF Calls, Waiting

(* Accounts and the cache, no request at hand. *)
LEMMA UserSteps ==
    ASSUME Inv, NEW u \in User, Register(u) \/ ApproveUser(u) \/ Login(u) \/ Expire(u)
    PROVE  Inv'
<1>1. /\ Persons /\ Slots /\ Calls /\ Counts /\ EveryWindowHolds
      /\ UNCHANGED <<redis, trusted, pc, by, seen, slots, now, zset, hits, calls, restarts, life, log>>
  BY DEF Inv, Register, ApproveUser, Login, Expire, fixed, requests, counters
<1>2. Slots' /\ Calls' /\ Counts' /\ EveryWindowHolds'
  BY <1>1, SameSlots, SameCalls, SameCounts
<1>3. Persons'
  <2>1. CASE Register(u)
    BY <1>1, <2>1 DEF Persons, Register, Status, Places
  <2>2. CASE ApproveUser(u)
    BY <1>1, <2>2 DEF Persons, ApproveUser, Status, Places
  <2>3. CASE Login(u)
    BY <1>1, <2>3 DEF Persons, Login, Status, Places
  <2>4. CASE Expire(u)
    BY <1>1, <2>4 DEF Persons, Expire, Status, Places
  <2>5. QED BY <2>1, <2>2, <2>3, <2>4
<1>4. QED BY <1>1, <1>2, <1>3 DEF Inv

(* Only an approved account is judged. *)
LEMMA JudgeSteps ==
    ASSUME Inv, NEW r \in Request,
           (\E u \in User : LookupHit(r, u) \/ LookupMiss(r, u)) \/ LookupPut(r)
    PROVE  Inv' /\ (turnedAway' <=> turnedAway)
<1>1. /\ Persons /\ Slots /\ Calls /\ Counts /\ EveryWindowHolds
      /\ UNCHANGED <<redis, trusted, account, token, slots, now, zset, hits, calls, restarts, life, log>>
  BY DEF Inv, LookupHit, LookupMiss, LookupPut, fixed, users, counters
<1>2. Counts' /\ EveryWindowHolds' /\ pc \in [Request -> Places]
  BY <1>1, SameCounts DEF Persons
<1>3. ASSUME NEW u \in User, LookupHit(r, u)
      PROVE  Inv' /\ (turnedAway' <=> turnedAway)
  <2>1. cache[u] = "approved" /\ pc[r] = "idle" /\ Room /\ UNCHANGED <<cache, seen>>
    BY <1>1, <1>3 DEF LookupHit, Persons, users
  <2>2. Goto(r, "slot") /\ by' = [by EXCEPT ![r] = u]
    BY <1>3, <2>1 DEF LookupHit, Judge
  <2>3. turnedAway' <=> turnedAway
    BY <1>3, <2>1 DEF LookupHit, Judge
  <2>4. Slots' /\ Calls'
    BY <1>1, <1>2, <2>1, <2>2, SlotMove, WaitMove DEF Places
  <2>5. Persons'
    BY <1>1, <2>1, <2>2 DEF Persons, Goto, Places, Status
  <2>6. QED BY <1>1, <1>2, <2>3, <2>4, <2>5 DEF Inv
<1>4. ASSUME NEW u \in User, LookupMiss(r, u)
      PROVE  Inv' /\ (turnedAway' <=> turnedAway)
  <2>1. /\ account[u] = "approved" /\ pc[r] = "idle" /\ Room /\ cache' = cache
        /\ Goto(r, "put") /\ by' = [by EXCEPT ![r] = u] /\ turnedAway' = turnedAway
    BY <1>1, <1>4 DEF LookupMiss, Persons, users
  <2>2. seen' = [seen EXCEPT ![r] = "approved"]
    BY <1>4, <2>1 DEF LookupMiss
  <2>3. Slots' /\ Calls'
    BY <1>1, <1>2, <2>1, SlotMove, WaitMove DEF Places
  <2>4. Persons'
    BY <1>1, <2>1, <2>2 DEF Persons, Goto, Places, Status
  <2>5. QED BY <1>1, <1>2, <2>1, <2>3, <2>4 DEF Inv
<1>5. CASE LookupPut(r)
  <2>1. pc[r] = "put" /\ seen[r] = "approved" /\ by[r] \in User
    BY <1>1, <1>5 DEF LookupPut, Persons
  <2>2. Goto(r, "slot") /\ by' = [by EXCEPT ![r] = by[r]]
    BY <1>5, <2>1 DEF LookupPut, Judge
  <2>3. turnedAway' <=> turnedAway
    BY <1>5, <2>1 DEF LookupPut, Judge
  <2>4. /\ cache' = cache \/ cache' = [cache EXCEPT ![by[r]] = "approved"]
        /\ seen' = [seen EXCEPT ![r] = "none"]
    BY <1>5, <2>1 DEF LookupPut
  <2>5. Slots' /\ Calls'
    BY <1>1, <1>2, <2>1, <2>2, SlotMove, WaitMove DEF Places
  <2>6. Persons'
    BY <1>1, <2>1, <2>2, <2>4 DEF Persons, Goto, Places, Status
  <2>7. QED BY <1>1, <1>2, <2>3, <2>5, <2>6 DEF Inv
<1>6. QED BY <1>3, <1>4, <1>5

LEMMA QueueSteps ==
    ASSUME Inv, NEW r \in Request, TakeSlot(r) \/ LeaveQueue(r) \/ Work(r)
    PROVE  Inv'
<1>1. /\ Persons /\ Slots /\ Calls /\ Counts /\ EveryWindowHolds
      /\ UNCHANGED <<redis, trusted, account, token, cache, seen, now, zset, hits, calls, restarts, life,
                     log>>
  BY DEF Inv, TakeSlot, LeaveQueue, Work, fixed, users, counters
<1>2. Counts' /\ EveryWindowHolds' /\ pc \in [Request -> Places]
  BY <1>1, SameCounts DEF Persons
<1>3. CASE TakeSlot(r)
  <2>1. /\ pc[r] = "slot" /\ Free(At[r]) /\ Goto(r, "limit") /\ by' = by
        /\ slots' = [slots EXCEPT ![At[r]] = slots[At[r]] + 1]
    BY <1>3 DEF TakeSlot
  <2>2. Slots' /\ Calls'
    BY <1>1, <1>2, <2>1, SlotMove, WaitMove DEF Places
  <2>3. Persons'
    BY <1>1, <2>1 DEF Persons, Goto, Places, Status
  <2>4. QED BY <1>1, <1>2, <2>2, <2>3 DEF Inv
<1>4. CASE LeaveQueue(r) \/ Work(r)
  <2>1. /\ pc[r] \in {"slot", "work"} /\ Goto(r, "idle")
        /\ by' = [by EXCEPT ![r] = Nobody]
        /\ pc[r] = "slot" => slots' = slots
        /\ pc[r] = "work" => slots' = [slots EXCEPT ![At[r]] = slots[At[r]] - 1]
    BY <1>4 DEF LeaveQueue, Work, Release
  <2>2. Slots' /\ Calls'
    BY <1>1, <1>2, <2>1, SlotMove, WaitMove DEF Places
  <2>3. Persons'
    BY <1>1, <2>1 DEF Persons, Goto, Places, Status
  <2>4. QED BY <1>1, <1>2, <2>2, <2>3 DEF Inv
<1>5. QED BY <1>3, <1>4

(* A call is counted, and refused only if the user is full. *)
LEMMA AllowStep ==
    ASSUME Inv, NEW r \in Request, Allow(r)
    PROVE  Inv' /\ (keptOut' <=> keptOut)
<1>1. /\ Persons /\ Slots /\ Calls /\ Counts /\ EveryWindowHolds
      /\ UNCHANGED <<redis, trusted, account, token, cache, seen, now, restarts, life>>
      /\ pc[r] = "limit" /\ calls' = calls + 1
  BY DEF Inv, Allow, fixed, users
<1>2. pc \in [Request -> Places] /\ by[r] \in User
  BY <1>1 DEF Persons
<1>3. PICK d \in 0..Skew : d <= now /\ Made(r, d)
  BY DEF Allow, Made
<1>4. calls < MaxCalls
  <2>1. r \in Waiting
    BY <1>1 DEF Waiting
  <2>2. Cardinality(Waiting) # 0
    BY <2>1, WaitingFinite, FS_EmptySet
  <2>3. QED BY <1>1, <2>2, WaitingFinite, Parameters DEF Calls
<1>5. Counts' /\ EveryWindowHolds'
  BY <1>1, <1>2, <1>3, <1>4, CallCounts
<1>6. PICK m \in Stamp : m = [t |-> now - d, n |-> calls + 1] /\ m.t \in 0..MaxTime
  <2>1. now \in Nat /\ MaxTime \in Nat /\ d \in Nat /\ now <= MaxTime
    BY <1>1, Parameters DEF Counts
  <2>2. now - d \in 0..MaxTime /\ calls + 1 \in 1..MaxCalls
    BY <1>1, <1>3, <1>4, <2>1, Parameters DEF Calls
  <2>3. [t |-> now - d, n |-> calls + 1] \in Stamp
    BY <2>2 DEF Stamp
  <2>4. QED BY <2>2, <2>3
<1>7. AllowRedis(r, m) \/ AllowResent(r, m) \/ AllowRam(r, m)
  BY <1>3, <1>6 DEF Made
<1>8. \/ Passed(r)
      \/ /\ Refused(r, m, log)
         /\ \E c \in Source : ~HasRoom(Counter(by[r], c), m.t)
      \/ Refused(r, m, log') /\ ~HasRoom(zset'[by[r]], m.t)
  <2>1. CASE AllowRedis(r, m)
    BY <2>1 DEF AllowRedis, Counter, Source
  <2>4. CASE AllowResent(r, m)
    <3>1. zset'[by[r]] = Counted(zset[by[r]], m)
      BY <1>1, <1>2, <2>4 DEF AllowResent, Counts
    <3>2. QED BY <2>4, <3>1 DEF AllowResent
  <2>2. CASE AllowRam(r, m)
    <3>1. At[r] \in Proc /\ At[r] # "redis" /\ At[r] \in Source
      BY Parameters DEF Source
    <3>2. Counter(by[r], At[r]) = hits[At[r]][by[r]]
      BY <3>1 DEF Counter
    <3>3. QED BY <2>2, <3>1, <3>2 DEF AllowRam
  <2>3. QED BY <1>7, <2>1, <2>2, <2>4
<1>9. CASE Passed(r)
  <2>1. Goto(r, "work") /\ UNCHANGED <<by, slots>> /\ (keptOut' <=> keptOut)
    BY <1>9 DEF Passed
  <2>2. Slots' /\ Calls'
    BY <1>1, <1>2, <2>1, SlotMove, WaitMove DEF Places
  <2>3. Persons'
    BY <1>1, <2>1 DEF Persons, Goto, Places, Status
  <2>4. QED BY <1>1, <1>5, <2>1, <2>2, <2>3 DEF Inv
<1>10. ASSUME NEW entries, Refused(r, m, entries),
              ~(Cardinality(Recent(entries, by[r], m.t)) < Limit)
       PROVE  Inv' /\ (keptOut' <=> keptOut)
  <2>1. /\ Goto(r, "idle") /\ by' = [by EXCEPT ![r] = Nobody]
        /\ slots' = [slots EXCEPT ![At[r]] = slots[At[r]] - 1]
    BY <1>10 DEF Refused, Release
  <2>2. Slots' /\ Calls'
    BY <1>1, <1>2, <2>1, SlotMove, WaitMove DEF Places
  <2>3. Persons'
    BY <1>1, <2>1 DEF Persons, Goto, Places, Status
  <2>4. keptOut' <=> keptOut
    BY <1>10 DEF Refused
  <2>5. QED BY <1>1, <1>5, <2>2, <2>3, <2>4 DEF Inv
<1>12. ASSUME NEW c \in Source, ~HasRoom(Counter(by[r], c), m.t)
       PROVE  ~(Cardinality(Recent(log, by[r], m.t)) < Limit)
  <2>1. /\ IsFiniteSet(Counter(by[r], c)) /\ IsFiniteSet(log) /\ m.t \in Nat
        /\ \A x \in Counter(by[r], c) : /\ x = [t |-> x.t, n |-> x.n]
                                        /\ \E e \in log : e.u = by[r] /\ e.t = x.t /\ e.n = x.n
    BY <1>1, <1>2, <1>6, Typed DEF Counts
  <2> HIDE DEF Counter
  <2>2. QED BY <1>12, <2>1, FullLog
<1>13. ASSUME ~HasRoom(zset'[by[r]], m.t)
       PROVE  ~(Cardinality(Recent(log', by[r], m.t)) < Limit)
  <2>1. /\ IsFiniteSet(log') /\ m.t \in Nat /\ zset' \in [User -> SUBSET Stamp]
        /\ \A u \in User, c \in Source :
              /\ IsFiniteSet(Counter(u, c)')
              /\ \A x \in Counter(u, c)' : \E e \in log' : e.u = u /\ e.t = x.t /\ e.n = x.n
    BY <1>5, <1>6 DEF Counts, Stamp
  <2>2. PICK u \in User : u = by[r]
    BY <1>2
  <2>3. Counter(u, "redis")' = zset'[u] /\ "redis" \in Source
    BY DEF Counter, Source
  <2>4. \A x \in Stamp : x = [t |-> x.t, n |-> x.n]
    BY DEF Stamp
  <2>5. PICK S : S = zset'[u]
    OBVIOUS
  <2>6. /\ IsFiniteSet(S) /\ S \subseteq Stamp /\ ~HasRoom(S, m.t)
        /\ \A x \in S : \E e \in log' : e.u = u /\ e.t = x.t /\ e.n = x.n
    BY <1>13, <2>1, <2>2, <2>3, <2>5
  <2>7. \A x \in S : /\ x = [t |-> x.t, n |-> x.n]
                    /\ \E e \in log' : e.u = u /\ e.t = x.t /\ e.n = x.n
    BY <2>4, <2>6
  <2>8. ~(Cardinality(Recent(log', u, m.t)) < Limit)
    BY <2>1, <2>6, <2>7, FullLog
  <2>9. QED BY <2>2, <2>8
<1>11. QED BY <1>8, <1>9, <1>10, <1>12, <1>13

LEMMA ClockSteps ==
    ASSUME Inv, Tick \/ \E p \in Proc : Reap(p)
    PROVE  Inv'
<1>1. /\ Persons /\ Slots /\ Calls /\ Counts /\ EveryWindowHolds
      /\ UNCHANGED <<redis, trusted, account, token, cache, pc, by, seen, slots, zset,
                     calls, restarts, life, log>>
  BY DEF Inv, Tick, Reap, fixed, users, requests, counters
<1>2. /\ now \in 0..MaxTime /\ now \in Nat /\ MaxTime \in Nat /\ Window \in Nat
      /\ hits \in [Proc -> [User -> SUBSET Stamp]]
  BY <1>1, Parameters DEF Counts
<1>3. Persons' /\ Slots' /\ Calls'
  BY <1>1, SameSlots, SameCalls DEF Persons
<1>4. Counts' /\ EveryWindowHolds'
  <2>1. CASE Tick
    <3>1. now' \in 0..MaxTime /\ now <= now' /\ hits' = hits
      BY <1>2, <2>1 DEF Tick, counters
    <3>2. QED BY <1>1, <1>2, <3>1, QuietCounts
  <2>2. ASSUME NEW p \in Proc, Reap(p) PROVE Counts' /\ EveryWindowHolds'
    <3> DEFINE left == [u \in User |-> IF Stale(hits[p][u]) THEN {} ELSE hits[p][u]]
    <3>1. hits' = [hits EXCEPT ![p] = left] /\ now' = now
      BY <2>2 DEF Reap
    <3>2. left \in [User -> SUBSET Stamp]
      BY <1>2
    <3>3. \A u \in User : /\ left[u] \subseteq hits[p][u]
                          /\ \A m \in hits[p][u] : m.t > now - Window => m \in left[u]
      <4>1. SUFFICES ASSUME NEW u \in User, Stale(hits[p][u]), NEW m \in hits[p][u],
                            m.t > now - Window
                     PROVE  FALSE
        OBVIOUS
      <4>2. m.t \in Nat /\ m.t <= now - Window
        BY <1>2, <4>1 DEF Stale, Stamp
      <4>3. QED BY <1>2, <4>1, <4>2
    <3> HIDE DEF left
    <3>4. hits' \in [Proc -> [User -> SUBSET Stamp]] /\ hits'[p] = left
          /\ \A q \in Proc \ {p} : hits'[q] = hits[q]
      BY <1>2, <3>1, <3>2
    <3>5. \A q \in Proc, u \in User :
             /\ hits'[q][u] \subseteq hits[q][u]
             /\ \A m \in hits[q][u] : m.t > now' - Window => m \in hits'[q][u]
      BY <3>1, <3>3, <3>4
    <3>6. QED BY <1>1, <1>2, <3>1, <3>4, <3>5, QuietCounts
  <2>3. QED BY <2>1, <2>2
<1>5. QED BY <1>1, <1>3, <1>4 DEF Inv

(* A counter is lost: what was logged at it is of an earlier life now. *)
LEMMA RebornCounts ==
    ASSUME Counts, EveryWindowHolds, NEW c \in Source, Reborn(c), UNCHANGED <<now, calls, log>>,
           zset' \in [User -> SUBSET Stamp], hits' \in [Proc -> [User -> SUBSET Stamp]],
           \A u \in User, d \in Source : Counter(u, d)' = IF d = c THEN {} ELSE Counter(u, d)
    PROVE  Counts' /\ EveryWindowHolds'
<1>1. /\ restarts \in 0..MaxRestarts /\ MaxRestarts \in Nat /\ restarts < MaxRestarts
      /\ restarts' = restarts + 1
  BY Parameters DEF Counts, Reborn
<1>2. /\ life \in [Source -> 0..restarts]
      /\ life' \in [Source -> 0..restarts']
      /\ life'[c] = restarts + 1
      /\ \A d \in Source \ {c} : life'[d] = life[d]
  <2>1. life \in [Source -> 0..restarts] /\ life' = [life EXCEPT ![c] = restarts + 1]
    BY DEF Counts, Reborn
  <2>2. restarts + 1 \in 0..restarts' /\ 0..restarts \subseteq 0..restarts'
    BY <1>1
  <2>3. QED BY <2>1, <2>2
<1>3. \A u \in User, d \in Source :
         /\ IsFiniteSet(Counter(u, d)')
         /\ \A m \in Counter(u, d)' :
               m.n <= calls' /\ \E e \in log' : e.u = u /\ e.t = m.t /\ e.n = m.n
  <2> SUFFICES ASSUME NEW u \in User, NEW d \in Source
               PROVE  /\ IsFiniteSet(Counter(u, d)')
                      /\ \A m \in Counter(u, d)' :
                            /\ m.n <= calls'
                            /\ \E e \in log' : e.u = u /\ e.t = m.t /\ e.n = m.n
    OBVIOUS
  <2>1. CASE d = c
    BY <2>1, FS_EmptySet
  <2>2. CASE d # c
    <3>1. Counter(u, d)' = Counter(u, d)
      BY <2>2
    <3>2. QED BY <3>1 DEF Counts
  <2>3. QED BY <2>1, <2>2
<1>4. ASSUME NEW e \in log'
      PROVE  /\ e.life <= restarts'
             /\ e.life = life'[e.in] /\ e.t > now' - Window =>
                   [t |-> e.t, n |-> e.n] \in Counter(e.u, e.in)'
  <2>1. /\ e.u \in User /\ e.in \in Source /\ e.life \in 0..MaxRestarts /\ e.life <= restarts
        /\ e.life = life[e.in] /\ e.t > now - Window =>
              [t |-> e.t, n |-> e.n] \in Counter(e.u, e.in)
    BY DEF Counts, EntryType
  <2>2. e.life \in Nat /\ e.life <= restarts' /\ e.life # restarts + 1
    BY <1>1, <2>1
  <2>3. QED BY <1>2, <2>1, <2>2
<1>5. Counts'
  <2>1. /\ now' \in 0..MaxTime /\ log' \subseteq EntryType /\ IsFiniteSet(log')
        /\ restarts' \in 0..MaxRestarts
    BY <1>1 DEF Counts
  <2>2. QED BY <1>2, <1>3, <1>4, <2>1 DEF Counts, EntryType, Stamp
<1>6. EveryWindowHolds'
  BY DEF EveryWindowHolds
<1>7. QED BY <1>5, <1>6

LEMMA RestartSteps ==
    ASSUME Inv, RestartRedis \/ \E p \in Proc : RestartProcess(p)
    PROVE  Inv'
<1>1. Persons /\ Slots /\ Calls /\ Counts /\ EveryWindowHolds /\ redis \in BOOLEAN
      /\ trusted \subseteq Address
  BY DEF Inv
<1>2. /\ zset \in [User -> SUBSET Stamp] /\ hits \in [Proc -> [User -> SUBSET Stamp]]
      /\ "redis" \notin Proc
  BY <1>1, Parameters DEF Counts
<1>3. CASE RestartRedis
  <2>1. /\ UNCHANGED <<redis, trusted, account, token, pc, by, seen, slots, now, hits, calls, log>>
        /\ zset' = [u \in User |-> {}] /\ cache' = [u \in User |-> "none"]
        /\ Reborn("redis")
    BY <1>3 DEF RestartRedis, fixed, requests
  <2>2. Persons' /\ Slots' /\ Calls'
    BY <1>1, <2>1, SameSlots, SameCalls DEF Persons
  <2>3. \A u \in User, d \in Source :
           Counter(u, d)' = IF d = "redis" THEN {} ELSE Counter(u, d)
    BY <2>1 DEF Counter
  <2>4. "redis" \in Source /\ zset' \in [User -> SUBSET Stamp]
        /\ hits' \in [Proc -> [User -> SUBSET Stamp]]
    BY <1>2, <2>1 DEF Source
  <2>5. Counts' /\ EveryWindowHolds'
    BY <1>1, <2>1, <2>3, <2>4, RebornCounts
  <2>6. QED BY <1>1, <2>1, <2>2, <2>5 DEF Inv
<1>4. ASSUME NEW p \in Proc, RestartProcess(p)
      PROVE  Inv'
  <2>1. /\ UNCHANGED <<redis, trusted, account, token, cache, now, zset, calls, log>>
        /\ hits' = [hits EXCEPT ![p] = [u \in User |-> {}]]
        /\ slots' = [slots EXCEPT ![p] = 0]
        /\ pc' = [r \in Request |-> IF At[r] = p THEN "idle" ELSE pc[r]]
        /\ by' = [r \in Request |-> IF At[r] = p THEN Nobody ELSE by[r]]
        /\ seen' = [r \in Request |-> IF At[r] = p THEN "none" ELSE seen[r]]
        /\ Reborn(p)
    BY <1>4 DEF RestartProcess, fixed, users
  <2>2. Persons'
    BY <1>1, <2>1 DEF Persons, Places, Status
  <2>3. Slots'
    <3>1. Holding(p)' = {}
      BY <2>1 DEF Holding
    <3>2. \A q \in Proc \ {p} : Holding(q)' = Holding(q)
      BY <2>1 DEF Holding
    <3>3. /\ slots' \in [Proc -> 0..MaxSlots] /\ slots'[p] = 0
          /\ \A q \in Proc \ {p} : slots'[q] = slots[q]
      BY <1>1, <2>1, Parameters DEF Slots
    <3>4. \A q \in Proc : slots'[q] = Cardinality(Holding(q)')
      BY <1>1, <3>1, <3>2, <3>3, FS_EmptySet DEF Slots
    <3>5. QED BY <3>3, <3>4 DEF Slots
  <2>4. Calls'
    <3>1. Waiting' \subseteq Waiting
      BY <2>1 DEF Waiting
    <3>2. IsFiniteSet(Waiting') /\ Cardinality(Waiting') \in Nat
          /\ Cardinality(Waiting') <= Cardinality(Waiting)
      BY <3>1, WaitingFinite, FS_Subset, FS_CardinalityType
    <3>3. QED BY <1>1, <2>1, <3>2, WaitingFinite, Parameters DEF Calls
  <2>5. hits' \in [Proc -> [User -> SUBSET Stamp]]
    BY <1>2, <2>1
  <2>6. \A u \in User, d \in Source : Counter(u, d)' = IF d = p THEN {} ELSE Counter(u, d)
    BY <1>2, <2>1 DEF Counter, Source
  <2>7. p \in Source /\ zset' \in [User -> SUBSET Stamp]
    BY <1>2, <2>1 DEF Source
  <2>8. Counts' /\ EveryWindowHolds'
    BY <1>1, <2>1, <2>5, <2>6, <2>7, RebornCounts
  <2>9. QED BY <1>1, <2>1, <2>2, <2>3, <2>4, <2>8 DEF Inv
<1>5. QED BY <1>3, <1>4

LEMMA InitInv == Init => Inv /\ ~turnedAway /\ ~keptOut
<1> SUFFICES ASSUME Init PROVE Inv /\ ~turnedAway /\ ~keptOut
  OBVIOUS
<1>1. redis \in BOOLEAN /\ trusted \subseteq Address /\ ~turnedAway /\ ~keptOut
  BY GateAssumption DEF Init
<1>2. Persons
  BY DEF Init, Persons, Status, Places
<1>3. /\ \A p \in Proc : Holding(p) = {}
      /\ Waiting = {}
  BY DEF Init, Holding, Waiting
<1>4. Slots
  <2>1. \A p \in Proc : Cardinality(Holding(p)) = 0
    BY <1>3, FS_EmptySet
  <2>2. slots = [p \in Proc |-> 0] /\ 0 \in 0..MaxSlots
    BY Parameters DEF Init
  <2>3. QED BY <2>1, <2>2 DEF Slots
<1>5. Calls
  <2>1. Cardinality(Waiting) = 0
    BY <1>3, FS_EmptySet
  <2>2. calls = 0
    BY DEF Init
  <2>3. QED BY <2>1, <2>2, Parameters DEF Calls
<1>6. \A u \in User, c \in Source : Counter(u, c) = {}
  BY DEF Init, Counter, Source
<1>7. Counts
  <2>1. /\ now \in 0..MaxTime /\ log \subseteq EntryType /\ IsFiniteSet(log) /\ log = {}
        /\ restarts \in 0..MaxRestarts /\ life \in [Source -> 0..restarts]
    BY FS_EmptySet, Parameters DEF Init
  <2>2. zset \in [User -> SUBSET Stamp] /\ hits \in [Proc -> [User -> SUBSET Stamp]]
    BY DEF Init
  <2>3. \A u \in User, c \in Source : IsFiniteSet(Counter(u, c))
    BY <1>6, FS_EmptySet
  <2>4. QED BY <1>6, <2>1, <2>2, <2>3 DEF Counts
<1>8. EveryWindowHolds
  <2>1. \A u \in User, c \in Source, k \in 0..MaxRestarts, x \in 0..MaxTime :
           Logged(u, c, k, x) = {}
    BY DEF Logged, Init
  <2>2. Cardinality({}) = 0 /\ 0 <= Limit
    BY FS_EmptySet, Parameters
  <2>3. \A u \in User, c \in Source, k \in 0..MaxRestarts, x \in 0..MaxTime :
           Cardinality(Logged(u, c, k, x)) <= Limit
    BY <2>1, <2>2
  <2>4. QED BY <2>3, Windows
<1>9. QED BY <1>1, <1>2, <1>4, <1>5, <1>7, <1>8 DEF Inv

LEMMA Step == Inv /\ [Next]_vars => Inv' /\ (turnedAway' <=> turnedAway) /\ (keptOut' <=> keptOut)
<1> SUFFICES ASSUME Inv, [Next]_vars
             PROVE  Inv' /\ (turnedAway' <=> turnedAway) /\ (keptOut' <=> keptOut)
  OBVIOUS
<1>1. ASSUME NEW u \in User, Register(u) \/ ApproveUser(u) \/ Login(u) \/ Expire(u)
      PROVE  Inv' /\ (turnedAway' <=> turnedAway) /\ (keptOut' <=> keptOut)
  BY <1>1, UserSteps DEF Register, ApproveUser, Login, Expire, counters
<1>2. ASSUME NEW r \in Request,
             (\E u \in User : LookupHit(r, u) \/ LookupMiss(r, u)) \/ LookupPut(r)
      PROVE  Inv' /\ (turnedAway' <=> turnedAway) /\ (keptOut' <=> keptOut)
  BY <1>2, JudgeSteps DEF LookupHit, LookupMiss, LookupPut, counters
<1>3. ASSUME NEW r \in Request, TakeSlot(r) \/ LeaveQueue(r) \/ Work(r)
      PROVE  Inv' /\ (turnedAway' <=> turnedAway) /\ (keptOut' <=> keptOut)
  BY <1>3, QueueSteps DEF TakeSlot, LeaveQueue, Work, counters
<1>4. ASSUME NEW r \in Request, Allow(r)
      PROVE  Inv' /\ (turnedAway' <=> turnedAway) /\ (keptOut' <=> keptOut)
  BY <1>4, AllowStep DEF Allow
<1>5. CASE Tick \/ \E p \in Proc : Reap(p)
  BY <1>5, ClockSteps DEF Tick, Reap, counters
<1>8. CASE RestartRedis \/ \E p \in Proc : RestartProcess(p)
  BY <1>8, RestartSteps DEF RestartRedis, RestartProcess
<1>6. CASE UNCHANGED vars
  <2>1. /\ UNCHANGED <<redis, trusted, account, token, cache, pc, by, seen, slots, now, zset,
                       hits, calls, restarts, life, log, turnedAway, keptOut>>
    BY <1>6 DEF vars
  <2>2. /\ Persons /\ Slots /\ Calls /\ Counts /\ EveryWindowHolds
    BY DEF Inv
  <2>3. Persons' /\ Slots' /\ Calls' /\ Counts' /\ EveryWindowHolds'
    BY <2>1, <2>2, SameSlots, SameCalls, SameCounts DEF Persons
  <2>4. QED BY <2>1, <2>3 DEF Inv
<1>7. QED BY <1>1, <1>2, <1>3, <1>4, <1>5, <1>6, <1>8 DEF Next

LEMMA Always == Spec => [](Inv /\ ~turnedAway /\ ~keptOut)
<1>1. Inv /\ ~turnedAway /\ ~keptOut /\ [Next]_vars => (Inv /\ ~turnedAway /\ ~keptOut)'
  BY Step
<1>2. QED BY <1>1, InitInv, PTL DEF Spec

(* What a step does to the two flags keeps them BOOLEAN. *)
LEMMA Flags == Inv /\ ~turnedAway /\ ~keptOut =>
                 (turnedAway \in BOOLEAN /\ keptOut \in BOOLEAN => TypeOK)
<1> SUFFICES ASSUME Inv, turnedAway \in BOOLEAN, keptOut \in BOOLEAN PROVE TypeOK
  OBVIOUS
<1>1. Persons /\ Slots /\ Calls /\ Counts /\ redis \in BOOLEAN /\ trusted \subseteq Address
  BY DEF Inv
<1>2. calls \in 0..MaxCalls
  BY <1>1, WaitingFinite, Parameters DEF Calls
<1>3. account \in [User -> Status] /\ cache \in [User -> Status]
  BY <1>1 DEF Persons, Status
<1>4. /\ token \subseteq User /\ by \in [Request -> User \cup {Nobody}]
      /\ seen \in [Request -> Status]
      /\ pc \in [Request -> {"idle", "put", "slot", "limit", "work"}]
  BY <1>1 DEF Persons, Places
<1>5. /\ now \in 0..MaxTime /\ zset \in [User -> SUBSET Stamp]
      /\ hits \in [Proc -> [User -> SUBSET Stamp]]
      /\ log \subseteq [u : User, t : 0..MaxTime, n : 1..MaxCalls, in : Source,
                       life : 0..MaxRestarts]
      /\ restarts \in 0..MaxRestarts /\ life \in [Source -> 0..MaxRestarts]
  BY <1>1, Parameters DEF Counts, EntryType
<1>6. slots \in [Proc -> 0..MaxSlots]
  BY <1>1 DEF Slots
<1>7. QED BY <1>1, <1>2, <1>3, <1>4, <1>5, <1>6 DEF TypeOK

LEMMA FlagTypes == Spec => [](turnedAway \in BOOLEAN /\ keptOut \in BOOLEAN)
<1> DEFINE B == turnedAway \in BOOLEAN /\ keptOut \in BOOLEAN
<1>1. Init => B
  BY DEF Init
<1>2. B /\ [Next]_vars => B'
  <2> SUFFICES ASSUME B, [Next]_vars PROVE B'
    OBVIOUS
  <2>1. turnedAway' = turnedAway \/ \E x \in BOOLEAN : turnedAway' = x
    BY Zenon DEF Next, vars, Register, ApproveUser, Login, Expire, LookupHit, LookupMiss,
       LookupPut, TakeSlot, LeaveQueue, Allow, Work, Reap, Tick, Judge, RestartRedis,
       RestartProcess
  <2>4. ASSUME NEW r, NEW m, AllowResent(r, m)
        PROVE  keptOut' = keptOut \/ \E x \in BOOLEAN : keptOut' = x
    <3>1. Passed(r) \/ \E entries : Refused(r, m, entries)
      BY <2>4 DEF AllowResent
    <3>2. QED BY <3>1, Zenon DEF Passed, Refused
  <2>2. keptOut' = keptOut \/ \E x \in BOOLEAN : keptOut' = x
    BY <2>4, Zenon DEF Next, vars, Register, ApproveUser, Login, Expire, LookupHit, LookupMiss,
       LookupPut, TakeSlot, LeaveQueue, Allow, AllowRedis, AllowRam, Passed,
       Refused, Work, Reap, Tick, counters, RestartRedis, RestartProcess
  <2>3. QED BY <2>1, <2>2
<1>3. QED BY <1>1, <1>2, PTL DEF Spec

(* The type invariant: no process has more calls under way behind its        *)
(* ConcurrencyLimit than slots, or gives back a slot it has not taken.       *)
THEOREM TypeCorrect == Spec => []TypeOK
BY Always, Flags, FlagTypes, PTL

(* No counter lets more than Limit calls of a user through in any window of  *)
(* Window - Skew, whatever order they come in and whatever reap drops        *)
(* (keyedLimiter.allow, slidingWindowScript).                                *)
THEOREM WindowsHold == Spec => []EveryWindowHolds
<1>1. Inv => EveryWindowHolds
  BY DEF Inv
<1>2. QED BY <1>1, Always, PTL

(* Whoever is refused has had Limit calls let through in the Window before,  *)
(* also when Redis comes and goes (keyedLimiter.allow).                      *)
THEOREM OnlyTheFullAreRefused == Spec => []RefusedOnlyWhenFull
<1>1. ~keptOut => RefusedOnlyWhenFull
  BY DEF RefusedOnlyWhenFull
<1>2. QED BY <1>1, Always, PTL

(* An account that holds a token is never turned away for a status that was  *)
(* cached before it was approved (lookupUser, InvalidateUser).               *)
THEOREM HoldersAreServed == Spec => []ActiveIsServed
<1>1. ~turnedAway => ActiveIsServed
  BY DEF ActiveIsServed
<1>2. QED BY <1>1, Always, PTL
-----------------------------------------------------------------------------
(* ClientIP *)

Hop == Address \cup {"", "junk"}

(* The last hop that tells is the one that counts. *)
Tells(hop) == hop # "" /\ hop \notin trusted

LEMMA LastOne ==
    ASSUME NEW xff, Len(xff) \in Nat, NEW k \in 1..Len(xff), Tells(xff[k]),
           \A i \in 1..Len(xff) : i > k => ~Tells(xff[i])
    PROVE  LET telling == {i \in 1..Len(xff) : Tells(xff[i])}
           IN  k \in telling /\ (CHOOSE i \in telling : \A j \in telling : j <= i) = k
<1> DEFINE telling == {i \in 1..Len(xff) : Tells(xff[i])}
           last == CHOOSE i \in telling : \A j \in telling : j <= i
<1>1. k \in telling
  OBVIOUS
<1>2. \A i \in telling : i <= k /\ i \in Int
  OBVIOUS
<1>3. last = k
  <2> HIDE DEF telling
  <2>1. ASSUME NEW i \in telling PROVE (\A j \in telling : j <= i) <=> i = k
    BY <1>1, <1>2
  <2>2. k \in telling /\ (\A j \in telling : j <= k)
    BY <1>1, <1>2
  <2>3. last \in telling /\ (\A j \in telling : j <= last)
    BY <2>2
  <2>4. QED BY <2>1, <2>3
<1>4. QED BY <1>1, <1>3

LEMMA LastHopTells ==
    ASSUME NEW remote \in trusted, NEW client, client # "junk", NEW xff, Len(xff) \in Nat,
           NEW k \in 1..Len(xff), Tells(xff[k]), xff[k] = client,
           \A i \in 1..Len(xff) : i > k => ~Tells(xff[i])
    PROVE  ClientIP(remote, xff) = client
<1> DEFINE telling == {i \in 1..Len(xff) : Tells(xff[i])}
           last == CHOOSE i \in telling : \A j \in telling : j <= i
<1>1. k \in telling /\ last = k
  BY LastOne
<1>2. ClientIP(remote, xff) =
         IF remote \notin trusted \/ telling = {} \/ xff[last] = "junk" THEN remote ELSE xff[last]
  BY Zenon DEF ClientIP, Tells
<1> HIDE DEF telling, last
<1>3. QED BY <1>1, <1>2, Zenon

(* Whatever is written in front of the client's own hop, and however many   *)
(* proxies the request has passed since.                                    *)
LEMMA FirstHopCounts ==
    ASSUME trusted \subseteq Address, NEW client \in Address \ trusted, NEW remote \in trusted,
           NEW forged \in Seq(Hop), NEW hops \in Seq(trusted)
    PROVE  ClientIP(remote, forged \o <<client>> \o hops) = client
<1> DEFINE front == forged \o <<client>>
           xff == front \o hops
           k == Len(forged) + 1
           n == k + Len(hops)
<1>1. client # "junk" /\ Tells(client)
  BY GateAssumption DEF Tells
<1>2. /\ <<client>> \in Seq(Hop) /\ Len(<<client>>) = 1 /\ <<client>>[1] = client
      /\ hops \in Seq(Hop) /\ Len(forged) \in Nat /\ Len(hops) \in Nat
  <2>1. trusted \subseteq Hop /\ client \in Hop
    BY DEF Hop
  <2>2. hops \in Seq(Hop) /\ Len(hops) \in Nat /\ Len(forged) \in Nat
    BY <2>1, SeqMonotonic, LenProperties
  <2>3. <<client>> \in Seq(Hop) /\ Len(<<client>>) = 1 /\ <<client>>[1] = client
    BY <2>1
  <2>4. QED BY <2>2, <2>3
<1>3. front \in Seq(Hop) /\ Len(front) = k /\ front[k] = client
  <2>1. /\ front \in Seq(Hop) /\ Len(front) = Len(forged) + 1
        /\ \A i \in 1..Len(forged) + 1 : front[i] = IF i <= Len(forged) THEN forged[i]
                                                  ELSE <<client>>[i - Len(forged)]
    BY <1>2, ConcatProperties
  <2>2. k \in 1..Len(forged) + 1 /\ ~(k <= Len(forged)) /\ k - Len(forged) = 1
    BY <1>2
  <2> HIDE DEF front
  <2>3. QED BY <1>2, <2>1, <2>2
<1> HIDE DEF front
<1>4. /\ Len(xff) = n /\ n \in Nat /\ k \in 1..n
      /\ \A i \in 1..n : xff[i] = IF i <= k THEN front[i] ELSE hops[i - k]
  <2>1. /\ Len(xff) = Len(front) + Len(hops)
        /\ \A i \in 1..Len(front) + Len(hops) :
              xff[i] = IF i <= Len(front) THEN front[i] ELSE hops[i - Len(front)]
    <3>1. front \in Seq(Hop) /\ hops \in Seq(Hop)
      BY <1>2, <1>3
    <3>2. QED BY ONLY <3>1, ConcatProperties DEF xff
  <2>2. n \in Nat /\ k \in 1..n
    BY <1>2
  <2>3. Len(front) = k
    BY <1>3
  <2> HIDE DEF xff, k
  <2>4. QED BY <2>1, <2>2, <2>3
<1>5. xff[k] = client
  <2> HIDE DEF xff
  <2>1. QED BY <1>2, <1>3, <1>4
<1>6. ASSUME NEW i \in 1..n, i > k PROVE ~Tells(xff[i])
  <2> HIDE DEF xff
  <2>1. i - k \in 1..Len(hops) /\ ~(i <= k)
    BY <1>2, <1>6
  <2>2. hops[i - k] \in trusted
    BY <2>1, ElementOfSeq
  <2>3. QED BY <1>4, <2>1, <2>2 DEF Tells
<1> HIDE DEF xff, k, n
<1>7. ClientIP(remote, xff) = client
  <2>1. /\ Len(xff) \in Nat /\ k \in 1..Len(xff)
        /\ \A i \in 1..Len(xff) : i > k => ~Tells(xff[i])
    BY <1>4, <1>6
  <2>2. QED BY <1>1, <1>5, <2>1, LastHopTells
<1>8. QED BY <1>7 DEF xff, front

(* The header of a client that is no proxy is not looked at. *)
LEMMA NoProxyNoHops ==
    ASSUME NEW client, client \notin trusted, NEW xff
    PROVE  ClientIP(client, xff) = client
BY DEF ClientIP

(* ForgedHopsAreIgnored for headers of any length: any number of forged     *)
(* hops in front, any number of proxies behind.                             *)
ForgedHeadersAreIgnored ==
    \A client \in Address \ trusted, forged \in Seq(Hop) :
       /\ ClientIP(client, forged) = client
       /\ \A hops \in Seq(trusted), remote \in trusted :
             ClientIP(remote, forged \o <<client>> \o hops) = client

(* The address the limits on login, register and refresh count by is the    *)
(* one the client has, however long a header it sends and however many      *)
(* trusted proxies add to it (ClientIP, SetTrustedProxies).                 *)
THEOREM HeadersCannotLie == Spec => []ForgedHeadersAreIgnored
<1>1. Inv => ForgedHeadersAreIgnored
  <2> SUFFICES ASSUME Inv, NEW client \in Address \ trusted, NEW forged \in Seq(Hop)
               PROVE  /\ ClientIP(client, forged) = client
                      /\ \A hops \in Seq(trusted), remote \in trusted :
                            ClientIP(remote, forged \o <<client>> \o hops) = client
    BY DEF ForgedHeadersAreIgnored
  <2>1. trusted \subseteq Address
    BY DEF Inv
  <2>2. QED BY <2>1, FirstHopCounts, NoProxyNoHops
<1>2. QED BY <1>1, Always, PTL

(* In particular for the headers of up to two hops that TLC looks at        *)
(* (ClientIP).                                                              *)
THEOREM ForgedHops == Spec => []ForgedHopsAreIgnored
<1>1. ForgedHeadersAreIgnored => ForgedHopsAreIgnored
  <2>1. ASSUME NEW S PROVE AtMostOne(S) \subseteq Seq(S)
    <3>1. \A x \in S : <<x>> \in Seq(S)
      OBVIOUS
    <3>2. << >> \in Seq(S)
      OBVIOUS
    <3>3. QED BY <3>1, <3>2 DEF AtMostOne
  <2>2. ASSUME ForgedHeadersAreIgnored, NEW client \in Address \ trusted,
               NEW forged \in AtMostOne(Address \cup {"", "junk"})
        PROVE  /\ ClientIP(client, forged) = client
               /\ \A hops \in AtMostOne(trusted) : \A remote \in trusted :
                     ClientIP(remote, forged \o <<client>> \o hops) = client
    <3>1. forged \in Seq(Hop) /\ AtMostOne(trusted) \subseteq Seq(trusted)
      BY <2>1 DEF Hop
    <3>2. \A h \in Seq(Hop) :
             /\ ClientIP(client, h) = client
             /\ \A hops \in Seq(trusted), remote \in trusted :
                   ClientIP(remote, h \o <<client>> \o hops) = client
      BY <2>2, Zenon DEF ForgedHeadersAreIgnored
    <3>3. QED BY <3>1, <3>2, Zenon
  <2>3. QED BY <2>2 DEF ForgedHopsAreIgnored
<1>2. QED BY <1>1, HeadersCannotLie, PTL

=============================================================================
