------------------------------ MODULE TaskMap ------------------------------
(***************************************************************************)
(* TaskManager of one process: the map from task ids to TaskItems, seen    *)
(* from one task.  Lookups (Get) build an item from the record in Redis    *)
(* when the map has none, runs (GetOrCreate) build one under the lock of   *)
(* the map, and Cleanup evicts.  Unlike SynthTask and SseStream, which     *)
(* follow what is done to one item, this module counts the items: two may  *)
(* exist side by side, one of them no longer in the map.                   *)
(***************************************************************************)
EXTENDS Integers

CONSTANTS
    MaxItems,   \* bound: the TaskItems that can be built
    Lookup,     \* calls of Get, by pollers and by viewers of a stream
    Run,        \* runs of the task in this process
    Nobody,     \* the lock is free
    Retention,  \* taskRetention, in ticks
    Lifetime,   \* taskMaxLifetime, in ticks
    MaxTime,    \* bound: the model's last tick
    MaxFaults   \* bound: calls of Redis that fail or time out

ASSUME ItemAssumption ==
    /\ MaxItems \in Nat /\ Nobody \notin Run
ASSUME TimeAssumption ==
    /\ Retention \in Nat /\ Lifetime \in Nat /\ Retention <= Lifetime
    /\ MaxTime \in Nat /\ MaxFaults \in Nat

VARIABLES
    record,  \* the status under task:<id> in Redis, and its created_at
    items,   \* the TaskItems: status, created_at, who watches them
    built,   \* how many items have been built
    map,     \* TaskManager.tasks, for this task
    lock,    \* the run that holds TaskManager.mu over a round trip
    lookups, \* the calls of Get: where they are, what they hold
    runs,    \* the runs: where they are, what they hold
    now,     \* the clock
    faults,  \* how much of MaxFaults is spent
    severed, \* history: items that left the map while somebody used them
    undone,  \* history: a final record was overwritten by one that is not
    robbed   \* history: lookups whose answer an older read has overwritten

vars == <<record, items, built, map, lock, lookups, runs, now, faults, severed, undone, robbed>>

Item == 1..MaxItems
NoItem == 0 \* no entry in the map; a nil pointer

Status == {"none", "processing", "done"}
Blank == [status |-> "none", born |-> 0, watchers |-> {}]

Init ==
    /\ record = [status |-> "none", born |-> 0]
    /\ items = [i \in Item |-> Blank]
    /\ built = 0
    /\ map = NoItem
    /\ lock = Nobody
    /\ lookups = [g \in Lookup |-> [at |-> "idle", item |-> NoItem, own |-> NoItem,
                                    read |-> "none", born |-> 0, late |-> FALSE]]
    /\ runs = [r \in Run |-> [at |-> "idle", item |-> NoItem, read |-> "none"]]
    /\ now = 0
    /\ faults = 0
    /\ severed = {}
    /\ undone = FALSE
    /\ robbed = {}

----------------------------------------------------------------------------
Final(status) == status = "done"
Free == lock = Nobody

\* Who uses an item: the run that writes to it, a viewer who watches it, a
\* lookup that has it in hand.
HeldByRun(i) == \E r \in Run : runs[r].item = i /\ runs[r].at # "over"
InHand(i) == \E g \in Lookup : lookups[g].item = i \/ lookups[g].own = i
InUse(i) == HeldByRun(i) \/ items[i].watchers # {} \/ InHand(i)

Store(status, born) ==
    /\ record' = [status |-> status, born |-> born]
    /\ undone' = (undone \/ (Final(record.status) /\ ~Final(status)))

\* TaskItems are numbered in the order in which they are built.
NewItem(i, status, born) ==
    /\ i = built + 1
    /\ built' = i
    /\ items' = [items EXCEPT ![i] = [status |-> status, born |-> born, watchers |-> {}]]

Installed(i, late) ==
    [at |-> "read", item |-> NoItem, own |-> i, read |-> "none", born |-> 0, late |-> late]

Step(g, at) == [lookups EXCEPT ![g].at = at]

----------------------------------------------------------------------------
(* External: another process records the task, and its end.                *)

Elsewhere ==
    /\ \/ record.status = "none" /\ Store("processing", now)
       \/ record.status = "processing" /\ Store("done", record.born)
    /\ UNCHANGED <<items, built, map, lock, lookups, runs, now, faults, severed, robbed>>

----------------------------------------------------------------------------
(* Get.                                                                    *)

\* The look into the map; a copy that is final is not read again.
GetLook(g) ==
    /\ lookups[g].at = "idle" /\ Free
    /\ lookups' = [lookups EXCEPT ![g] =
          [at |-> IF map = NoItem THEN "fetch"
                  ELSE IF Final(items[map].status) THEN "got" ELSE "reread",
           item |-> map, own |-> NoItem, read |-> "none", born |-> 0,
           late |-> Final(record.status)]]
    /\ UNCHANGED <<record, items, built, map, lock, runs, now, faults, severed, undone, robbed>>

(* Mutant: what RAM has is not read again. *)
GetRereadNot(g) ==
    /\ lookups[g].at = "reread"
    /\ lookups' = Step(g, "got")
    /\ UNCHANGED <<record, items, built, map, lock, runs, now, faults, severed, undone, robbed>>

\* A copy that is not final is compared with Redis: the record is read ...
GetReread(g) ==
    /\ lookups[g].at = "reread"
    /\ lookups' = [lookups EXCEPT ![g].at = IF record.status = "none" THEN "got" ELSE "apply",
                                  ![g].read = record.status]
    /\ UNCHANGED <<record, items, built, map, lock, runs, now, faults, severed, undone, robbed>>

\* The lookups that have an answer from item i, or will read it next.
AnsweredBy(i) == {g \in Lookup : \/ lookups[g].at = "got" /\ lookups[g].item = i
                                 \/ lookups[g].at = "read" /\ lookups[g].own = i}

\* ... and a round trip later applyRemoteState puts it over the copy,
\* whatever that has become meanwhile.
GetApply(g) ==
    /\ lookups[g].at = "apply"
    /\ LET i == lookups[g].item IN
          /\ items' = [items EXCEPT ![i].status = lookups[g].read]
          /\ robbed' = IF Final(items[i].status) /\ ~Final(lookups[g].read)
                       THEN robbed \cup AnsweredBy(i) ELSE robbed
    /\ lookups' = Step(g, "got")
    /\ UNCHANGED <<record, built, map, lock, runs, now, faults, severed, undone>>

\* The map has nothing, and Redis has: a record becomes an item of its own.
GetFetch(g) ==
    /\ lookups[g].at = "fetch"
    /\ lookups' = [lookups EXCEPT ![g].at = IF record.status = "none" THEN "over" ELSE "install",
                                  ![g].read = record.status, ![g].born = record.born]
    /\ UNCHANGED <<record, items, built, map, lock, runs, now, faults, severed, undone, robbed>>

\* The call fails: Get answers with the copy in RAM, or with nothing.
GetFails(g) ==
    /\ lookups[g].at \in {"reread", "fetch"}
    /\ faults < MaxFaults /\ faults' = faults + 1
    /\ lookups' = [lookups EXCEPT ![g].late = FALSE,
          ![g].at = IF lookups[g].at = "fetch" THEN "over" ELSE "got"]
    /\ UNCHANGED <<record, items, built, map, lock, runs, now, severed, undone, robbed>>

(* Mutant: the item is built and not put into the map. *)
GetInstallNot(g) ==
    /\ lookups[g].at = "install" /\ Free
    /\ \E i \in Item : /\ NewItem(i, lookups[g].read, lookups[g].born)
                       /\ lookups' = [lookups EXCEPT ![g] = Installed(i, lookups[g].late)]
    /\ UNCHANGED <<record, map, lock, runs, now, faults, severed, undone, robbed>>

\* The item goes into the map, whether or not one has got there meanwhile.
GetInstall(g) ==
    /\ lookups[g].at = "install" /\ Free
    /\ \E i \in Item :
          /\ NewItem(i, lookups[g].read, lookups[g].born)
          /\ map' = i
          /\ lookups' = [lookups EXCEPT ![g] = Installed(i, lookups[g].late)]
    /\ severed' = IF map = NoItem THEN severed ELSE severed \cup {map}
    /\ UNCHANGED <<record, lock, runs, now, faults, undone, robbed>>

\* What is returned is read from the map once more, without the lock.
GetReadBack(g) ==
    /\ lookups[g].at = "read"
    /\ lookups' = [lookups EXCEPT ![g].at = "got", ![g].item = map]
    /\ UNCHANGED <<record, items, built, map, lock, runs, now, faults, severed, undone, robbed>>

\* The caller reads the status, or watches the item, and is done with it; a
\* nil item ends the request with a panic.
Over == [at |-> "over", item |-> NoItem, own |-> NoItem, read |-> "none", born |-> 0,
         late |-> FALSE]

GetAnswer(g) ==
    /\ lookups[g].at = "got"
    /\ lookups' = [lookups EXCEPT ![g] = Over]
    /\ UNCHANGED <<record, items, built, map, lock, runs, now, faults, severed, undone, robbed>>

Subscribe(g) ==
    /\ lookups[g].at = "got" /\ lookups[g].item # NoItem
    /\ items' = [items EXCEPT ![lookups[g].item].watchers = @ \cup {g}]
    /\ lookups' = [lookups EXCEPT ![g] = Over]
    /\ UNCHANGED <<record, built, map, lock, runs, now, faults, severed, undone, robbed>>

Unsubscribe(g) ==
    /\ \E i \in Item :
          /\ g \in items[i].watchers
          /\ items' = [items EXCEPT ![i].watchers = @ \ {g}]
    /\ UNCHANGED <<record, built, map, lock, lookups, runs, now, faults, severed, undone, robbed>>

----------------------------------------------------------------------------
(* GetOrCreate, and the run that uses the item.                            *)

\* An item in the map is used; else the lock is kept over both round trips.
CreateLook(r) ==
    /\ runs[r].at = "idle" /\ Free
    /\ IF map = NoItem
       THEN /\ lock' = r
            /\ runs' = [runs EXCEPT ![r].at = "read"]
       ELSE /\ UNCHANGED lock
            /\ runs' = [runs EXCEPT ![r] = [at |-> "running", item |-> map, read |-> "none"]]
    /\ UNCHANGED <<record, items, built, map, lookups, now, faults, severed, undone, robbed>>

\* The record is followed if there is one and Redis answers.
CreateRead(r) ==
    /\ runs[r].at = "read"
    /\ \/ UNCHANGED faults /\ runs' = [runs EXCEPT ![r].at = "write", ![r].read = record.status]
       \/ /\ faults < MaxFaults /\ faults' = faults + 1
          /\ runs' = [runs EXCEPT ![r].at = "write"]
    /\ UNCHANGED <<record, items, built, map, lock, lookups, now, severed, undone, robbed>>

Fresh(r) == IF runs[r].read = "none" THEN "processing" ELSE runs[r].read

(* Mutant: a write that fails returns with the lock held. *)
CreateWriteLocked(r) ==
    /\ runs[r].at = "write"
    /\ \E i \in Item :
          /\ NewItem(i, Fresh(r), now)
          /\ map' = i
          /\ runs' = [runs EXCEPT ![r].at = "running", ![r].item = i]
    /\ \/ UNCHANGED faults /\ Store(Fresh(r), now) /\ lock' = Nobody
       \/ faults < MaxFaults /\ faults' = faults + 1 /\ UNCHANGED <<record, undone, lock>>
    /\ UNCHANGED <<lookups, now, severed, robbed>>

\* The item enters the map; the record is written, whatever it is by now.
CreateWrite(r) ==
    /\ runs[r].at = "write"
    /\ \E i \in Item :
          /\ NewItem(i, Fresh(r), now)
          /\ map' = i
          /\ runs' = [runs EXCEPT ![r].at = "running", ![r].item = i]
    /\ \/ UNCHANGED faults /\ Store(Fresh(r), now)
       \/ faults < MaxFaults /\ faults' = faults + 1 /\ UNCHANGED <<record, undone>>
    /\ lock' = Nobody
    /\ UNCHANGED <<lookups, now, severed, robbed>>

\* Notify: the end goes to the item of the run, and to Redis.
RunEnds(r) ==
    /\ runs[r].at = "running"
    /\ items' = [items EXCEPT ![runs[r].item].status = "done"]
    /\ \/ UNCHANGED faults /\ Store("done", items[runs[r].item].born)
       \/ faults < MaxFaults /\ faults' = faults + 1 /\ UNCHANGED <<record, undone>>
    /\ runs' = [runs EXCEPT ![r] = [at |-> "over", item |-> NoItem, read |-> "none"]]
    /\ UNCHANGED <<built, map, lock, lookups, now, severed, robbed>>

----------------------------------------------------------------------------
Age(i) == now - items[i].born

(* Mutant: watchers are not looked at. *)
EvictableUnwatched(i) ==
    /\ Age(i) > Retention
    /\ Final(items[i].status) \/ Age(i) > Lifetime

\* finishedAndIdle, and the ceiling for what is not.
FinishedAndIdle(i) == Final(items[i].status) /\ items[i].watchers = {}
Evictable(i) ==
    /\ Age(i) > Retention
    /\ FinishedAndIdle(i) \/ Age(i) > Lifetime

Cleanup ==
    /\ Free /\ map # NoItem /\ Evictable(map)
    /\ map' = NoItem
    /\ severed' = IF \/ Age(map) > Lifetime \/ InHand(map)
                     \/ HeldByRun(map) /\ Final(items[map].status)
                  THEN severed \cup {map} ELSE severed
    /\ UNCHANGED <<record, items, built, lock, lookups, runs, now, faults, undone, robbed>>

Tick ==
    /\ now < MaxTime
    /\ now' = now + 1
    /\ UNCHANGED <<record, items, built, map, lock, lookups, runs, faults, severed, undone, robbed>>

GetSteps(g) ==
    \/ GetLook(g) \/ GetReread(g) \/ GetApply(g) \/ GetFetch(g) \/ GetFails(g)
    \/ GetInstall(g) \/ GetReadBack(g) \/ GetAnswer(g) \/ Subscribe(g)

RunSteps(r) == CreateLook(r) \/ CreateRead(r) \/ CreateWrite(r) \/ RunEnds(r)

Next ==
    \/ \E g \in Lookup : GetSteps(g) \/ Unsubscribe(g)
    \/ \E r \in Run : RunSteps(r)
    \/ Elsewhere
    \/ Cleanup
    \/ Tick

Spec == Init /\ [][Next]_vars

\* Every call goes on: the calls of Redis have time-outs.
FairSpec ==
    /\ Spec
    /\ \A g \in Lookup : WF_vars(GetSteps(g))
    /\ \A r \in Run : WF_vars(CreateRead(r) \/ CreateWrite(r))

----------------------------------------------------------------------------
TypeOK ==
    /\ record \in [status : Status, born : 0..MaxTime]
    /\ items \in [Item -> [status : Status, born : 0..MaxTime, watchers : SUBSET Lookup]]
    /\ built \in 0..MaxItems
    /\ map \in 0..built
    /\ lock \in Run \cup {Nobody}
    /\ lookups \in [Lookup -> [
          at : {"idle", "fetch", "reread", "apply", "install", "read", "got", "over"},
          item : 0..built, own : 0..built, read : Status, born : 0..MaxTime,
          late : BOOLEAN]]
    /\ runs \in [Run -> [at : {"idle", "read", "write", "running", "over"},
                         item : 0..built, read : Status]]
    /\ now \in 0..MaxTime
    /\ faults \in 0..MaxFaults
    /\ severed \subseteq Item
    /\ undone \in BOOLEAN
    /\ robbed \subseteq Lookup

(* An item that a run writes to or a viewer watches is the one in the map,  *)
(* unless it left the map in one of four ways: a lookup put its own item    *)
(* over it, Cleanup took it at the age ceiling, or took it while a lookup   *)
(* had it in hand, or when the task was over and its run was not (Get,      *)
(* GetOrCreate, Cleanup).                                                   *)
CopiesHaveACause ==
    \A i \in Item :
        HeldByRun(i) \/ items[i].watchers # {} => i = map \/ i \in severed

(* A lookup that has built an item returns that item; it returns another    *)
(* one, or nil, only when its own has been taken out of the map before the  *)
(* map was read back without the lock (Get).                                *)
GetFindsItsItem ==
    \A g \in Lookup :
        lookups[g].at = "got" /\ lookups[g].own # NoItem =>
            lookups[g].item = lookups[g].own \/ lookups[g].own \in severed

(* A lookup that starts after the end of the task was recorded in Redis     *)
(* answers with the end, however many copies there are and whichever of     *)
(* them is in the map; but not when its own item was taken out of the map   *)
(* before it was read back, nor when GetOrCreate or a late run has written  *)
(* an older status over the end in Redis, nor when another lookup has put   *)
(* an older read over the copy it was about to answer from (Get).           *)
LateLookupsSeeTheEnd ==
    \A g \in Lookup :
        lookups[g].at = "got" /\ lookups[g].late /\ ~undone =>
            \/ lookups[g].item # NoItem /\ Final(items[lookups[g].item].status)
            \/ lookups[g].own \in severed
            \/ g \in robbed

(* Every lookup ends, although each waits for the lock that GetOrCreate     *)
(* keeps over two round trips to Redis (GetOrCreate, Get).                  *)
LookupsEnd == \A g \in Lookup : lookups[g].at # "idle" ~> lookups[g].at = "over"
=============================================================================
