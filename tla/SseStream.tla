------------------------------ MODULE SseStream ------------------------------
(***************************************************************************)
(* The progress streams of one task at one web process: the viewers that   *)
(* GET /api/stream/tasks/<id>, the channels TaskItem keeps for them, the   *)
(* Redis subscription the item opens for its first viewer and closes after *)
(* its last one, and the goroutine that forwards from it.                  *)
(*                                                                         *)
(* A notifier is a run or a cancel request, here or at another process.    *)
(* Every update the program publishes is a final one, so "done" stands for *)
(* all three final statuses, and an update is known by its number.  The    *)
(* process has the task in its map.                                        *)
(***************************************************************************)
EXTENDS Integers, Sequences

CONSTANTS
    Viewer,         \* the browsers that watch the task
    Notifier,       \* the threads that call Notify, once each
    Buffer,         \* capacity of a viewer's channel
    MaxOpens,       \* bound on the connections
    MaxFaults       \* bound on failed Redis commands

ASSUME StreamAssumption ==
    /\ Buffer \in Nat \ {0}
    /\ MaxOpens \in Nat
    /\ MaxFaults \in Nat

VARIABLES
    redis,      \* is Redis configured?  Fixed for an execution
    here,       \* the notifiers in this process.  Fixed for an execution
    key,        \* the status at the Redis key task:<id>
    item,       \* the status of the TaskItem of this process
    npc,        \* npc[n]: where notifier n stands
    targets,    \* targets[n]: the channels fanout has yet to serve
    sent,       \* how many updates were published, or listed for fanout
    number,     \* number[n]: the number of n's update
    vpc,        \* vpc[v]: where the request of viewer v stands
    vread,      \* vread[v]: the status its Get has read, or "none"
    chan,       \* chan[v]: the updates in its channel
    heard,      \* heard[v]: v has been told a final status
    opens,      \* the connections so far
    subs,       \* TaskItem.subscribers, as the viewers they belong to
    live,       \* pubsubCancel # nil
    gen,        \* pubsubGeneration
    fwd,        \* the forwarders, in the order they were started
    since,      \* history: the value of sent when the subscription was opened
    late,       \* history: late[v], v looked the task up after a publication
    owed,       \* history: the viewers that were subscribed at a publication
    setBack,    \* history: a Get has put an old status over a final one
    faults      \* the faults so far

redisVars   == <<redis, here, key>>
notifyVars  == <<npc, targets, sent, number>>
viewerVars  == <<vpc, vread, chan, heard, opens>>
itemVars    == <<subs, live, gen>>
history     == <<since, late, owed, setBack>>
vars == <<redis, here, key, item, npc, targets, sent, number, vpc, vread, chan,
          heard, opens, subs, live, gen, fwd, since, late, owed, setBack, faults>>

Status  == {"none", "processing", "done"}
Fault   == faults < MaxFaults /\ faults' = faults + 1
NoFault == UNCHANGED faults

(* The viewers whose stream goes on. *)
Watching == {v \in subs : vpc[v] # "closing"}

Goto(v, place) == vpc' = [vpc EXCEPT ![v] = place]
-----------------------------------------------------------------------------
Init ==
    /\ redis \in BOOLEAN
    /\ here \in IF redis THEN SUBSET Notifier ELSE {Notifier}
    /\ key = IF redis THEN "processing" ELSE "none"
    /\ item = "processing"
    /\ npc = [n \in Notifier |-> "idle"]
    /\ targets = [n \in Notifier |-> {}]
    /\ sent = 0
    /\ number = [n \in Notifier |-> 0]
    /\ vpc = [v \in Viewer |-> "away"]
    /\ vread = [v \in Viewer |-> "none"]
    /\ chan = [v \in Viewer |-> <<>>]
    /\ heard = [v \in Viewer |-> FALSE]
    /\ opens = 0
    /\ subs = {}
    /\ live = FALSE
    /\ gen = 0
    /\ fwd = <<>>
    /\ since = 0
    /\ late = [v \in Viewer |-> FALSE]
    /\ owed = {}
    /\ setBack = FALSE
    /\ faults = 0
-----------------------------------------------------------------------------
(* TaskItem.Notify *)

(* The item first, when the notifier runs here. *)
NotifyLocal(n) ==
    /\ npc[n] = "idle"
    /\ item' = IF n \in here THEN "done" ELSE item
    /\ npc' = [npc EXCEPT ![n] = IF redis THEN "set" ELSE "list"]
    /\ UNCHANGED <<redisVars, targets, sent, number, viewerVars, itemVars, fwd,
                   history, faults>>

(* The SET of the pipeline; a notifier here marshals the item as it is now. *)
NotifySet(n) ==
    /\ npc[n] = "set"
    /\ \/ /\ key' = IF n \in here THEN item ELSE "done"
          /\ npc' = [npc EXCEPT ![n] = "publish"]
          /\ NoFault
       \/ /\ npc' = [npc EXCEPT ![n] = "end"]
          /\ Fault
          /\ UNCHANGED key
    /\ UNCHANGED <<redis, here, item, targets, sent, number, viewerVars, itemVars,
                   fwd, history>>

(* Redis has executed the SUBSCRIBE of the forwarder. *)
Reached(forwarder) == forwarder.open /\ forwarder.joined

(* The PUBLISH reaches the subscriptions that are open now, or none. *)
NotifyPublish(n) ==
    /\ npc[n] = "publish"
    /\ sent' = sent + 1
    /\ \/ /\ fwd' = [f \in DOMAIN fwd |->
                        IF Reached(fwd[f])
                          THEN [fwd[f] EXCEPT !.queue = Append(@, sent + 1)]
                          ELSE fwd[f]]
          /\ owed' = IF \E f \in DOMAIN fwd : Reached(fwd[f])
                       THEN owed \cup Watching ELSE owed
          /\ NoFault
       \/ /\ Fault
          /\ UNCHANGED <<fwd, owed>>
    /\ npc' = [npc EXCEPT ![n] = "end"]
    /\ UNCHANGED <<redisVars, item, targets, number, viewerVars, itemVars, since,
                   late, setBack>>

(* fanout, without Redis: the subscribers are listed under the lock ... *)
FanoutList(n) ==
    /\ npc[n] = "list"
    /\ targets' = [targets EXCEPT ![n] = subs]
    /\ sent' = sent + 1
    /\ number' = [number EXCEPT ![n] = sent + 1]
    /\ owed' = owed \cup Watching
    /\ npc' = [npc EXCEPT ![n] = "send"]
    /\ UNCHANGED <<redisVars, item, viewerVars, itemVars, fwd, since, late,
                   setBack, faults>>

(* A send that does not block: a full channel misses the update. *)
Offered(v, update) ==
    IF Len(chan[v]) < Buffer THEN Append(chan[v], update) ELSE chan[v]

(* ... and served one by one, outside it. *)
FanoutSend(n) ==
    /\ npc[n] = "send"
    /\ \/ \E v \in targets[n] :
             /\ chan' = [chan EXCEPT ![v] = Offered(v, number[n])]
             /\ targets' = [targets EXCEPT ![n] = @ \ {v}]
             /\ UNCHANGED npc
       \/ /\ targets[n] = {}
          /\ npc' = [npc EXCEPT ![n] = "end"]
          /\ UNCHANGED <<chan, targets>>
    /\ UNCHANGED <<redisVars, item, sent, number, vpc, vread, heard, opens,
                   itemVars, fwd, history, faults>>
-----------------------------------------------------------------------------
(* TaskManager.Get of a task that is in the map: a final status is taken    *)
(* as it is, any other one is refreshed from the key.                       *)

Refreshes == redis /\ item # "done"

(* Mutant: a copy in RAM is not read again. *)
LookCached(v) ==
    /\ vpc[v] = "away"
    /\ opens < MaxOpens
    /\ opens' = opens + 1
    /\ late' = [late EXCEPT ![v] = sent > 0]
    /\ Goto(v, "subscribe")
    /\ NoFault
    /\ UNCHANGED <<redisVars, item, notifyVars, vread, chan, heard, itemVars, fwd,
                   since, owed, setBack>>

Look(v) ==
    /\ vpc[v] = "away"
    /\ opens < MaxOpens
    /\ opens' = opens + 1
    /\ late' = [late EXCEPT ![v] = sent > 0]
    /\ \/ /\ Refreshes
          /\ vread' = [vread EXCEPT ![v] = key]
          /\ Goto(v, "apply")
          /\ NoFault
       \/ /\ Refreshes                       \* the GET fails: the item as it is
          /\ Fault
          /\ Goto(v, "subscribe")
          /\ UNCHANGED vread
       \/ /\ ~Refreshes
          /\ Goto(v, "subscribe")
          /\ NoFault
          /\ UNCHANGED vread
    /\ UNCHANGED <<redisVars, item, notifyVars, chan, heard, itemVars, fwd, since,
                   owed, setBack>>

(* applyRemoteState *)
Apply(status) ==
    /\ item' = status
    /\ setBack' = (setBack \/ (item = "done" /\ status # "done"))

LookApplies(v) ==
    /\ vpc[v] = "apply"
    /\ Apply(vread[v])
    /\ vread' = [vread EXCEPT ![v] = "none"]
    /\ Goto(v, "subscribe")
    /\ UNCHANGED <<redisVars, notifyVars, chan, heard, opens, itemVars, fwd, since,
                   late, owed, faults>>

(* The request was a status poll or a cancel, and not a stream.            *)
NoStream(v) ==
    /\ vpc[v] = "subscribe"
    /\ late' = [late EXCEPT ![v] = FALSE]
    /\ Goto(v, "away")
    /\ UNCHANGED <<redisVars, item, notifyVars, vread, chan, heard, opens, itemVars, fwd,
                   since, owed, setBack, faults>>
-----------------------------------------------------------------------------
(* StreamTaskProgress *)

Forwarder(generation) == [gen |-> generation, open |-> TRUE, joined |-> FALSE,
                          over |-> FALSE, queue |-> <<>>, hand |-> 0]

(* Mutant: every viewer gets a new generation. *)
SubscribeBumps(v) ==
    /\ vpc[v] = "subscribe"
    /\ subs' = subs \cup {v}
    /\ gen' = gen + 1
    /\ IF redis /\ ~live
         THEN live' = TRUE /\ fwd' = Append(fwd, Forwarder(gen + 1)) /\ since' = sent
         ELSE UNCHANGED <<live, fwd, since>>
    /\ Goto(v, "snapshot")
    /\ UNCHANGED <<redisVars, item, notifyVars, vread, chan, heard, opens, late,
                   owed, setBack, faults>>

(* The first viewer opens the Redis subscription of the item. *)
Subscribe(v) ==
    /\ vpc[v] = "subscribe"
    /\ subs' = subs \cup {v}
    /\ IF redis /\ ~live
         THEN /\ live' = TRUE
              /\ gen' = gen + 1
              /\ fwd' = Append(fwd, Forwarder(gen + 1))
              /\ since' = sent
         ELSE UNCHANGED <<live, gen, fwd, since>>
    /\ Goto(v, "snapshot")
    /\ UNCHANGED <<redisVars, item, notifyVars, vread, chan, heard, opens, late,
                   owed, setBack, faults>>

(* The first event is the item as it is; a final one ends the stream. *)
Snapshot(v) ==
    /\ vpc[v] = "snapshot"
    /\ IF item = "done"
         THEN /\ heard' = [heard EXCEPT ![v] = TRUE]
              /\ owed' = owed \ {v}
              /\ Goto(v, "closing")
         ELSE /\ Goto(v, "loop")
              /\ UNCHANGED <<heard, owed>>
    /\ UNCHANGED <<redisVars, item, notifyVars, vread, chan, opens, itemVars, fwd,
                   since, late, setBack, faults>>

(* Every update is final, so the first one ends the stream. *)
Receive(v) ==
    /\ vpc[v] = "loop"
    /\ chan[v] # <<>>
    /\ chan' = [chan EXCEPT ![v] = Tail(@)]
    /\ heard' = [heard EXCEPT ![v] = TRUE]
    /\ owed' = owed \ {v}
    /\ Goto(v, "closing")
    /\ UNCHANGED <<redisVars, item, notifyVars, vread, opens, itemVars, fwd, since,
                   late, setBack, faults>>

(* The network drops the connection, or the page is closed. *)
Leave(v) ==
    /\ vpc[v] = "loop"
    /\ owed' = owed \ {v}
    /\ Goto(v, "closing")
    /\ UNCHANGED <<redisVars, item, notifyVars, vread, chan, heard, opens,
                   itemVars, fwd, since, late, setBack, faults>>

(* The handler is left by v: its channel is nobody's from now on, and the  *)
(* browser reconnects unless it was told a final status.                   *)
Departs(v) ==
    /\ vpc[v] = "closing"
    /\ subs' = subs \ {v}
    /\ chan' = [chan EXCEPT ![v] = <<>>]
    /\ targets' = [n \in Notifier |-> targets[n] \ {v}]
    /\ Goto(v, IF heard[v] THEN "over" ELSE "away")
    /\ late' = [late EXCEPT ![v] = FALSE]
    /\ UNCHANGED <<redisVars, item, npc, sent, number, vread, heard, opens, owed,
                   setBack, faults>>

Close == [f \in DOMAIN fwd |-> [fwd[f] EXCEPT !.open = FALSE]]

(* Mutant: whoever leaves closes the subscription. *)
UnsubscribeAlways(v) ==
    /\ Departs(v)
    /\ IF live
         THEN /\ live' = FALSE
              /\ gen' = gen + 1
              /\ fwd' = Close
              /\ since' = 0
         ELSE UNCHANGED <<live, gen, fwd, since>>

(* The last viewer closes the subscription and outdates its forwarder. *)
Unsubscribe(v) ==
    /\ Departs(v)
    /\ IF live /\ subs' = {}
         THEN /\ live' = FALSE
              /\ gen' = gen + 1
              /\ fwd' = Close
              /\ since' = 0
         ELSE UNCHANGED <<live, gen, fwd, since>>
-----------------------------------------------------------------------------
(* forwardRedis *)

(* Subscribe only writes the command; Redis executes it in its own time.   *)
ForwardJoins(f) ==
    /\ fwd[f].open
    /\ ~fwd[f].joined
    /\ fwd' = [fwd EXCEPT ![f].joined = TRUE]
    /\ UNCHANGED <<redisVars, item, notifyVars, viewerVars, itemVars, history, faults>>

ForwardTakes(f) ==
    /\ ~fwd[f].over
    /\ fwd[f].hand = 0
    /\ fwd[f].queue # <<>>
    /\ fwd' = [fwd EXCEPT ![f].hand = Head(fwd[f].queue), ![f].queue = Tail(@)]
    /\ UNCHANGED <<redisVars, item, notifyVars, viewerVars, itemVars, history,
                   faults>>

(* Mutant: only the subscription is looked at, not whose it is. *)
FanoutAnyGeneration(f) ==
    /\ fwd[f].hand # 0
    /\ chan' = [v \in Viewer |-> IF v \in subs /\ live
                                   THEN Offered(v, fwd[f].hand) ELSE chan[v]]
    /\ fwd' = [fwd EXCEPT ![f].hand = 0]
    /\ UNCHANGED <<redisVars, item, notifyVars, vpc, vread, heard, opens, itemVars,
                   history, faults>>

(* The generation is checked and the viewers served under one lock. *)
FanoutIfCurrent(f) ==
    /\ fwd[f].hand # 0
    /\ chan' = [v \in Viewer |-> IF v \in subs /\ live /\ gen = fwd[f].gen
                                   THEN Offered(v, fwd[f].hand) ELSE chan[v]]
    /\ fwd' = [fwd EXCEPT ![f].hand = 0]
    /\ UNCHANGED <<redisVars, item, notifyVars, vpc, vread, heard, opens, itemVars,
                   history, faults>>

(* A closed forwarder ends, perhaps after an update it still finds.  What  *)
(* it leaves in its queue nobody reads.                                    *)
ForwardEnds(f) ==
    /\ ~fwd[f].open
    /\ ~fwd[f].over
    /\ fwd[f].hand = 0
    /\ fwd' = [fwd EXCEPT ![f].over = TRUE, ![f].queue = <<>>]
    /\ UNCHANGED <<redisVars, item, notifyVars, viewerVars, itemVars, history,
                   faults>>
-----------------------------------------------------------------------------
Notify(n) ==
    \/ NotifyLocal(n)
    \/ NotifySet(n)
    \/ NotifyPublish(n)
    \/ FanoutList(n)
    \/ FanoutSend(n)

Stream(v) ==
    \/ LookApplies(v)
    \/ Subscribe(v)
    \/ Snapshot(v)
    \/ Receive(v)
    \/ Unsubscribe(v)

Forward(f) ==
    \/ ForwardJoins(f)
    \/ ForwardTakes(f)
    \/ FanoutIfCurrent(f)
    \/ ForwardEnds(f)

Next ==
    \/ \E n \in Notifier : Notify(n)
    \/ \E v \in Viewer : Look(v) \/ NoStream(v) \/ Stream(v) \/ Leave(v)
    \/ \E f \in DOMAIN fwd : Forward(f)

Spec == Init /\ [][Next]_vars

(* Goroutines that can go on do, and a notifier that has begun goes on.    *)
(* Nobody has to look, to leave, or to begin.  No thread takes more than   *)
(* so many steps, so it is enough that each kind of thread goes on.        *)
Fairness ==
    /\ WF_vars(\E n \in Notifier : npc[n] # "idle" /\ Notify(n))
    /\ WF_vars(\E v \in Viewer : Stream(v))
    /\ WF_vars(\E f \in DOMAIN fwd : Forward(f))

FairSpec == Spec /\ Fairness
-----------------------------------------------------------------------------
(* Properties *)

ForwarderState ==
    [gen : Nat, open : BOOLEAN, joined : BOOLEAN, over : BOOLEAN, queue : Seq(Nat), hand : Nat]

(* Every variable holds a value of its kind; a channel never holds more    *)
(* than its capacity.                                                      *)
TypeOK ==
    /\ redis \in BOOLEAN
    /\ here \in SUBSET Notifier
    /\ key \in Status
    /\ item \in Status \ {"none"}
    /\ npc \in [Notifier -> {"idle", "set", "publish", "list", "send", "end"}]
    /\ targets \in [Notifier -> SUBSET Viewer]
    /\ sent \in Nat
    /\ number \in [Notifier -> Nat]
    /\ vpc \in [Viewer -> {"away", "apply", "subscribe", "snapshot", "loop", "closing",
                           "over"}]
    /\ vread \in [Viewer -> Status]
    /\ chan \in [Viewer -> Seq(Nat)]
    /\ \A v \in Viewer : Len(chan[v]) <= Buffer
    /\ heard \in [Viewer -> BOOLEAN]
    /\ opens \in 0..MaxOpens
    /\ subs \in SUBSET Viewer
    /\ live \in BOOLEAN
    /\ gen \in Nat
    /\ fwd \in Seq(ForwarderState)
    /\ since \in Nat
    /\ late \in [Viewer -> BOOLEAN]
    /\ owed \in SUBSET Viewer
    /\ setBack \in BOOLEAN
    /\ faults \in 0..MaxFaults

(* However viewers come and go, the item has one open subscription while   *)
(* somebody watches and none otherwise, and it belongs to the current      *)
(* generation: none is left behind at Redis, none is missing.              *)
OneSubscription ==
    {fwd[f].gen : f \in {g \in DOMAIN fwd : fwd[g].open}} =
        IF redis /\ subs # {} THEN {gen} ELSE {}

(* A viewer is sent no update from before the subscription that serves it  *)
(* was opened, and none twice: what an outdated forwarder still holds      *)
(* reaches nobody, though the same channels are served again.              *)
NoOldNews ==
    \A v \in Viewer :
        /\ \A i \in DOMAIN chan[v] : chan[v][i] > since
        /\ \A i, j \in DOMAIN chan[v] : chan[v][i] = chan[v][j] => i = j

(* A browser that connects after the end was published is told by the      *)
(* first event (the snapshot api.ts relies on when it reconnects), unless  *)
(* a Get has put an old status over the final one meanwhile.               *)
LatecomersSeeTheEnd ==
    faults = 0 /\ ~setBack => \A v \in Viewer : vpc[v] = "loop" => ~late[v]

(* A viewer whose item was subscribed when the end was published is told,  *)
(* if it stays: other viewers that leave do not take the subscription with them. *)
(* In the end nobody is owed the news.                                     *)
EndComesThrough == <>[](owed = {})

(* "the backend sends a status snapshot when SSE reopens, so no progress   *)
(* is lost" (api.ts): a stream of a task that has ended ends.              *)
EveryStreamEnds == \A v \in Viewer : vpc[v] = "loop" /\ sent > 0 ~> vpc[v] # "loop"
=============================================================================
