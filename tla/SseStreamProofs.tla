--------------------------- MODULE SseStreamProofs ---------------------------
(* Theorems about SseStream, for any viewers, notifiers, capacity and      *)
(* bounds.                                                                 *)
EXTENDS SseStream, SequenceTheorems, TLAPS

(* OneSubscription is not inductive: that the open forwarder is the one of *)
(* the current generation has to be known of the outdated ones as well.    *)

LiveIsWatched == live <=> redis /\ subs # {}

(* Every subscription takes a new generation, and so does every closing.   *)
Generations ==
    /\ \A f \in DOMAIN fwd :
          /\ fwd[f].gen <= gen
          /\ fwd[f].open <=> live /\ fwd[f].gen = gen
    /\ \A f, g \in DOMAIN fwd : fwd[f].gen = fwd[g].gen => f = g
    /\ live => \E f \in DOMAIN fwd : fwd[f].gen = gen

(* NoOldNews needs the order of what is under way: the open forwarder      *)
(* holds increasing numbers, all above those it has handed on.             *)

Increasing(s) == \A i, j \in 1..Len(s) : i < j => s[i] < s[j]

ForwardsInOrder ==
    \A f \in DOMAIN fwd : fwd[f].open =>
        /\ Increasing(fwd[f].queue)
        /\ fwd[f].hand <= sent
        /\ \A i \in 1..Len(fwd[f].queue) :
              since < fwd[f].queue[i] /\ fwd[f].queue[i] <= sent
        /\ fwd[f].hand # 0 =>
              /\ since < fwd[f].hand
              /\ \A i \in 1..Len(fwd[f].queue) : fwd[f].hand < fwd[f].queue[i]

HandedOn ==
    \A v \in Viewer, f \in DOMAIN fwd : fwd[f].open =>
        \A i \in 1..Len(chan[v]) :
            /\ fwd[f].hand # 0 => chan[v][i] < fwd[f].hand
            /\ \A j \in 1..Len(fwd[f].queue) : chan[v][i] < fwd[f].queue[j]

Channels ==
    /\ since <= sent
    /\ ~live => since = 0
    /\ \A v \in Viewer :
          /\ v \notin subs => chan[v] = <<>>
          /\ Len(chan[v]) <= Buffer
          /\ \A i \in 1..Len(chan[v]) : since < chan[v][i] /\ chan[v][i] <= sent
          /\ \A i, j \in 1..Len(chan[v]) : chan[v][i] = chan[v][j] => i = j

(* Without Redis: each notifier has a number of its own.                   *)
OwnNumbers ==
    \A n \in Notifier :
        /\ number[n] <= sent
        /\ npc[n] \in {"set", "publish"} => redis
        /\ npc[n] \in {"list", "send"} => ~redis
        /\ npc[n] = "send" => number[n] > 0
        /\ targets[n] \subseteq subs
        /\ targets[n] # {} => npc[n] = "send"
        /\ \A m \in Notifier : number[n] = number[m] => n = m \/ number[n] = 0
        /\ \A v \in targets[n] : \A i \in 1..Len(chan[v]) : chan[v][i] # number[n]

InOrder ==
    /\ ForwardsInOrder
    /\ HandedOn
    /\ Channels
    /\ OwnNumbers

(* With Redis there is a record, and a Get that applies one has read one.   *)
RecordsRead ==
    /\ redis => key # "none"
    /\ \A v \in Viewer : vpc[v] = "apply" => vread[v] # "none"

IInv == TypeOK /\ RecordsRead /\ LiveIsWatched /\ Generations /\ InOrder
-----------------------------------------------------------------------------
LEMMA Invariant0 == Init => IInv
<1> SUFFICES ASSUME Init PROVE IInv
  OBVIOUS
<1> USE DEF Init
<1>1. fwd = <<>> /\ fwd \in Seq(ForwarderState) /\ DOMAIN fwd = {}
  OBVIOUS
<1>2. \A v \in Viewer : chan[v] = <<>> /\ Len(chan[v]) = 0
  OBVIOUS
<1>3. TypeOK
  <2>1. /\ \A v \in Viewer : Len(chan[v]) <= Buffer
        /\ chan \in [Viewer -> Seq(Nat)]
        /\ opens \in 0..MaxOpens /\ faults \in 0..MaxFaults
    BY <1>2, StreamAssumption
  <2>2. here \in SUBSET Notifier
    OBVIOUS
  <2>3. redis \in BOOLEAN /\ live \in BOOLEAN /\ setBack \in BOOLEAN
    OBVIOUS
  <2>4. heard \in [Viewer -> BOOLEAN] /\ late \in [Viewer -> BOOLEAN]
    OBVIOUS
  <2>5. /\ key \in Status /\ item \in Status \ {"none"}
        /\ vread \in [Viewer -> Status]
    BY DEF Status
  <2>6. /\ npc \in [Notifier -> {"idle", "set", "publish", "list", "send", "end"}]
        /\ targets \in [Notifier -> SUBSET Viewer]
        /\ number \in [Notifier -> Nat]
        /\ vpc \in [Viewer -> {"away", "apply", "subscribe", "snapshot", "loop",
                               "closing", "over"}]
        /\ sent \in Nat /\ gen \in Nat /\ since \in Nat
        /\ subs \in SUBSET Viewer /\ owed \in SUBSET Viewer
    OBVIOUS
  <2>7. QED BY <1>1, <2>1, <2>2, <2>3, <2>4, <2>5, <2>6 DEF TypeOK
<1>4. LiveIsWatched /\ Generations /\ ForwardsInOrder /\ HandedOn
  BY <1>1 DEF LiveIsWatched, Generations, ForwardsInOrder, HandedOn
<1>5. Channels
  BY <1>2, StreamAssumption DEF Channels
<1>6. OwnNumbers
  BY DEF OwnNumbers
<1>7. RecordsRead
  BY DEF RecordsRead
<1>8. QED BY <1>3, <1>4, <1>5, <1>6, <1>7 DEF IInv, InOrder

(* What the type says of a forwarder. *)
LEMMA ForwarderFacts ==
    ASSUME TypeOK
    PROVE  /\ Len(fwd) \in Nat /\ DOMAIN fwd = 1..Len(fwd)
           /\ \A f \in DOMAIN fwd :
                 /\ fwd[f] \in ForwarderState
                 /\ fwd[f].gen \in Nat /\ fwd[f].hand \in Nat
                 /\ fwd[f].queue \in Seq(Nat)
<1>1. fwd \in Seq(ForwarderState)
  BY DEF TypeOK
<1>2. Len(fwd) \in Nat /\ DOMAIN fwd = 1..Len(fwd)
  BY <1>1, LenProperties
<1>3. \A f \in 1..Len(fwd) : fwd[f] \in ForwarderState
  BY <1>1, ElementOfSeq
<1>4. QED BY <1>2, <1>3 DEF ForwarderState

(* What the type says of a sequence of numbers. *)
LEMMA NumbersFacts ==
    ASSUME NEW s \in Seq(Nat)
    PROVE  Len(s) \in Nat /\ \A i \in 1..Len(s) : s[i] \in Nat
BY LenProperties, ElementOfSeq

LEMMA TailFacts ==
    ASSUME NEW s \in Seq(Nat), s # <<>>
    PROVE  /\ Head(s) \in Nat /\ Tail(s) \in Seq(Nat)
           /\ Len(s) \in Nat /\ 1 <= Len(s) /\ Len(Tail(s)) = Len(s) - 1
           /\ Head(s) = s[1]
           /\ \A i \in 1..(Len(s) - 1) : Tail(s)[i] = s[i + 1]
BY HeadTailProperties, LenProperties

LEMMA AppendFacts ==
    ASSUME NEW s \in Seq(Nat), NEW e \in Nat
    PROVE  /\ Append(s, e) \in Seq(Nat)
           /\ Len(s) \in Nat /\ Len(Append(s, e)) = Len(s) + 1
           /\ \A i \in 1..Len(s) : Append(s, e)[i] = s[i]
           /\ Append(s, e)[Len(s) + 1] = e
BY AppendProperties, LenProperties

(* A forwarder changes in place. *)
LEMMA SameLength ==
    ASSUME TypeOK,
           NEW r, r = [f \in DOMAIN fwd |-> r[f]],
           \A f \in DOMAIN fwd : r[f] \in ForwarderState
    PROVE  r \in Seq(ForwarderState) /\ DOMAIN r = DOMAIN fwd
<1>1. Len(fwd) \in Nat /\ DOMAIN fwd = 1..Len(fwd)
  BY ForwarderFacts
<1>2. r \in [1..Len(fwd) -> ForwarderState]
  BY <1>1
<1>3. QED BY <1>1, <1>2
-----------------------------------------------------------------------------
(* What the actions do to the forwarders.                                   *)

LEMMA PublishFacts ==
    ASSUME TypeOK, NEW n \in Notifier, NotifyPublish(n)
    PROVE  /\ fwd' \in Seq(ForwarderState) /\ DOMAIN fwd' = DOMAIN fwd
           /\ \A f \in DOMAIN fwd :
                 \/ fwd'[f] = fwd[f]
                 \/ fwd'[f] = [fwd[f] EXCEPT !.queue = Append(@, sent + 1)]
<1>1. CASE UNCHANGED fwd
  BY <1>1 DEF TypeOK
<1>2. CASE fwd' = [f \in DOMAIN fwd |->
                     IF Reached(fwd[f])
                       THEN [fwd[f] EXCEPT !.queue = Append(@, sent + 1)]
                       ELSE fwd[f]]
  <2>1. \A f \in DOMAIN fwd : Append(fwd[f].queue, sent + 1) \in Seq(Nat)
    BY ForwarderFacts, AppendFacts DEF TypeOK
  <2>2. \A f \in DOMAIN fwd : fwd'[f] \in ForwarderState
    BY <1>2, <2>1, ForwarderFacts DEF ForwarderState
  <2>3. QED BY <1>2, <2>2, SameLength
<1>3. QED BY <1>1, <1>2 DEF NotifyPublish

LEMMA JoinFacts ==
    ASSUME TypeOK, NEW f \in DOMAIN fwd, ForwardJoins(f)
    PROVE  /\ fwd' \in Seq(ForwarderState) /\ DOMAIN fwd' = DOMAIN fwd
           /\ \A g \in DOMAIN fwd :
                 /\ fwd'[g].gen = fwd[g].gen /\ fwd'[g].open = fwd[g].open
                 /\ fwd'[g].queue = fwd[g].queue /\ fwd'[g].hand = fwd[g].hand
<1>1. fwd' = [fwd EXCEPT ![f].joined = TRUE]
  BY DEF ForwardJoins
<1>2. \A g \in DOMAIN fwd : fwd'[g] \in ForwarderState
  BY <1>1, ForwarderFacts DEF ForwarderState
<1>3. fwd' \in Seq(ForwarderState) /\ DOMAIN fwd' = DOMAIN fwd
  BY <1>1, <1>2, SameLength
<1>4. ASSUME NEW g \in DOMAIN fwd, g # f
      PROVE  fwd'[g] = fwd[g]
  BY <1>1, <1>4
<1>5. /\ fwd'[f].gen = fwd[f].gen /\ fwd'[f].open = fwd[f].open
      /\ fwd'[f].queue = fwd[f].queue /\ fwd'[f].hand = fwd[f].hand
  BY <1>1, ForwarderFacts DEF ForwarderState
<1>6. QED BY <1>3, <1>4, <1>5, Zenon

LEMMA TakeFacts ==
    ASSUME TypeOK, NEW f \in DOMAIN fwd, ForwardTakes(f)
    PROVE  /\ fwd' \in Seq(ForwarderState) /\ DOMAIN fwd' = DOMAIN fwd
           /\ \A g \in DOMAIN fwd :
                 /\ fwd'[g].gen = fwd[g].gen /\ fwd'[g].open = fwd[g].open
                 /\ g # f => fwd'[g] = fwd[g]
           /\ fwd'[f].hand = Head(fwd[f].queue)
           /\ fwd'[f].queue = Tail(fwd[f].queue)
<1>1. fwd' = [fwd EXCEPT ![f].hand = Head(fwd[f].queue), ![f].queue = Tail(@)]
  BY DEF ForwardTakes
<1>2. Head(fwd[f].queue) \in Nat /\ Tail(fwd[f].queue) \in Seq(Nat)
  BY ForwarderFacts, TailFacts DEF ForwardTakes
<1>3. \A g \in DOMAIN fwd : fwd'[g] \in ForwarderState
  BY <1>1, <1>2, ForwarderFacts DEF ForwarderState
<1>4. fwd' \in Seq(ForwarderState) /\ DOMAIN fwd' = DOMAIN fwd
  BY <1>1, <1>3, SameLength
<1>5. ASSUME NEW g \in DOMAIN fwd, g # f
      PROVE  fwd'[g] = fwd[g]
  BY <1>1, <1>5
<1>6. fwd'[f].gen = fwd[f].gen /\ fwd'[f].open = fwd[f].open
  BY <1>1, ForwarderFacts DEF ForwarderState
<1>7. fwd'[f].hand = Head(fwd[f].queue) /\ fwd'[f].queue = Tail(fwd[f].queue)
  BY <1>1, ForwarderFacts DEF ForwarderState
<1>8. QED BY <1>4, <1>5, <1>6, <1>7, Zenon

LEMMA FanoutFacts ==
    ASSUME TypeOK, NEW f \in DOMAIN fwd, FanoutIfCurrent(f)
    PROVE  /\ fwd' \in Seq(ForwarderState) /\ DOMAIN fwd' = DOMAIN fwd
           /\ \A g \in DOMAIN fwd :
                 /\ fwd'[g].gen = fwd[g].gen /\ fwd'[g].open = fwd[g].open
                 /\ fwd'[g].queue = fwd[g].queue
                 /\ g # f => fwd'[g] = fwd[g]
           /\ fwd'[f].hand = 0
<1>1. fwd' = [fwd EXCEPT ![f].hand = 0]
  BY DEF FanoutIfCurrent
<1>2. \A g \in DOMAIN fwd : fwd'[g] \in ForwarderState
  BY <1>1, ForwarderFacts DEF ForwarderState
<1>3. fwd' \in Seq(ForwarderState) /\ DOMAIN fwd' = DOMAIN fwd
  BY <1>1, <1>2, SameLength
<1>4. ASSUME NEW g \in DOMAIN fwd, g # f
      PROVE  fwd'[g] = fwd[g]
  BY <1>1, <1>4
<1>5. /\ fwd'[f].gen = fwd[f].gen /\ fwd'[f].open = fwd[f].open
      /\ fwd'[f].queue = fwd[f].queue /\ fwd'[f].hand = 0
  BY <1>1, ForwarderFacts DEF ForwarderState
<1>6. QED BY <1>3, <1>4, <1>5, Zenon

LEMMA EndFacts ==
    ASSUME TypeOK, NEW f \in DOMAIN fwd, ForwardEnds(f)
    PROVE  /\ fwd' \in Seq(ForwarderState) /\ DOMAIN fwd' = DOMAIN fwd
           /\ \A g \in DOMAIN fwd :
                 /\ fwd'[g].gen = fwd[g].gen /\ fwd'[g].open = fwd[g].open
                 /\ fwd[g].open => fwd'[g] = fwd[g]
<1>1. fwd' = [fwd EXCEPT ![f].over = TRUE, ![f].queue = <<>>] /\ ~fwd[f].open
  BY DEF ForwardEnds
<1>2. <<>> \in Seq(Nat)
  OBVIOUS
<1>3. \A g \in DOMAIN fwd : fwd'[g] \in ForwarderState
  BY <1>1, <1>2, ForwarderFacts DEF ForwarderState
<1>4. fwd' \in Seq(ForwarderState) /\ DOMAIN fwd' = DOMAIN fwd
  BY <1>1, <1>3, SameLength
<1>5. ASSUME NEW g \in DOMAIN fwd, g # f
      PROVE  fwd'[g] = fwd[g]
  BY <1>1, <1>5
<1>6. fwd'[f].gen = fwd[f].gen /\ fwd'[f].open = fwd[f].open
  BY <1>1, ForwarderFacts DEF ForwarderState
<1>7. QED BY <1>1, <1>4, <1>5, <1>6, Zenon

LEMMA OpenFacts ==
    ASSUME TypeOK, fwd' = Append(fwd, Forwarder(gen + 1))
    PROVE  /\ fwd' \in Seq(ForwarderState)
           /\ DOMAIN fwd' = DOMAIN fwd \cup {Len(fwd) + 1}
           /\ Len(fwd) + 1 \notin DOMAIN fwd
           /\ \A f \in DOMAIN fwd : fwd'[f] = fwd[f]
           /\ fwd'[Len(fwd) + 1] = Forwarder(gen + 1)
<1>1. Forwarder(gen + 1) \in ForwarderState
  BY DEF Forwarder, ForwarderState, TypeOK
<1>2. fwd \in Seq(ForwarderState) /\ DOMAIN fwd = 1..Len(fwd) /\ Len(fwd) \in Nat
  BY ForwarderFacts DEF TypeOK
<1>3. /\ fwd' \in Seq(ForwarderState)
      /\ Len(fwd') = Len(fwd) + 1
      /\ \A f \in 1..Len(fwd) : fwd'[f] = fwd[f]
      /\ fwd'[Len(fwd) + 1] = Forwarder(gen + 1)
  BY <1>1, <1>2, AppendProperties
<1>4. DOMAIN fwd' = 1..(Len(fwd) + 1)
  BY <1>3, LenProperties
<1>5. QED BY <1>2, <1>3, <1>4

LEMMA CloseFacts ==
    ASSUME TypeOK, fwd' = Close
    PROVE  /\ fwd' \in Seq(ForwarderState) /\ DOMAIN fwd' = DOMAIN fwd
           /\ \A f \in DOMAIN fwd :
                 fwd'[f].gen = fwd[f].gen /\ ~fwd'[f].open
<1>1. \A f \in DOMAIN fwd : fwd'[f] \in ForwarderState
  BY ForwarderFacts DEF Close, ForwarderState
<1>2. QED BY <1>1, SameLength, ForwarderFacts DEF Close, ForwarderState
-----------------------------------------------------------------------------
(* What the actions do to the channels.                                     *)

LEMMA OfferedFacts ==
    ASSUME TypeOK, NEW v \in Viewer, NEW u \in Nat
    PROVE  /\ Offered(v, u) \in Seq(Nat)
           /\ Len(Offered(v, u)) <= Buffer
           /\ \/ Offered(v, u) = chan[v]
              \/ /\ Len(Offered(v, u)) = Len(chan[v]) + 1
                 /\ \A i \in 1..Len(chan[v]) : Offered(v, u)[i] = chan[v][i]
                 /\ Offered(v, u)[Len(chan[v]) + 1] = u
<1>1. chan[v] \in Seq(Nat) /\ Len(chan[v]) <= Buffer /\ Len(chan[v]) \in Nat
  BY NumbersFacts DEF TypeOK
<1>2. /\ Append(chan[v], u) \in Seq(Nat)
      /\ Len(Append(chan[v], u)) = Len(chan[v]) + 1
      /\ \A i \in 1..Len(chan[v]) : Append(chan[v], u)[i] = chan[v][i]
      /\ Append(chan[v], u)[Len(chan[v]) + 1] = u
  BY <1>1, AppendFacts
<1>3. CASE Len(chan[v]) < Buffer
  BY <1>1, <1>2, <1>3, StreamAssumption DEF Offered
<1>4. CASE ~(Len(chan[v]) < Buffer)
  BY <1>1, <1>4 DEF Offered
<1>5. QED BY <1>3, <1>4

(* Fed: a channel is as it was, or has u at its end.                        *)
Fed(v, u) ==
    \/ chan'[v] = chan[v]
    \/ /\ Len(chan'[v]) = Len(chan[v]) + 1
       /\ \A i \in 1..Len(chan[v]) : chan'[v][i] = chan[v][i]
       /\ chan'[v][Len(chan[v]) + 1] = u

ChanOK ==
    /\ chan \in [Viewer -> Seq(Nat)]
    /\ \A v \in Viewer : Len(chan[v]) <= Buffer

LEMMA SendFacts ==
    ASSUME TypeOK, NEW n \in Notifier, NEW v \in targets[n],
           chan' = [chan EXCEPT ![v] = Offered(v, number[n])]
    PROVE  ChanOK' /\ Fed(v, number[n])
           /\ \A w \in Viewer : w # v => chan'[w] = chan[w]
<1>1. v \in Viewer /\ number[n] \in Nat /\ chan \in [Viewer -> Seq(Nat)]
  BY DEF TypeOK
<1>2. chan'[v] = Offered(v, number[n]) /\ \A w \in Viewer : w # v => chan'[w] = chan[w]
  BY <1>1
<1>3. ChanOK'
  <2>1. Offered(v, number[n]) \in Seq(Nat) /\ Len(Offered(v, number[n])) <= Buffer
    BY <1>1, OfferedFacts
  <2>2. chan' \in [Viewer -> Seq(Nat)]
    BY <1>1, <2>1
  <2>3. \A w \in Viewer : Len(chan'[w]) <= Buffer
    BY <1>2, <2>1 DEF TypeOK
  <2>4. QED BY <2>2, <2>3 DEF ChanOK
<1>4. Fed(v, number[n])
  BY <1>1, <1>2, OfferedFacts DEF Fed
<1>5. QED BY <1>2, <1>3, <1>4

LEMMA HandOnFacts ==
    ASSUME TypeOK, NEW f \in DOMAIN fwd, FanoutIfCurrent(f)
    PROVE  ChanOK'
           /\ \A v \in Viewer :
                 \/ chan'[v] = chan[v]
                 \/ v \in subs /\ live /\ gen = fwd[f].gen /\ Fed(v, fwd[f].hand)
<1>1. fwd[f].hand \in Nat
  BY ForwarderFacts
<1>2. chan' = [v \in Viewer |-> IF v \in subs /\ live /\ gen = fwd[f].gen
                                  THEN Offered(v, fwd[f].hand) ELSE chan[v]]
  BY DEF FanoutIfCurrent
<1>3. \A v \in Viewer : Offered(v, fwd[f].hand) \in Seq(Nat)
                          /\ Len(Offered(v, fwd[f].hand)) <= Buffer
  BY <1>1, OfferedFacts
<1>4. ChanOK'
  <2>1. chan' \in [Viewer -> Seq(Nat)]
    BY <1>2, <1>3 DEF TypeOK
  <2>2. \A v \in Viewer : Len(chan'[v]) <= Buffer
    BY <1>2, <1>3 DEF TypeOK
  <2>3. QED BY <2>1, <2>2 DEF ChanOK
<1>5. ASSUME NEW v \in Viewer
      PROVE  \/ chan'[v] = chan[v]
             \/ v \in subs /\ live /\ gen = fwd[f].gen /\ Fed(v, fwd[f].hand)
  <2>1. CASE v \in subs /\ live /\ gen = fwd[f].gen
    <3>1. chan'[v] = Offered(v, fwd[f].hand)
      BY <1>2, <2>1
    <3>2. Fed(v, fwd[f].hand)
      BY <1>1, <3>1, OfferedFacts DEF Fed
    <3>3. QED BY <2>1, <3>2
  <2>2. CASE ~(v \in subs /\ live /\ gen = fwd[f].gen)
    <3>1. chan'[v] = chan[v]
      BY <1>2, <2>2, Zenon
    <3>2. QED BY <3>1
  <2>3. QED BY <2>1, <2>2
<1>6. QED BY <1>4, <1>5

LEMMA ReceiveFacts ==
    ASSUME TypeOK, NEW v \in Viewer, Receive(v)
    PROVE  /\ ChanOK'
           /\ \A w \in Viewer : w # v => chan'[w] = chan[w]
           /\ Len(chan[v]) \in Nat /\ 1 <= Len(chan[v])
           /\ Len(chan'[v]) = Len(chan[v]) - 1
           /\ \A i \in 1..(Len(chan[v]) - 1) : chan'[v][i] = chan[v][i + 1]
<1>1. chan \in [Viewer -> Seq(Nat)] /\ chan[v] # <<>> /\ chan[v] \in Seq(Nat)
  BY DEF TypeOK, Receive
<1>2. /\ Tail(chan[v]) \in Seq(Nat)
      /\ Len(chan[v]) \in Nat /\ 1 <= Len(chan[v])
      /\ Len(Tail(chan[v])) = Len(chan[v]) - 1
      /\ \A i \in 1..(Len(chan[v]) - 1) : Tail(chan[v])[i] = chan[v][i + 1]
  BY <1>1, TailFacts
<1>3. chan' = [chan EXCEPT ![v] = Tail(chan[v])]
  BY DEF Receive
<1>4. chan'[v] = Tail(chan[v]) /\ \A w \in Viewer : w # v => chan'[w] = chan[w]
  BY <1>1, <1>3
<1>5. chan' \in [Viewer -> Seq(Nat)]
  BY <1>1, <1>2, <1>3
<1>6. ASSUME NEW w \in Viewer
      PROVE  Len(chan'[w]) <= Buffer
  <2>1. Len(chan[w]) <= Buffer
    BY DEF TypeOK
  <2>2. CASE w = v
    <3>1. Len(chan'[v]) = Len(chan[v]) - 1 /\ Len(chan[v]) \in Nat
      BY <1>2, <1>4
    <3>2. Len(chan[v]) - 1 <= Buffer
      BY <2>1, <2>2, <3>1, StreamAssumption
    <3>3. QED BY <2>2, <3>1, <3>2
  <2>3. CASE w # v
    BY <1>2, <1>4, <2>1, <2>3
  <2>4. QED BY <2>2, <2>3
<1>7. QED BY <1>2, <1>4, <1>5, <1>6 DEF ChanOK

LEMMA DepartFacts ==
    ASSUME TypeOK, NEW v \in Viewer, Departs(v)
    PROVE  /\ ChanOK'
           /\ chan'[v] = <<>> /\ Len(chan'[v]) = 0
           /\ \A w \in Viewer : w # v => chan'[w] = chan[w]
<1>1. chan \in [Viewer -> Seq(Nat)] /\ chan' = [chan EXCEPT ![v] = <<>>]
  BY DEF TypeOK, Departs
<1>2. <<>> \in Seq(Nat) /\ Len(<<>>) = 0
  OBVIOUS
<1>3. /\ chan'[v] = <<>> /\ Len(chan'[v]) = 0
      /\ \A w \in Viewer : w # v => chan'[w] = chan[w]
  BY <1>1, <1>2
<1>4. chan' \in [Viewer -> Seq(Nat)]
  BY <1>1, <1>2
<1>5. ASSUME NEW w \in Viewer
      PROVE  Len(chan'[w]) <= Buffer
  <2>1. Len(chan[w]) <= Buffer
    BY DEF TypeOK
  <2>2. CASE w = v
    BY <1>3, <2>1, <2>2, StreamAssumption
  <2>3. CASE w # v
    BY <1>3, <2>1, <2>3
  <2>4. QED BY <2>2, <2>3
<1>6. QED BY <1>3, <1>4, <1>5 DEF ChanOK
-----------------------------------------------------------------------------
(* Type correctness, in four parts.                                         *)

BoolOK ==
    /\ redis \in BOOLEAN /\ live \in BOOLEAN /\ setBack \in BOOLEAN
    /\ heard \in [Viewer -> BOOLEAN] /\ late \in [Viewer -> BOOLEAN]

RestOK ==
    /\ here \in SUBSET Notifier
    /\ key \in Status
    /\ item \in Status \ {"none"}
    /\ npc \in [Notifier -> {"idle", "set", "publish", "list", "send", "end"}]
    /\ targets \in [Notifier -> SUBSET Viewer]
    /\ sent \in Nat
    /\ number \in [Notifier -> Nat]
    /\ vpc \in [Viewer -> {"away", "apply", "subscribe", "snapshot", "loop", "closing",
                           "over"}]
    /\ vread \in [Viewer -> Status]
    /\ opens \in 0..MaxOpens
    /\ subs \in SUBSET Viewer
    /\ gen \in Nat
    /\ since \in Nat
    /\ owed \in SUBSET Viewer
    /\ faults \in 0..MaxFaults

FwdOK == fwd \in Seq(ForwarderState)

LEMMA TypeParts == TypeOK <=> BoolOK /\ RestOK /\ ChanOK /\ FwdOK
BY Zenon DEF TypeOK, BoolOK, RestOK, ChanOK, FwdOK

LEMMA BoolStep ==
    ASSUME BoolOK, [Next]_vars
    PROVE  BoolOK'
<1> USE DEF BoolOK
<1>1. ASSUME NEW n \in Notifier, NotifyLocal(n) PROVE BoolOK'
  BY <1>1 DEF NotifyLocal, redisVars, notifyVars, viewerVars, itemVars, history, Goto, NoFault, Fault
<1>2. ASSUME NEW n \in Notifier, NotifySet(n) PROVE BoolOK'
  BY <1>2 DEF NotifySet, redisVars, notifyVars, viewerVars, itemVars, history, Goto, NoFault, Fault
<1>3. ASSUME NEW n \in Notifier, NotifyPublish(n) PROVE BoolOK'
  BY <1>3 DEF NotifyPublish, redisVars, notifyVars, viewerVars, itemVars, history, Goto, NoFault, Fault
<1>4. ASSUME NEW n \in Notifier, FanoutList(n) PROVE BoolOK'
  BY <1>4 DEF FanoutList, redisVars, notifyVars, viewerVars, itemVars, history, Goto, NoFault, Fault
<1>5. ASSUME NEW n \in Notifier, FanoutSend(n) PROVE BoolOK'
  BY <1>5 DEF FanoutSend, redisVars, notifyVars, viewerVars, itemVars, history, Goto, NoFault, Fault
<1>6. ASSUME NEW v \in Viewer, Look(v) PROVE BoolOK'
  BY <1>6 DEF Look, Refreshes, redisVars, notifyVars, viewerVars, itemVars, history, Goto, NoFault, Fault
<1>7. ASSUME NEW v \in Viewer, NoStream(v) PROVE BoolOK'
  BY <1>7 DEF NoStream, redisVars, notifyVars, viewerVars, itemVars, history, Goto, NoFault, Fault
<1>8. ASSUME NEW v \in Viewer, LookApplies(v) PROVE BoolOK'
  BY <1>8 DEF LookApplies, Apply, redisVars, notifyVars, viewerVars, itemVars, history, Goto, NoFault, Fault
<1>9. ASSUME NEW v \in Viewer, Subscribe(v) PROVE BoolOK'
  BY <1>9 DEF Subscribe, redisVars, notifyVars, viewerVars, itemVars, history, Goto, NoFault, Fault
<1>10. ASSUME NEW v \in Viewer, Snapshot(v) PROVE BoolOK'
  BY <1>10 DEF Snapshot, redisVars, notifyVars, viewerVars, itemVars, history, Goto, NoFault, Fault
<1>11. ASSUME NEW v \in Viewer, Receive(v) PROVE BoolOK'
  BY <1>11 DEF Receive, redisVars, notifyVars, viewerVars, itemVars, history, Goto, NoFault, Fault
<1>12. ASSUME NEW v \in Viewer, Leave(v) PROVE BoolOK'
  BY <1>12 DEF Leave, redisVars, notifyVars, viewerVars, itemVars, history, Goto, NoFault, Fault
<1>13. ASSUME NEW v \in Viewer, Unsubscribe(v) PROVE BoolOK'
  BY <1>13 DEF Unsubscribe, Departs, redisVars, notifyVars, viewerVars, itemVars, history, Goto, NoFault, Fault
<1>14. ASSUME NEW f \in DOMAIN fwd, ForwardJoins(f) PROVE BoolOK'
  BY <1>14 DEF ForwardJoins, redisVars, notifyVars, viewerVars, itemVars, history, Goto, NoFault, Fault
<1>15. ASSUME NEW f \in DOMAIN fwd, ForwardTakes(f) PROVE BoolOK'
  BY <1>15 DEF ForwardTakes, redisVars, notifyVars, viewerVars, itemVars, history, Goto, NoFault, Fault
<1>16. ASSUME NEW f \in DOMAIN fwd, FanoutIfCurrent(f) PROVE BoolOK'
  BY <1>16 DEF FanoutIfCurrent, redisVars, notifyVars, viewerVars, itemVars, history, Goto, NoFault, Fault
<1>17. ASSUME NEW f \in DOMAIN fwd, ForwardEnds(f) PROVE BoolOK'
  BY <1>17 DEF ForwardEnds, redisVars, notifyVars, viewerVars, itemVars, history, Goto, NoFault, Fault
<1>18. CASE UNCHANGED vars
  BY <1>18 DEF vars
<1>19. QED
  BY <1>1, <1>2, <1>3, <1>4, <1>5, <1>6, <1>7, <1>8, <1>9, <1>10, <1>11, <1>12, <1>13, <1>14, <1>15, <1>16, <1>17, <1>18 DEF Next, Notify, Stream, Forward

LEMMA RestStep ==
    ASSUME RestOK, RecordsRead, DOMAIN fwd = 1..Len(fwd), [Next]_vars
    PROVE  RestOK'
<1> USE DEF RestOK, RecordsRead, Status
<1>1. ASSUME NEW n \in Notifier, NotifyLocal(n) PROVE RestOK'
  BY <1>1 DEF NotifyLocal, redisVars, notifyVars, viewerVars, itemVars, history, Goto, NoFault, Fault
<1>2. ASSUME NEW n \in Notifier, NotifySet(n) PROVE RestOK'
  <2>1. UNCHANGED <<here, item, targets, sent, number, vpc, vread, opens, subs, gen, since, owed>>
    BY <1>2 DEF NotifySet, redisVars, notifyVars, viewerVars, itemVars, history, Goto, NoFault, Fault
  <2>2. key' \in Status
    BY <1>2 DEF NotifySet
  <2>3. npc' \in [Notifier -> {"idle", "set", "publish", "list", "send", "end"}]
    BY <1>2 DEF NotifySet
  <2>4. faults' \in 0..MaxFaults
    BY <1>2, StreamAssumption DEF NotifySet, NoFault, Fault
  <2>5. QED BY <2>1, <2>2, <2>3, <2>4
<1>3. ASSUME NEW n \in Notifier, NotifyPublish(n) PROVE RestOK'
  <2>1. UNCHANGED <<here, key, item, targets, number, vpc, vread, opens, subs, gen, since>>
    BY <1>3 DEF NotifyPublish, redisVars, notifyVars, viewerVars, itemVars, history, Goto, NoFault, Fault
  <2>2. owed' \in SUBSET Viewer
    BY <1>3 DEF NotifyPublish, Watching
  <2>3. /\ npc' \in [Notifier -> {"idle", "set", "publish", "list", "send", "end"}]
        /\ sent' \in Nat
    BY <1>3 DEF NotifyPublish
  <2>4. faults' \in 0..MaxFaults
    BY <1>3, StreamAssumption DEF NotifyPublish, NoFault, Fault
  <2>5. QED BY <2>1, <2>2, <2>3, <2>4
<1>4. ASSUME NEW n \in Notifier, FanoutList(n) PROVE RestOK'
  <2>1. UNCHANGED <<here, key, item, vpc, vread, opens, subs, gen, since, faults>>
    BY <1>4 DEF FanoutList, redisVars, notifyVars, viewerVars, itemVars, history, Goto, NoFault, Fault
  <2>2. owed' \in SUBSET Viewer
    BY <1>4 DEF FanoutList, Watching
  <2>3. /\ npc' \in [Notifier -> {"idle", "set", "publish", "list", "send", "end"}]
        /\ sent' \in Nat
        /\ targets' \in [Notifier -> SUBSET Viewer]
        /\ number' \in [Notifier -> Nat]
    BY <1>4 DEF FanoutList
  <2>4. QED BY <2>1, <2>2, <2>3
<1>5. ASSUME NEW n \in Notifier, FanoutSend(n) PROVE RestOK'
  <2>1. UNCHANGED <<here, key, item, sent, number, vpc, vread, opens, subs, gen, since,
                    owed, faults>>
    BY <1>5 DEF FanoutSend, redisVars, itemVars, history
  <2>2. npc' \in [Notifier -> {"idle", "set", "publish", "list", "send", "end"}]
    BY <1>5 DEF FanoutSend
  <2>3. targets' \in [Notifier -> SUBSET Viewer]
    BY <1>5 DEF FanoutSend
  <2>4. QED BY <2>1, <2>2, <2>3
<1>6. ASSUME NEW v \in Viewer, Look(v) PROVE RestOK'
  <2>1. UNCHANGED <<here, key, item, npc, targets, sent, number, subs, gen, since, owed>>
    BY <1>6 DEF Look, redisVars, notifyVars, viewerVars, itemVars, history, Goto, NoFault, Fault
  <2>2. vread' \in [Viewer -> Status]
    BY <1>6 DEF Look
  <2>3. vpc' \in [Viewer -> {"away", "apply", "subscribe", "snapshot", "loop", "closing",
                             "over"}]
    BY <1>6 DEF Look, Goto
  <2>4. opens' \in 0..MaxOpens
    BY <1>6, StreamAssumption DEF Look
  <2>5. faults' \in 0..MaxFaults
    BY <1>6, StreamAssumption DEF Look, NoFault, Fault
  <2>6. QED BY <2>1, <2>2, <2>3, <2>4, <2>5
<1>7. ASSUME NEW v \in Viewer, NoStream(v) PROVE RestOK'
  BY <1>7 DEF NoStream, redisVars, notifyVars, viewerVars, itemVars, history, Goto, NoFault, Fault
<1>8. ASSUME NEW v \in Viewer, LookApplies(v) PROVE RestOK'
  BY <1>8 DEF LookApplies, Apply, redisVars, notifyVars, viewerVars, itemVars, history, Goto, NoFault, Fault
<1>9. ASSUME NEW v \in Viewer, Subscribe(v) PROVE RestOK'
  BY <1>9 DEF Subscribe, redisVars, notifyVars, viewerVars, itemVars, history, Goto, NoFault, Fault
<1>10. ASSUME NEW v \in Viewer, Snapshot(v) PROVE RestOK'
  BY <1>10 DEF Snapshot, redisVars, notifyVars, viewerVars, itemVars, history, Goto, NoFault, Fault
<1>11. ASSUME NEW v \in Viewer, Receive(v) PROVE RestOK'
  BY <1>11 DEF Receive, redisVars, notifyVars, viewerVars, itemVars, history, Goto, NoFault, Fault
<1>12. ASSUME NEW v \in Viewer, Leave(v) PROVE RestOK'
  BY <1>12 DEF Leave, redisVars, notifyVars, viewerVars, itemVars, history, Goto, NoFault, Fault
<1>13. ASSUME NEW v \in Viewer, Unsubscribe(v) PROVE RestOK'
  BY <1>13 DEF Unsubscribe, Departs, redisVars, notifyVars, viewerVars, itemVars, history, Goto, NoFault, Fault
<1>14. ASSUME NEW f \in DOMAIN fwd, ForwardJoins(f) PROVE RestOK'
  BY <1>14 DEF ForwardJoins, redisVars, notifyVars, viewerVars, itemVars, history, Goto, NoFault, Fault
<1>15. ASSUME NEW f \in DOMAIN fwd, ForwardTakes(f) PROVE RestOK'
  BY <1>15 DEF ForwardTakes, redisVars, notifyVars, viewerVars, itemVars, history, Goto, NoFault, Fault
<1>16. ASSUME NEW f \in DOMAIN fwd, FanoutIfCurrent(f) PROVE RestOK'
  BY <1>16 DEF FanoutIfCurrent, redisVars, notifyVars, viewerVars, itemVars, history, Goto, NoFault, Fault
<1>17. ASSUME NEW f \in DOMAIN fwd, ForwardEnds(f) PROVE RestOK'
  BY <1>17 DEF ForwardEnds, redisVars, notifyVars, viewerVars, itemVars, history, Goto, NoFault, Fault
<1>18. CASE UNCHANGED vars
  BY <1>18 DEF vars
<1>19. QED
  BY <1>1, <1>2, <1>3, <1>4, <1>5, <1>6, <1>7, <1>8, <1>9, <1>10, <1>11, <1>12, <1>13, <1>14, <1>15, <1>16, <1>17, <1>18 DEF Next, Notify, Stream, Forward

LEMMA RecordsStep ==
    ASSUME RestOK, RecordsRead, [Next]_vars
    PROVE  RecordsRead'
<1> USE DEF RestOK, RecordsRead, Status
<1>1. ASSUME NEW n \in Notifier, NotifyLocal(n) PROVE RecordsRead'
  BY <1>1 DEF NotifyLocal, redisVars, notifyVars, viewerVars, itemVars, history, Goto, NoFault, Fault
<1>2. ASSUME NEW n \in Notifier, NotifySet(n) PROVE RecordsRead'
  BY <1>2 DEF NotifySet, redisVars, notifyVars, viewerVars, itemVars, history, Goto, NoFault, Fault
<1>3. ASSUME NEW n \in Notifier, NotifyPublish(n) PROVE RecordsRead'
  BY <1>3 DEF NotifyPublish, redisVars, notifyVars, viewerVars, itemVars, history, Goto, NoFault, Fault
<1>4. ASSUME NEW n \in Notifier, FanoutList(n) PROVE RecordsRead'
  BY <1>4 DEF FanoutList, redisVars, notifyVars, viewerVars, itemVars, history, Goto, NoFault, Fault
<1>5. ASSUME NEW n \in Notifier, FanoutSend(n) PROVE RecordsRead'
  BY <1>5 DEF FanoutSend, redisVars, notifyVars, viewerVars, itemVars, history, Goto, NoFault, Fault
<1>6. ASSUME NEW v \in Viewer, Look(v) PROVE RecordsRead'
  BY <1>6 DEF Look, Refreshes, redisVars, notifyVars, viewerVars, itemVars, history, Goto, NoFault, Fault
<1>7. ASSUME NEW v \in Viewer, NoStream(v) PROVE RecordsRead'
  BY <1>7 DEF NoStream, redisVars, notifyVars, viewerVars, itemVars, history, Goto, NoFault, Fault
<1>8. ASSUME NEW v \in Viewer, LookApplies(v) PROVE RecordsRead'
  BY <1>8 DEF LookApplies, Apply, redisVars, notifyVars, viewerVars, itemVars, history, Goto, NoFault, Fault
<1>9. ASSUME NEW v \in Viewer, Subscribe(v) PROVE RecordsRead'
  BY <1>9 DEF Subscribe, redisVars, notifyVars, viewerVars, itemVars, history, Goto, NoFault, Fault
<1>10. ASSUME NEW v \in Viewer, Snapshot(v) PROVE RecordsRead'
  BY <1>10 DEF Snapshot, redisVars, notifyVars, viewerVars, itemVars, history, Goto, NoFault, Fault
<1>11. ASSUME NEW v \in Viewer, Receive(v) PROVE RecordsRead'
  BY <1>11 DEF Receive, redisVars, notifyVars, viewerVars, itemVars, history, Goto, NoFault, Fault
<1>12. ASSUME NEW v \in Viewer, Leave(v) PROVE RecordsRead'
  BY <1>12 DEF Leave, redisVars, notifyVars, viewerVars, itemVars, history, Goto, NoFault, Fault
<1>13. ASSUME NEW v \in Viewer, Unsubscribe(v) PROVE RecordsRead'
  BY <1>13 DEF Unsubscribe, Departs, redisVars, notifyVars, viewerVars, itemVars, history, Goto, NoFault, Fault
<1>14. ASSUME NEW f \in DOMAIN fwd, ForwardJoins(f) PROVE RecordsRead'
  BY <1>14 DEF ForwardJoins, redisVars, notifyVars, viewerVars, itemVars, history, Goto, NoFault, Fault
<1>15. ASSUME NEW f \in DOMAIN fwd, ForwardTakes(f) PROVE RecordsRead'
  BY <1>15 DEF ForwardTakes, redisVars, notifyVars, viewerVars, itemVars, history, Goto, NoFault, Fault
<1>16. ASSUME NEW f \in DOMAIN fwd, FanoutIfCurrent(f) PROVE RecordsRead'
  BY <1>16 DEF FanoutIfCurrent, redisVars, notifyVars, viewerVars, itemVars, history, Goto, NoFault, Fault
<1>17. ASSUME NEW f \in DOMAIN fwd, ForwardEnds(f) PROVE RecordsRead'
  BY <1>17 DEF ForwardEnds, redisVars, notifyVars, viewerVars, itemVars, history, Goto, NoFault, Fault
<1>18. CASE UNCHANGED vars
  BY <1>18 DEF vars
<1>19. QED
  BY <1>1, <1>2, <1>3, <1>4, <1>5, <1>6, <1>7, <1>8, <1>9, <1>10, <1>11, <1>12, <1>13, <1>14, <1>15, <1>16, <1>17, <1>18 DEF Next, Notify, Stream, Forward

LEMMA FwdStep ==
    ASSUME TypeOK, [Next]_vars
    PROVE  FwdOK'
<1>1. CASE UNCHANGED fwd
  BY <1>1 DEF TypeOK, FwdOK
<1>2. ASSUME NEW n \in Notifier, Notify(n) PROVE FwdOK'
  <2>1. CASE NotifyPublish(n)
    BY <2>1, PublishFacts DEF FwdOK
  <2>2. CASE ~NotifyPublish(n)
    BY <1>1, <1>2, <2>2 DEF Notify, NotifyLocal, NotifySet, FanoutList, FanoutSend
  <2>3. QED BY <2>1, <2>2
<1>3. ASSUME NEW v \in Viewer, Look(v) \/ NoStream(v) \/ Stream(v) \/ Leave(v)
      PROVE  FwdOK'
  <2>1. \/ UNCHANGED fwd
        \/ fwd' = Append(fwd, Forwarder(gen + 1))
        \/ fwd' = Close
    BY <1>3 DEF Look, NoStream, Stream, Leave, LookApplies, Subscribe, Snapshot,
                Receive, Unsubscribe, redisVars, notifyVars, viewerVars, itemVars, history
  <2>2. QED BY <1>1, <2>1, OpenFacts, CloseFacts DEF FwdOK
<1>4. ASSUME NEW f \in DOMAIN fwd, Forward(f) PROVE FwdOK'
  BY <1>4, JoinFacts, TakeFacts, FanoutFacts, EndFacts DEF Forward, FwdOK
<1>5. CASE UNCHANGED vars
  BY <1>1, <1>5 DEF vars
<1>6. QED BY <1>2, <1>3, <1>4, <1>5 DEF Next

LEMMA ChanStep ==
    ASSUME TypeOK, [Next]_vars
    PROVE  ChanOK'
<1>1. CASE UNCHANGED chan
  BY <1>1 DEF TypeOK, ChanOK
<1>2. ASSUME NEW n \in Notifier, Notify(n) PROVE ChanOK'
  <2>1. \/ UNCHANGED chan
        \/ \E v \in targets[n] : chan' = [chan EXCEPT ![v] = Offered(v, number[n])]
    BY <1>2 DEF Notify, NotifyLocal, NotifySet, NotifyPublish, FanoutList, FanoutSend,
                viewerVars
  <2>2. QED BY <1>1, <2>1, SendFacts
<1>3. ASSUME NEW v \in Viewer, Look(v) \/ NoStream(v) \/ Stream(v) \/ Leave(v)
      PROVE  ChanOK'
  <2>1. UNCHANGED chan \/ Receive(v) \/ Departs(v)
    BY <1>3 DEF Look, NoStream, Stream, Leave, LookApplies, Subscribe, Snapshot,
                Unsubscribe
  <2>2. QED BY <1>1, <2>1, ReceiveFacts, DepartFacts
<1>4. ASSUME NEW f \in DOMAIN fwd, Forward(f) PROVE ChanOK'
  <2>1. UNCHANGED chan \/ FanoutIfCurrent(f)
    BY <1>4 DEF Forward, ForwardJoins, ForwardTakes, ForwardEnds, viewerVars
  <2>2. QED BY <1>1, <2>1, HandOnFacts
<1>5. CASE UNCHANGED vars
  BY <1>1, <1>5 DEF vars
<1>6. QED BY <1>2, <1>3, <1>4, <1>5 DEF Next

LEMMA TypeStep ==
    ASSUME TypeOK, RecordsRead, [Next]_vars
    PROVE  TypeOK' /\ RecordsRead'
<1>1. BoolOK /\ RestOK /\ ChanOK /\ FwdOK /\ DOMAIN fwd = 1..Len(fwd)
  BY TypeParts, ForwarderFacts
<1>2. BoolOK' /\ RestOK' /\ ChanOK' /\ FwdOK' /\ RecordsRead'
  BY <1>1, BoolStep, RestStep, ChanStep, FwdStep, RecordsStep
<1>3. TypeOK'
  BY <1>2, TypeParts, PTL
<1>4. QED BY <1>2, <1>3
-----------------------------------------------------------------------------
(* One subscription.                                                        *)

LEMMA SameShape ==
    ASSUME LiveIsWatched, Generations, UNCHANGED <<redis, subs, live, gen>>,
           DOMAIN fwd' = DOMAIN fwd,
           \A f \in DOMAIN fwd : fwd'[f].gen = fwd[f].gen /\ fwd'[f].open = fwd[f].open
    PROVE  LiveIsWatched' /\ Generations'
<1>1. LiveIsWatched'
  BY DEF LiveIsWatched
<1>2. Generations'
  BY DEF Generations
<1>3. QED BY <1>1, <1>2

LEMMA GenerationStep ==
    ASSUME TypeOK, LiveIsWatched, Generations, [Next]_vars
    PROVE  LiveIsWatched' /\ Generations'
<1>1. CASE UNCHANGED <<redis, subs, live, gen, fwd>>
  BY <1>1, SameShape
<1>2. ASSUME NEW n \in Notifier, Notify(n)
      PROVE  LiveIsWatched' /\ Generations'
  <2>1. CASE NotifyPublish(n)
    <3>1. UNCHANGED <<redis, subs, live, gen>>
      BY <2>1 DEF NotifyPublish, redisVars, itemVars
    <3>2. \A f \in DOMAIN fwd : fwd'[f].gen = fwd[f].gen /\ fwd'[f].open = fwd[f].open
      BY <2>1, PublishFacts, ForwarderFacts DEF ForwarderState
    <3>3. QED BY <2>1, <3>1, <3>2, PublishFacts, SameShape
  <2>2. CASE ~NotifyPublish(n)
    BY <1>1, <1>2, <2>2 DEF Notify, NotifyLocal, NotifySet, FanoutList, FanoutSend,
                            redisVars, itemVars
  <2>3. QED BY <2>1, <2>2
<1>3. ASSUME NEW v \in Viewer, Subscribe(v), UNCHANGED <<live, gen, fwd>>, ~(redis /\ ~live)
      PROVE  LiveIsWatched' /\ Generations'
  <2>1. subs' = subs \cup {v} /\ redis' = redis
    BY <1>3 DEF Subscribe, redisVars
  <2>2. LiveIsWatched'
    BY <1>3, <2>1 DEF LiveIsWatched
  <2>3. Generations'
    BY <1>3 DEF Generations
  <2>4. QED BY <2>2, <2>3
<1>4. ASSUME NEW v \in Viewer, Subscribe(v), redis, ~live
      PROVE  LiveIsWatched' /\ Generations'
  <2>1. /\ subs' = subs \cup {v} /\ redis' = redis
        /\ live' = TRUE /\ gen' = gen + 1 /\ gen \in Nat
        /\ fwd' = Append(fwd, Forwarder(gen + 1))
    BY <1>4 DEF Subscribe, redisVars, TypeOK
  <2>2. LiveIsWatched'
    BY <1>4, <2>1 DEF LiveIsWatched
  <2>3. /\ DOMAIN fwd' = DOMAIN fwd \cup {Len(fwd) + 1}
        /\ Len(fwd) + 1 \notin DOMAIN fwd
        /\ fwd'[Len(fwd) + 1].gen = gen + 1 /\ fwd'[Len(fwd) + 1].open
    BY <2>1, OpenFacts DEF Forwarder
  <2>4. \A f \in DOMAIN fwd : fwd'[f] = fwd[f] /\ fwd[f].gen \in Nat
    BY <2>1, OpenFacts, ForwarderFacts
  <2>5. \A f \in DOMAIN fwd : ~fwd'[f].open /\ fwd'[f].gen < gen + 1
    BY <1>4, <2>1, <2>4 DEF Generations
  <2>6. \A f \in DOMAIN fwd' : fwd'[f].gen <= gen' /\ (fwd'[f].gen = gen' <=> f = Len(fwd) + 1)
    BY <2>1, <2>3, <2>4, <2>5
  <2>7. \A f \in DOMAIN fwd' : fwd'[f].open <=> live' /\ fwd'[f].gen = gen'
    BY <2>1, <2>3, <2>5, <2>6
  <2>8. \A f, g \in DOMAIN fwd' : fwd'[f].gen = fwd'[g].gen => f = g
    BY <2>3, <2>4, <2>6 DEF Generations
  <2>9. \E f \in DOMAIN fwd' : fwd'[f].gen = gen'
    BY <2>1, <2>3
  <2>10. Generations'
    BY <2>6, <2>7, <2>8, <2>9, Zenon DEF Generations
  <2>11. QED BY <2>2, <2>10
<1>5. ASSUME NEW v \in Viewer, Unsubscribe(v), UNCHANGED <<live, gen, fwd>>,
             ~(live /\ subs' = {})
      PROVE  LiveIsWatched' /\ Generations'
  <2>1. subs' = subs \ {v} /\ redis' = redis
    BY <1>5 DEF Unsubscribe, Departs, redisVars
  <2>2. LiveIsWatched'
    BY <1>5, <2>1 DEF LiveIsWatched
  <2>3. Generations'
    BY <1>5 DEF Generations
  <2>4. QED BY <2>2, <2>3
<1>6. ASSUME NEW v \in Viewer, Unsubscribe(v), live, subs' = {}
      PROVE  LiveIsWatched' /\ Generations'
  <2>1. ~live' /\ gen' = gen + 1 /\ fwd' = Close /\ gen \in Nat
    BY <1>6 DEF Unsubscribe, TypeOK
  <2>2. LiveIsWatched'
    BY <1>6, <2>1 DEF LiveIsWatched
  <2>3. /\ DOMAIN fwd' = DOMAIN fwd
        /\ \A f \in DOMAIN fwd : fwd'[f].gen = fwd[f].gen /\ ~fwd'[f].open
                                /\ fwd[f].gen \in Nat
    BY <2>1, CloseFacts, ForwarderFacts
  <2>4. \A f \in DOMAIN fwd' : fwd'[f].gen < gen'
    BY <2>1, <2>3 DEF Generations
  <2>5. \A f, g \in DOMAIN fwd' : fwd'[f].gen = fwd'[g].gen => f = g
    BY <2>3 DEF Generations
  <2>6. Generations'
    BY <2>1, <2>3, <2>4, <2>5 DEF Generations
  <2>7. QED BY <2>2, <2>6
<1>7. ASSUME NEW v \in Viewer, Look(v) \/ NoStream(v) \/ Stream(v) \/ Leave(v)
      PROVE  LiveIsWatched' /\ Generations'
  <2>1. CASE Subscribe(v)
    BY <1>3, <1>4, <2>1 DEF Subscribe
  <2>2. CASE Unsubscribe(v)
    BY <1>5, <1>6, <2>2 DEF Unsubscribe
  <2>3. CASE ~Subscribe(v) /\ ~Unsubscribe(v)
    BY <1>1, <1>7, <2>3 DEF Look, NoStream, Stream, Leave, LookApplies, Snapshot, Receive,
                            redisVars, itemVars
  <2>4. QED BY <2>1, <2>2, <2>3
<1>8. ASSUME NEW f \in DOMAIN fwd, Forward(f)
      PROVE  LiveIsWatched' /\ Generations'
  <2>1. UNCHANGED <<redis, subs, live, gen>>
    BY <1>8 DEF Forward, ForwardJoins, ForwardTakes, FanoutIfCurrent, ForwardEnds,
                redisVars, itemVars
  <2>2. /\ DOMAIN fwd' = DOMAIN fwd
        /\ \A g \in DOMAIN fwd : fwd'[g].gen = fwd[g].gen /\ fwd'[g].open = fwd[g].open
    BY <1>8, JoinFacts, TakeFacts, FanoutFacts, EndFacts DEF Forward
  <2>3. QED BY <2>1, <2>2, SameShape
<1>9. CASE UNCHANGED vars
  BY <1>1, <1>9 DEF vars
<1>10. QED BY <1>2, <1>7, <1>8, <1>9 DEF Next
-----------------------------------------------------------------------------
(* No old news.                                                             *)

Order == ForwardsInOrder /\ HandedOn /\ Channels

(* The numbers under way are numbers. *)
LEMMA NumberTypes ==
    ASSUME TypeOK
    PROVE  /\ sent \in Nat /\ since \in Nat
           /\ \A f \in DOMAIN fwd :
                 /\ fwd[f].hand \in Nat /\ Len(fwd[f].queue) \in Nat
                 /\ \A i \in 1..Len(fwd[f].queue) : fwd[f].queue[i] \in Nat
           /\ \A v \in Viewer :
                 /\ Len(chan[v]) \in Nat
                 /\ \A i \in 1..Len(chan[v]) : chan[v][i] \in Nat
<1>1. \A f \in DOMAIN fwd : fwd[f].hand \in Nat /\ fwd[f].queue \in Seq(Nat)
  BY ForwarderFacts
<1>2. \A v \in Viewer : chan[v] \in Seq(Nat)
  BY DEF TypeOK
<1>3. sent \in Nat /\ since \in Nat
  BY DEF TypeOK
<1>4. QED BY <1>1, <1>2, <1>3, NumbersFacts

LEMMA SameForwarders ==
    ASSUME TypeOK, Order, UNCHANGED <<subs, live, since, chan>>,
           sent' \in {sent, sent + 1},
           DOMAIN fwd' = DOMAIN fwd,
           \A f \in DOMAIN fwd :
               /\ fwd'[f].open = fwd[f].open
               /\ fwd[f].open => /\ fwd'[f].queue = fwd[f].queue
                                /\ fwd'[f].hand = fwd[f].hand
    PROVE  Order'
<1>1. sent <= sent'
  BY NumberTypes
<1>2. ForwardsInOrder'
  <2>1. ASSUME NEW f \in DOMAIN fwd, fwd[f].open
        PROVE  fwd'[f].hand <= sent' /\ \A i \in 1..Len(fwd'[f].queue) : fwd'[f].queue[i] <= sent'
    BY <1>1, <2>1, NumberTypes DEF Order, ForwardsInOrder
  <2>2. QED BY <2>1 DEF Order, ForwardsInOrder
<1>3. HandedOn'
  BY DEF Order, HandedOn
<1>4. Channels'
  BY <1>1, NumberTypes DEF Order, Channels
<1>5. QED BY <1>2, <1>3, <1>4 DEF Order

LEMMA PublishOrder ==
    ASSUME TypeOK, Order, NEW n \in Notifier, NotifyPublish(n)
    PROVE  Order'
<1>1. UNCHANGED <<subs, live, since, chan>> /\ sent' = sent + 1
  BY DEF NotifyPublish, viewerVars, itemVars
<1>2. /\ DOMAIN fwd' = DOMAIN fwd
      /\ \A f \in DOMAIN fwd :
            \/ fwd'[f] = fwd[f]
            \/ fwd'[f] = [fwd[f] EXCEPT !.queue = Append(@, sent + 1)]
  BY PublishFacts
<1>3. ASSUME NEW f \in DOMAIN fwd
      PROVE  /\ fwd'[f].open = fwd[f].open /\ fwd'[f].hand = fwd[f].hand
             /\ \/ fwd'[f].queue = fwd[f].queue
                \/ /\ Len(fwd'[f].queue) = Len(fwd[f].queue) + 1
                   /\ \A i \in 1..Len(fwd[f].queue) :
                         fwd'[f].queue[i] = fwd[f].queue[i]
                   /\ fwd'[f].queue[Len(fwd[f].queue) + 1] = sent + 1
  <2>1. fwd[f] \in ForwarderState /\ fwd[f].queue \in Seq(Nat) /\ sent + 1 \in Nat
    BY ForwarderFacts, NumberTypes
  <2>2. CASE fwd'[f] = fwd[f]
    BY <2>2
  <2>3. CASE fwd'[f] = [fwd[f] EXCEPT !.queue = Append(@, sent + 1)]
    <3>1. /\ fwd'[f].open = fwd[f].open /\ fwd'[f].hand = fwd[f].hand
          /\ fwd'[f].queue = Append(fwd[f].queue, sent + 1)
      BY <2>1, <2>3 DEF ForwarderState
    <3>2. QED BY <2>1, <3>1, AppendFacts
  <2>4. QED BY <1>2, <2>2, <2>3
<1>4. ForwardsInOrder'
  <2>1. ASSUME NEW f \in DOMAIN fwd, fwd[f].open
        PROVE  /\ Increasing(fwd'[f].queue)
               /\ fwd'[f].hand <= sent + 1
               /\ \A i \in 1..Len(fwd'[f].queue) :
                     since < fwd'[f].queue[i] /\ fwd'[f].queue[i] <= sent + 1
               /\ fwd'[f].hand # 0 =>
                     /\ since < fwd'[f].hand
                     /\ \A i \in 1..Len(fwd'[f].queue) : fwd'[f].hand < fwd'[f].queue[i]
    <3>1. since <= sent
      BY DEF Order, Channels
    <3>2. CASE fwd'[f].queue = fwd[f].queue
      BY <1>3, <2>1, <3>2, NumberTypes DEF Order, ForwardsInOrder, Increasing
    <3>3. CASE fwd'[f].queue # fwd[f].queue
      <4> DEFINE q == fwd[f].queue
                 r == fwd'[f].queue
      <4> HIDE DEF q, r
      <4>1. /\ Len(q) \in Nat /\ Len(r) = Len(q) + 1 /\ r[Len(q) + 1] = sent + 1
            /\ sent \in Nat /\ since \in Nat
        BY <1>3, <3>3, NumberTypes DEF q, r
      <4>2. \A i \in 1..Len(q) : r[i] = q[i] /\ q[i] \in Nat /\ since < q[i] /\ q[i] <= sent
        BY <1>3, <2>1, <3>3, NumberTypes DEF Order, ForwardsInOrder, q, r
      <4>3. \A i \in 1..Len(r) : i \in 1..Len(q) \/ i = Len(q) + 1
        BY <4>1
      <4>4. fwd'[f].hand = fwd[f].hand /\ fwd[f].hand \in Nat /\ fwd[f].hand <= sent
        BY <1>3, <2>1, NumberTypes DEF Order, ForwardsInOrder
      <4>5. Increasing(r)
        <5>1. Increasing(q)
          BY <2>1 DEF Order, ForwardsInOrder, q
        <5>2. ASSUME NEW i \in 1..Len(r), NEW j \in 1..Len(r), i < j
              PROVE  r[i] < r[j]
          <6>1. i \in 1..Len(q)
            BY <4>1, <4>3, <5>2
          <6>2. CASE j \in 1..Len(q)
            BY <4>2, <5>1, <5>2, <6>1, <6>2 DEF Increasing
          <6>3. CASE j = Len(q) + 1
            BY <4>1, <4>2, <6>1, <6>3
          <6>4. QED BY <4>3, <6>2, <6>3
        <5>3. QED BY <5>2 DEF Increasing
      <4>6. \A i \in 1..Len(r) : since < r[i] /\ r[i] <= sent + 1
        <5>1. ASSUME NEW i \in 1..Len(r)
              PROVE  since < r[i] /\ r[i] <= sent + 1
          <6>1. CASE i \in 1..Len(q)
            BY <4>1, <4>2, <6>1
          <6>2. CASE i = Len(q) + 1
            BY <3>1, <4>1, <6>2
          <6>3. QED BY <4>3, <6>1, <6>2
        <5>2. QED BY <5>1
      <4>7. ASSUME fwd[f].hand # 0
            PROVE  since < fwd[f].hand /\ \A i \in 1..Len(r) : fwd[f].hand < r[i]
        <5>1. since < fwd[f].hand /\ \A i \in 1..Len(q) : fwd[f].hand < q[i]
          BY <2>1, <4>7 DEF Order, ForwardsInOrder, q
        <5>2. ASSUME NEW i \in 1..Len(r)
              PROVE  fwd[f].hand < r[i]
          <6>1. CASE i \in 1..Len(q)
            BY <4>2, <5>1, <6>1
          <6>2. CASE i = Len(q) + 1
            BY <4>1, <4>4, <6>2
          <6>3. QED BY <4>3, <6>1, <6>2
        <5>3. QED BY <5>1, <5>2
      <4>8. QED BY <4>1, <4>4, <4>5, <4>6, <4>7 DEF r
    <3>4. QED BY <3>2, <3>3
  <2>2. QED BY <1>1, <1>2, <1>3, <2>1 DEF ForwardsInOrder
<1>5. HandedOn'
  <2>1. ASSUME NEW v \in Viewer, NEW f \in DOMAIN fwd, fwd[f].open,
               NEW i \in 1..Len(chan[v])
        PROVE  /\ fwd'[f].hand # 0 => chan[v][i] < fwd'[f].hand
               /\ \A j \in 1..Len(fwd'[f].queue) : chan[v][i] < fwd'[f].queue[j]
    <3>1. chan[v][i] <= sent /\ chan[v][i] \in Nat
      BY NumberTypes DEF Order, Channels
    <3>2. /\ fwd[f].hand # 0 => chan[v][i] < fwd[f].hand
          /\ \A j \in 1..Len(fwd[f].queue) : chan[v][i] < fwd[f].queue[j]
      BY <2>1 DEF Order, HandedOn
    <3>3. fwd'[f].hand # 0 => chan[v][i] < fwd'[f].hand
      BY <1>3, <3>2
    <3>4. ASSUME NEW j \in 1..Len(fwd'[f].queue)
          PROVE  chan[v][i] < fwd'[f].queue[j]
      <4>1. CASE fwd'[f].queue = fwd[f].queue
        BY <3>2, <4>1
      <4>2. CASE fwd'[f].queue # fwd[f].queue
        <5>1. j \in 1..Len(fwd[f].queue) \/ j = Len(fwd[f].queue) + 1
          BY <1>3, <4>2, NumberTypes
        <5>2. CASE j \in 1..Len(fwd[f].queue)
          <6>1. fwd'[f].queue[j] = fwd[f].queue[j]
            BY <1>3, <4>2, <5>2
          <6>2. QED BY <3>2, <5>2, <6>1
        <5>3. CASE j = Len(fwd[f].queue) + 1
          <6>1. fwd'[f].queue[j] = sent + 1 /\ sent \in Nat
            BY <1>3, <4>2, <5>3, NumberTypes
          <6>2. QED BY <3>1, <6>1
        <5>4. QED BY <5>1, <5>2, <5>3
      <4>3. QED BY <4>1, <4>2
    <3>5. QED BY <3>3, <3>4
  <2>2. QED BY <1>1, <1>2, <1>3, <2>1 DEF HandedOn
<1>6. Channels'
  BY <1>1, NumberTypes DEF Order, Channels
<1>7. QED BY <1>4, <1>5, <1>6 DEF Order

LEMMA TakeOrder ==
    ASSUME TypeOK, Order, NEW f \in DOMAIN fwd, ForwardTakes(f)
    PROVE  Order'
<1>1. UNCHANGED <<subs, live, since, chan, sent>>
  BY DEF ForwardTakes, viewerVars, itemVars, notifyVars, history
<1>2. /\ DOMAIN fwd' = DOMAIN fwd
      /\ \A g \in DOMAIN fwd :
            /\ fwd'[g].open = fwd[g].open
            /\ g # f => fwd'[g] = fwd[g]
  BY TakeFacts
<1> DEFINE q == fwd[f].queue
           r == fwd'[f].queue
<1>3. /\ Len(q) \in Nat /\ 1 <= Len(q) /\ Len(r) = Len(q) - 1
      /\ fwd'[f].hand = q[1]
      /\ \A i \in 1..(Len(q) - 1) : r[i] = q[i + 1]
  <2>1. q \in Seq(Nat) /\ q # <<>>
    BY ForwarderFacts DEF ForwardTakes
  <2>2. fwd'[f].hand = Head(q) /\ r = Tail(q)
    BY TakeFacts
  <2>3. QED BY <2>1, <2>2, TailFacts
<1>4. \A i \in 1..Len(q) : q[i] \in Nat
  BY NumberTypes
<1> HIDE DEF q, r
<1>5. ASSUME fwd[f].open
      PROVE  /\ Increasing(r)
             /\ q[1] <= sent /\ since < q[1]
             /\ \A i \in 1..Len(r) : since < r[i] /\ r[i] <= sent /\ q[1] < r[i]
  <2>1. /\ Increasing(q)
        /\ \A i \in 1..Len(q) : since < q[i] /\ q[i] <= sent
    BY <1>5 DEF Order, ForwardsInOrder, q
  <2>2. \A i \in 1..Len(r) : i + 1 \in 1..Len(q) /\ 1 < i + 1 /\ r[i] = q[i + 1]
    BY <1>3
  <2>3. 1 \in 1..Len(q)
    BY <1>3
  <2>4. \A i \in 1..Len(r) : since < r[i] /\ r[i] <= sent /\ q[1] < r[i]
    BY <2>1, <2>2, <2>3 DEF Increasing
  <2>5. \A i, j \in 1..Len(r) : i < j => r[i] < r[j]
    <3>1. \A i, j \in 1..Len(r) : i < j => i + 1 < j + 1
      BY <1>3
    <3>2. QED BY <2>1, <2>2, <3>1 DEF Increasing
  <2>6. QED BY <2>1, <2>3, <2>4, <2>5 DEF Increasing
<1>6. ForwardsInOrder'
  <2>1. ASSUME NEW g \in DOMAIN fwd, fwd[g].open
        PROVE  /\ Increasing(fwd'[g].queue)
               /\ fwd'[g].hand <= sent
               /\ \A i \in 1..Len(fwd'[g].queue) :
                     since < fwd'[g].queue[i] /\ fwd'[g].queue[i] <= sent
               /\ fwd'[g].hand # 0 =>
                     /\ since < fwd'[g].hand
                     /\ \A i \in 1..Len(fwd'[g].queue) : fwd'[g].hand < fwd'[g].queue[i]
    <3>1. CASE g = f
      BY <1>3, <1>5, <2>1, <3>1 DEF r
    <3>2. CASE g # f
      <4>1. fwd'[g] = fwd[g]
        BY <1>2, <3>2
      <4>2. QED BY <2>1, <4>1 DEF Order, ForwardsInOrder
    <3>3. QED BY <3>1, <3>2
  <2>2. QED BY <1>1, <1>2, <2>1 DEF ForwardsInOrder
<1>7. HandedOn'
  <2>1. ASSUME NEW v \in Viewer, NEW g \in DOMAIN fwd, fwd[g].open,
               NEW i \in 1..Len(chan[v])
        PROVE  /\ fwd'[g].hand # 0 => chan[v][i] < fwd'[g].hand
               /\ \A j \in 1..Len(fwd'[g].queue) : chan[v][i] < fwd'[g].queue[j]
    <3>1. CASE g = f
      <4>1. \A j \in 1..Len(q) : chan[v][i] < q[j]
        BY <2>1, <3>1 DEF Order, HandedOn, q
      <4>2. 1 \in 1..Len(q) /\ \A j \in 1..Len(r) : j + 1 \in 1..Len(q) /\ r[j] = q[j + 1]
        BY <1>3
      <4>3. chan[v][i] < q[1] /\ \A j \in 1..Len(r) : chan[v][i] < r[j]
        BY <4>1, <4>2
      <4>4. QED BY <1>3, <3>1, <4>3 DEF r
    <3>2. CASE g # f
      <4>1. fwd'[g] = fwd[g]
        BY <1>2, <3>2
      <4>2. QED BY <2>1, <4>1 DEF Order, HandedOn
    <3>3. QED BY <3>1, <3>2
  <2>2. QED BY <1>1, <1>2, <2>1 DEF HandedOn
<1>8. Channels'
  BY <1>1 DEF Order, Channels
<1>9. QED BY <1>6, <1>7, <1>8 DEF Order

(* A channel that was fed a new number still has no number twice.           *)
LEMMA FedChannel ==
    ASSUME TypeOK, ChanOK', NEW v \in Viewer, NEW u \in Nat, Fed(v, u),
           Channels, since < u, u <= sent,
           \A i \in 1..Len(chan[v]) : chan[v][i] # u
    PROVE  /\ \A i \in 1..Len(chan'[v]) : since < chan'[v][i] /\ chan'[v][i] <= sent
           /\ \A i, j \in 1..Len(chan'[v]) : chan'[v][i] = chan'[v][j] => i = j
           /\ \A i \in 1..Len(chan'[v]) :
                 chan'[v][i] = u \/ \E j \in 1..Len(chan[v]) : chan'[v][i] = chan[v][j]
<1> DEFINE c == chan[v]
           d == chan'[v]
<1>1. /\ Len(c) \in Nat
      /\ \A i \in 1..Len(c) : since < c[i] /\ c[i] <= sent /\ c[i] # u
      /\ \A i, j \in 1..Len(c) : c[i] = c[j] => i = j
  BY NumberTypes DEF Channels
<1>2. CASE d = c
  BY <1>1, <1>2
<1>3. CASE d # c
  <2>1. /\ Len(d) = Len(c) + 1
        /\ \A i \in 1..Len(c) : d[i] = c[i]
        /\ d[Len(c) + 1] = u
    BY <1>3 DEF Fed
  <2> HIDE DEF c, d
  <2>2. \A i \in 1..Len(d) : i \in 1..Len(c) \/ i = Len(c) + 1
    BY <1>1, <2>1
  <2>3. ASSUME NEW i \in 1..Len(d)
        PROVE  since < d[i] /\ d[i] <= sent /\ (d[i] = u \/ \E j \in 1..Len(c) : d[i] = c[j])
    <3>1. CASE i \in 1..Len(c)
      BY <1>1, <2>1, <3>1
    <3>2. CASE i = Len(c) + 1
      BY <2>1, <3>2
    <3>3. QED BY <2>2, <3>1, <3>2
  <2>4. ASSUME NEW i \in 1..Len(d), NEW j \in 1..Len(d), d[i] = d[j]
        PROVE  i = j
    <3>1. CASE i \in 1..Len(c) /\ j \in 1..Len(c)
      BY <1>1, <2>1, <2>4, <3>1
    <3>2. CASE i \in 1..Len(c) /\ j = Len(c) + 1
      BY <1>1, <2>1, <2>4, <3>2
    <3>3. CASE i = Len(c) + 1 /\ j \in 1..Len(c)
      BY <1>1, <2>1, <2>4, <3>3
    <3>4. CASE i = Len(c) + 1 /\ j = Len(c) + 1
      BY <3>4
    <3>5. QED BY <2>2, <3>1, <3>2, <3>3, <3>4
  <2>5. QED BY <2>3, <2>4 DEF c, d
<1>4. QED BY <1>2, <1>3

LEMMA FanoutOrder ==
    ASSUME TypeOK, Generations, Order, NEW f \in DOMAIN fwd, FanoutIfCurrent(f)
    PROVE  Order'
<1> DEFINE u == fwd[f].hand
<1>1. UNCHANGED <<subs, live, since, sent>> /\ u # 0 /\ u \in Nat
  BY ForwarderFacts DEF FanoutIfCurrent, itemVars, notifyVars, history
<1>2. /\ DOMAIN fwd' = DOMAIN fwd
      /\ \A g \in DOMAIN fwd :
            /\ fwd'[g].open = fwd[g].open
            /\ fwd'[g].queue = fwd[g].queue
            /\ g # f => fwd'[g].hand = fwd[g].hand
      /\ fwd'[f].hand = 0
  BY FanoutFacts
<1>3. ChanOK'
  BY HandOnFacts
<1>4. ASSUME NEW v \in Viewer
      PROVE  \/ chan'[v] = chan[v]
             \/ /\ v \in subs /\ fwd[f].open /\ Fed(v, u)
                /\ since < u /\ u <= sent
                /\ \A i \in 1..Len(chan[v]) : chan[v][i] < u /\ chan[v][i] # u
  <2>1. CASE v \in subs /\ live /\ gen = fwd[f].gen /\ Fed(v, u)
    <3>1. fwd[f].open
      BY <2>1 DEF Generations
    <3>2. since < u /\ u <= sent /\ \A i \in 1..Len(chan[v]) : chan[v][i] < u
      BY <1>1, <3>1 DEF Order, ForwardsInOrder, HandedOn
    <3>3. \A i \in 1..Len(chan[v]) : chan[v][i] # u
      BY <1>1, <3>2, NumberTypes
    <3>4. QED BY <2>1, <3>1, <3>2, <3>3
  <2>2. CASE chan'[v] = chan[v]
    BY <2>2
  <2>3. QED BY <2>1, <2>2, HandOnFacts
<1>5. ForwardsInOrder'
  BY <1>1, <1>2, NumberTypes DEF Order, ForwardsInOrder
<1>6. HandedOn'
  <2>1. ASSUME NEW v \in Viewer, NEW g \in DOMAIN fwd, fwd[g].open,
               NEW i \in 1..Len(chan'[v])
        PROVE  /\ fwd'[g].hand # 0 => chan'[v][i] < fwd'[g].hand
               /\ \A j \in 1..Len(fwd'[g].queue) : chan'[v][i] < fwd'[g].queue[j]
    <3>1. CASE chan'[v] = chan[v]
      BY <1>2, <2>1, <3>1 DEF Order, HandedOn
    <3>2. CASE chan'[v] # chan[v]
      <4>1. fwd[f].open /\ Fed(v, u) /\ since < u /\ u <= sent
            /\ \A k \in 1..Len(chan[v]) : chan[v][k] # u
        BY <1>4, <3>2
      <4>2. g = f
        BY <2>1, <4>1 DEF Generations
      <4>3. chan'[v][i] = u \/ \E j \in 1..Len(chan[v]) : chan'[v][i] = chan[v][j]
        BY <1>1, <1>3, <4>1, FedChannel DEF Order
      <4>4. \A j \in 1..Len(fwd[f].queue) :
               u < fwd[f].queue[j] /\ \A k \in 1..Len(chan[v]) : chan[v][k] < fwd[f].queue[j]
        BY <1>1, <4>1 DEF Order, ForwardsInOrder, HandedOn
      <4>5. QED BY <1>2, <4>2, <4>3, <4>4
    <3>3. QED BY <3>1, <3>2
  <2>2. QED BY <1>2, <2>1 DEF HandedOn
<1>7. Channels'
  <2>1. ASSUME NEW v \in Viewer
        PROVE  /\ v \notin subs => chan'[v] = <<>>
               /\ \A i \in 1..Len(chan'[v]) : since < chan'[v][i] /\ chan'[v][i] <= sent
               /\ \A i, j \in 1..Len(chan'[v]) : chan'[v][i] = chan'[v][j] => i = j
    <3>1. CASE chan'[v] = chan[v]
      BY <3>1 DEF Order, Channels
    <3>2. CASE chan'[v] # chan[v]
      <4>1. /\ v \in subs /\ Fed(v, u) /\ since < u /\ u <= sent
            /\ \A i \in 1..Len(chan[v]) : chan[v][i] # u
        BY <1>4, <3>2
      <4>2. QED BY <1>1, <1>3, <4>1, FedChannel DEF Order
    <3>3. QED BY <3>1, <3>2
  <2>2. QED BY <1>1, <1>3, <2>1 DEF Channels, ChanOK, Order
<1>8. QED BY <1>5, <1>6, <1>7 DEF Order

LEMMA SendOrder ==
    ASSUME TypeOK, LiveIsWatched, Generations, Order, OwnNumbers,
           NEW n \in Notifier, FanoutSend(n)
    PROVE  Order'
<1>1. UNCHANGED <<subs, live, since, sent, fwd>> /\ npc[n] = "send"
  BY DEF FanoutSend, itemVars, history
<1>2. ~redis /\ ~live /\ since = 0 /\ \A f \in DOMAIN fwd : ~fwd[f].open
  BY <1>1 DEF OwnNumbers, LiveIsWatched, Generations, Order, Channels
<1>3. ForwardsInOrder' /\ HandedOn'
  BY <1>1, <1>2 DEF ForwardsInOrder, HandedOn
<1>4. CASE UNCHANGED chan
  BY <1>1, <1>4 DEF Order, Channels, ForwardsInOrder, HandedOn
<1>5. ASSUME NEW v \in targets[n], chan' = [chan EXCEPT ![v] = Offered(v, number[n])]
      PROVE  Channels'
  <2>1. ChanOK' /\ Fed(v, number[n]) /\ \A w \in Viewer : w # v => chan'[w] = chan[w]
    BY <1>5, SendFacts
  <2>2. v \in Viewer /\ v \in subs /\ number[n] \in Nat /\ since < number[n] /\ number[n] <= sent
    BY <1>1, <1>2 DEF OwnNumbers, TypeOK
  <2>3. \A i \in 1..Len(chan[v]) : chan[v][i] # number[n]
    BY DEF OwnNumbers
  <2>4. /\ \A i \in 1..Len(chan'[v]) : since < chan'[v][i] /\ chan'[v][i] <= sent
        /\ \A i, j \in 1..Len(chan'[v]) : chan'[v][i] = chan'[v][j] => i = j
    BY <2>1, <2>2, <2>3, FedChannel DEF Order
  <2>5. ASSUME NEW w \in Viewer
        PROVE  /\ w \notin subs => chan'[w] = <<>>
               /\ \A i \in 1..Len(chan'[w]) : since < chan'[w][i] /\ chan'[w][i] <= sent
               /\ \A i, j \in 1..Len(chan'[w]) : chan'[w][i] = chan'[w][j] => i = j
    <3>1. CASE w = v
      BY <2>2, <2>4, <3>1
    <3>2. CASE w # v
      BY <2>1, <3>2 DEF Order, Channels
    <3>3. QED BY <3>1, <3>2
  <2>6. QED BY <1>1, <2>1, <2>5 DEF Channels, ChanOK, Order
<1>6. QED BY <1>3, <1>4, <1>5 DEF FanoutSend, Order

LEMMA ReceiveOrder ==
    ASSUME TypeOK, Order, NEW v \in Viewer, Receive(v)
    PROVE  Order'
<1>1. UNCHANGED <<subs, live, since, sent, fwd>>
  BY DEF Receive, itemVars, notifyVars
<1>2. /\ ChanOK'
      /\ \A w \in Viewer : w # v => chan'[w] = chan[w]
      /\ Len(chan[v]) \in Nat /\ 1 <= Len(chan[v])
      /\ Len(chan'[v]) = Len(chan[v]) - 1
      /\ \A i \in 1..(Len(chan[v]) - 1) : chan'[v][i] = chan[v][i + 1]
  BY ReceiveFacts
<1>3. \A i \in 1..Len(chan'[v]) : i + 1 \in 1..Len(chan[v]) /\ chan'[v][i] = chan[v][i + 1]
  BY <1>2
<1>4. v \in subs
  BY DEF Receive, Order, Channels
<1>5. ForwardsInOrder'
  BY <1>1 DEF Order, ForwardsInOrder
<1>6. HandedOn'
  <2>1. ASSUME NEW w \in Viewer, NEW f \in DOMAIN fwd, fwd[f].open,
               NEW i \in 1..Len(chan'[w])
        PROVE  /\ fwd[f].hand # 0 => chan'[w][i] < fwd[f].hand
               /\ \A j \in 1..Len(fwd[f].queue) : chan'[w][i] < fwd[f].queue[j]
    <3>1. CASE w = v
      BY <1>3, <2>1, <3>1 DEF Order, HandedOn
    <3>2. CASE w # v
      BY <1>2, <2>1, <3>2 DEF Order, HandedOn
    <3>3. QED BY <3>1, <3>2
  <2>2. QED BY <1>1, <2>1 DEF HandedOn
<1>7. Channels'
  <2>1. ASSUME NEW w \in Viewer
        PROVE  /\ w \notin subs => chan'[w] = <<>>
               /\ \A i \in 1..Len(chan'[w]) : since < chan'[w][i] /\ chan'[w][i] <= sent
               /\ \A i, j \in 1..Len(chan'[w]) : chan'[w][i] = chan'[w][j] => i = j
    <3>1. CASE w = v
      <4>1. \A i \in 1..Len(chan'[v]) : since < chan'[v][i] /\ chan'[v][i] <= sent
        BY <1>3 DEF Order, Channels
      <4>2. ASSUME NEW i \in 1..Len(chan'[v]), NEW j \in 1..Len(chan'[v]),
                   chan'[v][i] = chan'[v][j]
            PROVE  i = j
        <5>1. i + 1 = j + 1
          BY <1>3, <4>2 DEF Order, Channels
        <5>2. i \in Int /\ j \in Int
          BY <1>2
        <5>3. QED BY <5>1, <5>2
      <4>3. QED BY <1>4, <3>1, <4>1, <4>2
    <3>2. CASE w # v
      BY <1>2, <3>2 DEF Order, Channels
    <3>3. QED BY <3>1, <3>2
  <2>2. QED BY <1>1, <1>2, <2>1 DEF Channels, ChanOK, Order
<1>8. QED BY <1>5, <1>6, <1>7 DEF Order

(* Nothing is under way and no channel holds anything. *)
LEMMA Empty ==
    ASSUME NEW v \in Viewer, Channels, v \notin subs
    PROVE  chan[v] = <<>> /\ Len(chan[v]) = 0
BY DEF Channels

LEMMA SubscribeOrder ==
    ASSUME TypeOK, LiveIsWatched, Generations, Order, NEW v \in Viewer, Subscribe(v)
    PROVE  Order'
<1>1. UNCHANGED <<chan, sent>> /\ subs' = subs \cup {v}
  BY DEF Subscribe, notifyVars
<1>2. CASE UNCHANGED <<live, gen, fwd, since>>
  BY <1>1, <1>2 DEF Order, ForwardsInOrder, HandedOn, Channels
<1>3. CASE redis /\ ~live
  <2>1. live' /\ since' = sent /\ fwd' = Append(fwd, Forwarder(gen + 1))
    BY <1>3 DEF Subscribe
  <2>2. subs = {} /\ \A f \in DOMAIN fwd : ~fwd[f].open
    BY <1>3 DEF LiveIsWatched, Generations
  <2>3. \A w \in Viewer : chan[w] = <<>> /\ Len(chan[w]) = 0
    BY <2>2, Empty DEF Order
  <2>4. \A f \in DOMAIN fwd' : fwd'[f].open => Len(fwd'[f].queue) = 0 /\ fwd'[f].hand = 0
    BY <2>1, <2>2, OpenFacts DEF Forwarder
  <2>5. ForwardsInOrder'
    BY <1>1, <2>4, NumberTypes DEF ForwardsInOrder, Increasing
  <2>6. HandedOn'
    BY <1>1, <2>3 DEF HandedOn
  <2>7. Channels'
    BY <1>1, <2>1, <2>3, StreamAssumption, NumberTypes DEF Channels
  <2>8. QED BY <2>5, <2>6, <2>7 DEF Order
<1>4. QED BY <1>2, <1>3 DEF Subscribe

LEMMA UnsubscribeOrder ==
    ASSUME TypeOK, LiveIsWatched, Generations, Order, NEW v \in Viewer, Unsubscribe(v)
    PROVE  Order'
<1>1. sent' = sent /\ subs' = subs \ {v}
  BY DEF Unsubscribe, Departs
<1>2. /\ ChanOK'
      /\ chan'[v] = <<>> /\ Len(chan'[v]) = 0
      /\ \A w \in Viewer : w # v => chan'[w] = chan[w]
  BY DepartFacts DEF Unsubscribe
<1>3. CASE UNCHANGED <<live, gen, fwd, since>>
  <2>1. ForwardsInOrder'
    BY <1>1, <1>3 DEF Order, ForwardsInOrder
  <2>2. ASSUME NEW w \in Viewer, NEW f \in DOMAIN fwd, fwd[f].open,
               NEW i \in 1..Len(chan'[w])
        PROVE  /\ fwd[f].hand # 0 => chan'[w][i] < fwd[f].hand
               /\ \A j \in 1..Len(fwd[f].queue) : chan'[w][i] < fwd[f].queue[j]
    <3>1. w # v
      BY <1>2, <2>2
    <3>2. QED BY <1>2, <2>2, <3>1 DEF Order, HandedOn
  <2>3. HandedOn'
    BY <1>3, <2>2 DEF HandedOn
  <2>4. ASSUME NEW w \in Viewer
        PROVE  /\ w \notin subs' => chan'[w] = <<>>
               /\ \A i \in 1..Len(chan'[w]) : since < chan'[w][i] /\ chan'[w][i] <= sent
               /\ \A i, j \in 1..Len(chan'[w]) : chan'[w][i] = chan'[w][j] => i = j
    <3>1. CASE w = v
      BY <1>2, <3>1
    <3>2. CASE w # v
      BY <1>1, <1>2, <3>2 DEF Order, Channels
    <3>3. QED BY <3>1, <3>2
  <2>5. Channels'
    BY <1>1, <1>2, <1>3, <2>4 DEF Channels, ChanOK, Order
  <2>6. QED BY <2>1, <2>3, <2>5 DEF Order
<1>4. CASE live /\ subs' = {}
  <2>1. ~live' /\ since' = 0 /\ fwd' = Close
    BY <1>4 DEF Unsubscribe
  <2>2. \A f \in DOMAIN fwd' : ~fwd'[f].open
    BY <2>1, CloseFacts
  <2>3. ForwardsInOrder' /\ HandedOn'
    BY <2>2 DEF ForwardsInOrder, HandedOn
  <2>4. ASSUME NEW w \in Viewer
        PROVE  chan'[w] = <<>> /\ Len(chan'[w]) = 0
    <3>1. CASE w = v
      BY <1>2, <3>1
    <3>2. CASE w # v
      BY <1>1, <1>2, <1>4, <3>2, Empty DEF Order
    <3>3. QED BY <3>1, <3>2
  <2>5. Channels'
    BY <1>1, <2>1, <2>4, StreamAssumption, NumberTypes DEF Channels
  <2>6. QED BY <2>3, <2>5 DEF Order
<1>5. QED BY <1>3, <1>4 DEF Unsubscribe

LEMMA OrderStep ==
    ASSUME TypeOK, LiveIsWatched, Generations, Order, OwnNumbers, [Next]_vars
    PROVE  Order'
<1>1. ASSUME UNCHANGED <<subs, live, since, chan, fwd>>, sent' \in {sent, sent + 1}
      PROVE  Order'
  BY <1>1, SameForwarders
<1>2. ASSUME NEW n \in Notifier, Notify(n) PROVE Order'
  <2>1. CASE NotifyLocal(n) \/ NotifySet(n) \/ FanoutList(n)
    BY <1>1, <2>1 DEF NotifyLocal, NotifySet, FanoutList, viewerVars, itemVars, history
  <2>2. QED BY <1>2, <2>1, PublishOrder, SendOrder DEF Notify
<1>3. ASSUME NEW v \in Viewer, Look(v) \/ NoStream(v) \/ Stream(v) \/ Leave(v)
      PROVE  Order'
  <2>1. CASE Look(v) \/ NoStream(v) \/ LookApplies(v) \/ Snapshot(v) \/ Leave(v)
    BY <1>1, <2>1 DEF Look, NoStream, LookApplies, Snapshot, Leave, notifyVars, itemVars
  <2>2. QED BY <1>3, <2>1, SubscribeOrder, ReceiveOrder, UnsubscribeOrder DEF Stream
<1>4. ASSUME NEW f \in DOMAIN fwd, Forward(f) PROVE Order'
  <2>1. CASE ForwardJoins(f) \/ ForwardEnds(f)
    <3>1. UNCHANGED <<subs, live, since, chan, sent>>
      BY <2>1 DEF ForwardJoins, ForwardEnds, viewerVars, itemVars, notifyVars, history
    <3>2. /\ DOMAIN fwd' = DOMAIN fwd
          /\ \A g \in DOMAIN fwd :
                /\ fwd'[g].open = fwd[g].open
                /\ fwd[g].open => /\ fwd'[g].queue = fwd[g].queue
                                 /\ fwd'[g].hand = fwd[g].hand
      BY <2>1, JoinFacts, EndFacts
    <3>3. QED BY <3>1, <3>2, SameForwarders
  <2>2. QED BY <1>4, <2>1, TakeOrder, FanoutOrder DEF Forward
<1>5. CASE UNCHANGED vars
  BY <1>1, <1>5 DEF vars
<1>6. QED BY <1>2, <1>3, <1>4, <1>5 DEF Next

(* A step of notifier n that touches no channel.                            *)
LEMMA NotifierNumbers ==
    ASSUME TypeOK, OwnNumbers, Channels, NEW n \in Notifier,
           NotifyLocal(n) \/ NotifySet(n) \/ NotifyPublish(n) \/ FanoutList(n)
    PROVE  OwnNumbers'
<1>1. UNCHANGED <<redis, subs, chan>>
  BY DEF NotifyLocal, NotifySet, NotifyPublish, FanoutList, redisVars, notifyVars, viewerVars, itemVars, history
<1>2. /\ sent \in Nat /\ number \in [Notifier -> Nat]
      /\ npc \in [Notifier -> {"idle", "set", "publish", "list", "send", "end"}]
      /\ targets \in [Notifier -> SUBSET Viewer]
  BY DEF TypeOK
<1>3. CASE NotifyLocal(n) \/ NotifySet(n) \/ NotifyPublish(n)
  <2>1. UNCHANGED <<targets, number>> /\ sent' \in {sent, sent + 1} /\ sent <= sent'
    BY <1>2, <1>3 DEF NotifyLocal, NotifySet, NotifyPublish, redisVars, notifyVars, viewerVars, itemVars, history
  <2>2. npc[n] # "send"
    BY <1>3 DEF NotifyLocal, NotifySet, NotifyPublish
  <2>3. /\ npc'[n] \in {"set", "publish"} => redis
        /\ npc'[n] \in {"list", "send"} => ~redis
        /\ npc'[n] # "send"
    BY <1>2, <1>3 DEF NotifyLocal, NotifySet, NotifyPublish, OwnNumbers
  <2>4. \A m \in Notifier : m # n => npc'[m] = npc[m]
    BY <1>2, <1>3 DEF NotifyLocal, NotifySet, NotifyPublish
  <2>5. \A m \in Notifier : number'[m] <= sent'
    BY <1>2, <2>1 DEF OwnNumbers
  <2>6. targets[n] = {}
    BY <2>2 DEF OwnNumbers
  <2>7. QED BY <1>1, <2>1, <2>3, <2>4, <2>5, <2>6 DEF OwnNumbers
<1>4. CASE FanoutList(n)
  <2>1. /\ targets' = [targets EXCEPT ![n] = subs]
        /\ number' = [number EXCEPT ![n] = sent + 1]
        /\ npc' = [npc EXCEPT ![n] = "send"]
        /\ sent' = sent + 1 /\ ~redis
    BY <1>4 DEF FanoutList, OwnNumbers
  <2>2. \A m \in Notifier : m # n =>
           /\ targets'[m] = targets[m] /\ number'[m] = number[m] /\ npc'[m] = npc[m]
           /\ number[m] \in Nat /\ number[m] <= sent
    BY <1>2, <2>1 DEF OwnNumbers
  <2>3. targets'[n] = subs /\ number'[n] = sent + 1 /\ npc'[n] = "send"
    BY <1>2, <2>1
  <2>4. \A v \in Viewer : \A i \in 1..Len(chan[v]) : chan[v][i] # sent + 1
    BY NumberTypes DEF Channels
  <2>5. ASSUME NEW m \in Notifier
        PROVE  /\ number'[m] <= sent'
               /\ npc'[m] \in {"set", "publish"} => redis
               /\ npc'[m] \in {"list", "send"} => ~redis
               /\ npc'[m] = "send" => number'[m] > 0
               /\ targets'[m] \subseteq subs
               /\ targets'[m] # {} => npc'[m] = "send"
               /\ \A v \in targets'[m] : \A i \in 1..Len(chan[v]) : chan[v][i] # number'[m]
    <3>1. CASE m = n
      BY <1>2, <2>1, <2>3, <2>4, <3>1 DEF TypeOK
    <3>2. CASE m # n
      BY <1>2, <2>1, <2>2, <3>2 DEF OwnNumbers
    <3>3. QED BY <3>1, <3>2
  <2>6. ASSUME NEW m \in Notifier, NEW k \in Notifier, number'[m] = number'[k]
        PROVE  m = k \/ number'[m] = 0
    <3>1. CASE m # n /\ k # n
      BY <2>2, <2>6, <3>1 DEF OwnNumbers
    <3>2. CASE m = n /\ k # n
      BY <1>2, <2>2, <2>3, <2>6, <3>2
    <3>3. CASE m # n /\ k = n
      BY <1>2, <2>2, <2>3, <2>6, <3>3
    <3>4. QED BY <3>1, <3>2, <3>3
  <2>7. QED BY <1>1, <2>5, <2>6 DEF OwnNumbers
<1>5. QED BY <1>3, <1>4

LEMMA SendNumbers ==
    ASSUME TypeOK, OwnNumbers, NEW n \in Notifier, FanoutSend(n)
    PROVE  OwnNumbers'
<1>1. UNCHANGED <<redis, subs, sent, number>>
  BY DEF FanoutSend, redisVars, itemVars
<1>2. /\ npc \in [Notifier -> {"idle", "set", "publish", "list", "send", "end"}]
      /\ targets \in [Notifier -> SUBSET Viewer] /\ number \in [Notifier -> Nat]
  BY DEF TypeOK
<1>3. ASSUME NEW v \in targets[n],
             chan' = [chan EXCEPT ![v] = Offered(v, number[n])],
             targets' = [targets EXCEPT ![n] = @ \ {v}], UNCHANGED npc
      PROVE  OwnNumbers'
  <2>1. v \in Viewer /\ number[n] \in Nat /\ number[n] > 0
    BY <1>2 DEF FanoutSend, OwnNumbers
  <2>2. ChanOK' /\ Fed(v, number[n]) /\ \A w \in Viewer : w # v => chan'[w] = chan[w]
    BY <1>3, SendFacts
  <2>3. \A m \in Notifier : targets'[m] \subseteq targets[m] /\ (m = n => v \notin targets'[m])
    BY <1>2, <1>3
  <2>4. ASSUME NEW m \in Notifier, NEW w \in targets'[m], NEW i \in 1..Len(chan'[w])
        PROVE  chan'[w][i] # number[m]
    <3>1. w \in targets[m] /\ w \in Viewer
      BY <1>2, <2>3
    <3>2. CASE w # v
      BY <2>2, <3>1, <3>2 DEF OwnNumbers
    <3>3. CASE w = v
      <4>1. m # n /\ number[m] # number[n]
        BY <2>1, <2>3, <3>3 DEF OwnNumbers
      <4>2. \A j \in 1..Len(chan[v]) : chan[v][j] # number[m]
        BY <3>1, <3>3 DEF OwnNumbers
      <4>3. CASE chan'[v] = chan[v]
        BY <3>3, <4>2, <4>3
      <4>4. CASE /\ Len(chan'[v]) = Len(chan[v]) + 1
                 /\ \A j \in 1..Len(chan[v]) : chan'[v][j] = chan[v][j]
                 /\ chan'[v][Len(chan[v]) + 1] = number[n]
        <5>1. i \in 1..Len(chan[v]) \/ i = Len(chan[v]) + 1
          BY <2>1, <3>3, <4>4, NumberTypes
        <5>2. QED BY <3>3, <4>1, <4>2, <4>4, <5>1
      <4>5. QED BY <2>2, <4>3, <4>4 DEF Fed
    <3>4. QED BY <3>2, <3>3
  <2>5. QED BY <1>1, <1>3, <2>3, <2>4 DEF OwnNumbers
<1>4. CASE /\ targets[n] = {} /\ npc' = [npc EXCEPT ![n] = "end"]
           /\ UNCHANGED <<chan, targets>>
  <2>1. \A m \in Notifier : npc'[m] = IF m = n THEN "end" ELSE npc[m]
    BY <1>2, <1>4
  <2>2. QED BY <1>1, <1>4, <2>1 DEF OwnNumbers
<1>5. QED BY <1>3, <1>4 DEF FanoutSend

LEMMA NumbersStep ==
    ASSUME TypeOK, LiveIsWatched, OwnNumbers, Order, [Next]_vars
    PROVE  OwnNumbers'
<1>1. ASSUME UNCHANGED <<redis, npc, targets, number, sent, chan>>, subs \subseteq subs'
      PROVE  OwnNumbers'
  BY <1>1 DEF OwnNumbers
<1>2. ASSUME NEW n \in Notifier, Notify(n) PROVE OwnNumbers'
  BY <1>2, NotifierNumbers, SendNumbers DEF Notify, Order
<1>3. ASSUME NEW v \in Viewer, Receive(v) PROVE OwnNumbers'
  <2>1. UNCHANGED <<redis, npc, targets, number, sent, subs>>
    BY <1>3 DEF Receive, redisVars, notifyVars, itemVars
  <2>2. /\ \A w \in Viewer : w # v => chan'[w] = chan[w]
        /\ \A i \in 1..Len(chan'[v]) :
              i + 1 \in 1..Len(chan[v]) /\ chan'[v][i] = chan[v][i + 1]
    BY <1>3, ReceiveFacts
  <2>3. ASSUME NEW n \in Notifier, NEW w \in targets[n], NEW i \in 1..Len(chan'[w])
        PROVE  chan'[w][i] # number[n]
    <3>1. w \in Viewer
      BY DEF TypeOK
    <3>2. CASE w = v
      BY <2>2, <3>2 DEF OwnNumbers
    <3>3. CASE w # v
      BY <2>2, <3>1, <3>3 DEF OwnNumbers
    <3>4. QED BY <3>2, <3>3
  <2>4. QED BY <2>1, <2>3 DEF OwnNumbers
<1>4. ASSUME NEW v \in Viewer, Unsubscribe(v) PROVE OwnNumbers'
  <2>1. /\ UNCHANGED <<redis, npc, number, sent>>
        /\ subs' = subs \ {v} /\ targets' = [n \in Notifier |-> targets[n] \ {v}]
    BY <1>4 DEF Unsubscribe, Departs, redisVars
  <2>2. \A w \in Viewer : w # v => chan'[w] = chan[w]
    BY <1>4, DepartFacts DEF Unsubscribe
  <2>3. \A n \in Notifier : targets[n] \subseteq Viewer
    BY DEF TypeOK
  <2>4. ASSUME NEW n \in Notifier, NEW w \in targets'[n], NEW i \in 1..Len(chan'[w])
        PROVE  chan'[w][i] # number[n]
    BY <2>1, <2>2, <2>3 DEF OwnNumbers
  <2>5. QED BY <2>1, <2>4 DEF OwnNumbers
<1>5. ASSUME NEW v \in Viewer, Look(v) \/ NoStream(v) \/ Stream(v) \/ Leave(v)
      PROVE  OwnNumbers'
  <2>1. CASE Look(v) \/ NoStream(v) \/ LookApplies(v) \/ Subscribe(v) \/ Snapshot(v) \/ Leave(v)
    BY <1>1, <2>1 DEF Look, NoStream, LookApplies, Subscribe, Snapshot, Leave,
                      redisVars, notifyVars, itemVars
  <2>2. QED BY <1>3, <1>4, <1>5, <2>1 DEF Stream
<1>6. ASSUME NEW f \in DOMAIN fwd, Forward(f) PROVE OwnNumbers'
  <2>1. UNCHANGED <<redis, npc, targets, number, sent, subs>>
    BY <1>6 DEF Forward, ForwardJoins, ForwardTakes, FanoutIfCurrent, ForwardEnds,
                redisVars, notifyVars, itemVars
  <2>2. UNCHANGED chan \/ FanoutIfCurrent(f)
    BY <1>6 DEF Forward, ForwardJoins, ForwardTakes, ForwardEnds, viewerVars
  <2>3. CASE UNCHANGED chan
    BY <1>1, <2>1, <2>3
  <2>4. CASE FanoutIfCurrent(f) /\ live
    <3>1. \A n \in Notifier : targets[n] = {}
      BY <2>4 DEF LiveIsWatched, OwnNumbers
    <3>2. QED BY <2>1, <3>1 DEF OwnNumbers
  <2>5. CASE FanoutIfCurrent(f) /\ ~live
    <3>1. \A v \in Viewer : chan'[v] = chan[v]
      BY <2>5, HandOnFacts
    <3>2. \A n \in Notifier : targets[n] \subseteq Viewer
      BY DEF TypeOK
    <3>3. QED BY <2>1, <3>1, <3>2 DEF OwnNumbers
  <2>6. QED BY <2>2, <2>3, <2>4, <2>5
<1>7. CASE UNCHANGED vars
  BY <1>1, <1>7 DEF vars
<1>8. QED BY <1>2, <1>5, <1>6, <1>7 DEF Next
-----------------------------------------------------------------------------
LEMMA Invariance == Spec => []IInv
<1>1. IInv /\ [Next]_vars => IInv'
  <2> SUFFICES ASSUME IInv, [Next]_vars PROVE IInv'
    OBVIOUS
  <2>1. /\ TypeOK /\ RecordsRead /\ LiveIsWatched /\ Generations /\ Order /\ OwnNumbers
    BY DEF IInv, InOrder, Order
  <2>2. TypeOK' /\ RecordsRead'
    BY <2>1, TypeStep
  <2>3. LiveIsWatched' /\ Generations'
    BY <2>1, GenerationStep
  <2>4. Order' /\ OwnNumbers'
    BY <2>1, OrderStep, NumbersStep
  <2>5. QED BY <2>2, <2>3, <2>4 DEF IInv, InOrder, Order
<1>2. QED BY <1>1, Invariant0, PTL DEF Spec

(* Every variable holds a value of its kind, and no channel holds more     *)
(* than make(chan TaskUpdate, 10) in TaskItem.Subscribe allows.            *)
THEOREM TypeCorrect == Spec => []TypeOK
<1>1. IInv => TypeOK
  BY DEF IInv
<1>2. QED BY <1>1, Invariance, PTL

(* TaskItem.Subscribe and Unsubscribe keep exactly one open subscription,  *)
(* of the current generation, while anybody watches, and none otherwise.   *)
THEOREM OneSubscriptionEver == Spec => []OneSubscription
<1>1. ASSUME IInv
      PROVE  OneSubscription
  <2>1. LiveIsWatched /\ Generations
    BY <1>1 DEF IInv
  <2>2. CASE redis /\ subs # {}
    <3>1. \A g \in DOMAIN fwd : fwd[g].open <=> fwd[g].gen = gen
      BY <2>1, <2>2 DEF LiveIsWatched, Generations
    <3>2. \E g \in DOMAIN fwd : fwd[g].gen = gen
      BY <2>1, <2>2 DEF LiveIsWatched, Generations
    <3>3. QED BY <2>2, <3>1, <3>2 DEF OneSubscription
  <2>3. CASE ~(redis /\ subs # {})
    <3>1. \A g \in DOMAIN fwd : ~fwd[g].open
      BY <2>1, <2>3 DEF LiveIsWatched, Generations
    <3>2. QED BY <2>3, <3>1 DEF OneSubscription
  <2>4. QED BY <2>2, <2>3
<1>2. QED BY <1>1, Invariance, PTL

(* fanoutIfCurrent and fanout send no viewer an update twice, nor one from *)
(* before the subscription that serves it was opened.                      *)
THEOREM NoOldNewsEver == Spec => []NoOldNews
<1>1. ASSUME IInv
      PROVE  NoOldNews
  <2>1. Channels /\ \A v \in Viewer : chan[v] \in Seq(Nat)
    BY <1>1 DEF IInv, InOrder, TypeOK
  <2>2. \A v \in Viewer : DOMAIN chan[v] = 1..Len(chan[v])
    BY <2>1, LenProperties
  <2>3. ASSUME NEW v \in Viewer
        PROVE  /\ \A i \in DOMAIN chan[v] : chan[v][i] > since
               /\ \A i, j \in DOMAIN chan[v] : chan[v][i] = chan[v][j] => i = j
    <3>1. since \in Nat /\ \A i \in 1..Len(chan[v]) : chan[v][i] \in Nat
      BY <1>1, NumberTypes DEF IInv
    <3>2. \A i \in 1..Len(chan[v]) : since < chan[v][i]
      BY <2>1 DEF Channels
    <3>3. \A i, j \in 1..Len(chan[v]) : chan[v][i] = chan[v][j] => i = j
      BY <2>1 DEF Channels
    <3>4. QED BY <2>2, <3>1, <3>2, <3>3
  <2>4. QED BY <2>3 DEF NoOldNews
<1>2. QED BY <1>1, Invariance, PTL
-----------------------------------------------------------------------------
(* LatecomersSeeTheEnd needs to know where the final status is kept while   *)
(* notifiers and viewers are under way.                                     *)

(* Without Redis every notifier is here.                                    *)
Ways ==
    /\ redis \/ here = Notifier
    /\ \A n \in Notifier : npc[n] \in {"set", "publish"} => redis
    /\ \A n \in Notifier : npc[n] \in {"list", "send"} => ~redis

(* Who has notified here left a final status in the item, and who publishes *)
(* left one at the key; what a late viewer has read of either is final.     *)
Told ==
    /\ \A n \in here : npc[n] # "idle" => item = "done"
    /\ \A n \in Notifier : npc[n] = "publish" => key = "done"
    /\ sent > 0 => IF redis THEN key = "done" ELSE item = "done"
    /\ \A v \in Viewer : late[v] =>
          /\ sent > 0 /\ vpc[v] # "loop"
          /\ vpc[v] = "apply" => vread[v] = "done"
          /\ vpc[v] \in {"subscribe", "snapshot"} => item = "done"

(* ... as long as no fault and no old status comes between.                 *)
EndIsKept == Ways /\ (faults = 0 /\ ~setBack => Told)

(* The kinds that the steps below are about. *)
Kinds ==
    /\ here \subseteq Notifier
    /\ npc \in [Notifier -> {"idle", "set", "publish", "list", "send", "end"}]
    /\ vpc \in [Viewer -> {"away", "apply", "subscribe", "snapshot", "loop", "closing", "over"}]
    /\ vread \in [Viewer -> Status] /\ late \in [Viewer -> BOOLEAN]
    /\ sent \in Nat /\ faults \in Nat

LEMMA KindsHold == TypeOK => Kinds
<1> SUFFICES ASSUME TypeOK PROVE Kinds
  OBVIOUS
<1>1. sent \in Nat /\ faults \in Nat
  BY StreamAssumption DEF TypeOK
<1>2. QED BY <1>1 DEF TypeOK, Kinds

LEMMA NotifierKeeps ==
    ASSUME Kinds, EndIsKept, NEW n \in Notifier, Notify(n)
    PROVE  EndIsKept'
<1>0. faults' = 0 => faults = 0 /\ faults' = faults
  BY DEF Notify, NotifyLocal, NotifySet, NotifyPublish, FanoutList, FanoutSend, Fault, NoFault, Kinds
<1>1. UNCHANGED <<redis, here, vpc, vread, late, setBack>>
  BY DEF Notify, NotifyLocal, NotifySet, NotifyPublish, FanoutList, FanoutSend, redisVars,
     viewerVars, itemVars, history
<1>2. CASE NotifyLocal(n)
  <2>1. /\ npc' = [npc EXCEPT ![n] = IF redis THEN "set" ELSE "list"]
        /\ item' = IF n \in here THEN "done" ELSE item
        /\ UNCHANGED <<key, sent>>
    BY <1>2 DEF NotifyLocal, redisVars
  <2>2. Ways'
    BY <1>1, <2>1 DEF EndIsKept, Ways, Kinds
  <2>3. Told => Told'
    BY <1>1, <2>1 DEF Told, Kinds
  <2>4. QED BY <1>0, <1>1, <2>2, <2>3 DEF EndIsKept
<1>3. CASE NotifySet(n)
  <2>1. /\ npc[n] = "set"
        /\ \/ /\ key' = IF n \in here THEN item ELSE "done"
              /\ npc' = [npc EXCEPT ![n] = "publish"]
              /\ UNCHANGED faults
           \/ npc' = [npc EXCEPT ![n] = "end"] /\ faults' = faults + 1
        /\ UNCHANGED <<item, sent>>
    BY <1>3 DEF NotifySet, Fault, NoFault
  <2>2. Ways'
    BY <1>1, <2>1 DEF EndIsKept, Ways, Kinds
  <2>3. ASSUME Told, faults' = 0 PROVE Told'
    <3>1. key' = "done" /\ npc' = [npc EXCEPT ![n] = "publish"]
      BY <2>1, <2>3 DEF Told, Kinds
    <3>2. redis
      BY <2>1 DEF EndIsKept, Ways
    <3>3. QED BY <1>1, <2>1, <2>3, <3>1, <3>2 DEF Told, Kinds
  <2>4. QED BY <1>0, <1>1, <2>2, <2>3 DEF EndIsKept
<1>4. CASE NotifyPublish(n)
  <2>1. /\ npc[n] = "publish" /\ npc' = [npc EXCEPT ![n] = "end"] /\ sent' = sent + 1
        /\ UNCHANGED <<key, item>>
    BY <1>4 DEF NotifyPublish, redisVars
  <2>2. Ways' /\ redis
    BY <1>1, <2>1 DEF EndIsKept, Ways, Kinds
  <2>3. Told => Told'
    BY <1>1, <2>1, <2>2 DEF Told, Kinds
  <2>4. QED BY <1>0, <1>1, <2>2, <2>3 DEF EndIsKept
<1>5. CASE FanoutList(n)
  <2>1. /\ npc[n] = "list" /\ npc' = [npc EXCEPT ![n] = "send"] /\ sent' = sent + 1
        /\ UNCHANGED <<key, item>>
    BY <1>5 DEF FanoutList, redisVars
  <2>2. Ways' /\ ~redis /\ n \in here
    BY <1>1, <2>1 DEF EndIsKept, Ways, Kinds
  <2>3. Told => Told'
    BY <1>1, <2>1, <2>2 DEF Told, Kinds
  <2>4. QED BY <1>0, <1>1, <2>2, <2>3 DEF EndIsKept
<1>6. CASE FanoutSend(n)
  <2>1. /\ npc[n] = "send" /\ (npc' = npc \/ npc' = [npc EXCEPT ![n] = "end"])
        /\ UNCHANGED <<key, item, sent>>
    BY <1>6 DEF FanoutSend, redisVars
  <2>2. Ways'
    BY <1>1, <2>1 DEF EndIsKept, Ways, Kinds
  <2>3. Told => Told'
    BY <1>1, <2>1 DEF Told, Kinds
  <2>4. QED BY <1>0, <1>1, <2>2, <2>3 DEF EndIsKept
<1>7. QED BY <1>2, <1>3, <1>4, <1>5, <1>6 DEF Notify

LEMMA ViewerKeeps ==
    ASSUME Kinds, EndIsKept, NEW v \in Viewer, Look(v) \/ NoStream(v) \/ Stream(v) \/ Leave(v)
    PROVE  EndIsKept'
<1>0. faults' = 0 => faults = 0 /\ faults' = faults
  BY DEF Look, NoStream, Stream, Leave, LookApplies, Subscribe, Snapshot, Receive, Unsubscribe,
     Departs, Fault, NoFault, Kinds
<1>1. UNCHANGED <<redis, here, key, npc, sent>>
  BY DEF Look, NoStream, Stream, Leave, LookApplies, Subscribe, Snapshot, Receive, Unsubscribe,
     Departs, redisVars, notifyVars
<1>2. Ways'
  BY <1>1 DEF EndIsKept, Ways
<1>3. ASSUME NEW place, vpc' = [vpc EXCEPT ![v] = place], UNCHANGED <<item, vread, setBack>>,
             late' = late \/ late' = [late EXCEPT ![v] = FALSE],
             late'[v] => place # "loop" /\ place # "apply"
                         /\ (place \in {"subscribe", "snapshot"} => item = "done")
      PROVE  EndIsKept'
  <2>1. ASSUME Told PROVE Told'
    BY <1>1, <1>3, <2>1 DEF Told, Kinds
  <2>2. QED BY <1>0, <1>2, <1>3, <2>1 DEF EndIsKept
<1>4. CASE Look(v)
  <2>1. /\ vpc[v] = "away" /\ late' = [late EXCEPT ![v] = sent > 0]
        /\ \/ /\ Refreshes /\ vread' = [vread EXCEPT ![v] = key]
              /\ vpc' = [vpc EXCEPT ![v] = "apply"]
           \/ faults' = faults + 1
           \/ /\ ~Refreshes /\ UNCHANGED vread
              /\ vpc' = [vpc EXCEPT ![v] = "subscribe"]
        /\ UNCHANGED <<item, setBack>>
    BY <1>4 DEF Look, Goto, Fault
  <2>2. ASSUME Told, faults' = 0 PROVE Told'
    <3>1. faults' # faults + 1
      BY <1>0, <2>2 DEF Kinds
    <3>2. CASE /\ Refreshes /\ vread' = [vread EXCEPT ![v] = key]
               /\ vpc' = [vpc EXCEPT ![v] = "apply"]
      BY <1>1, <2>1, <2>2, <3>2 DEF Told, Kinds, Refreshes
    <3>3. CASE ~Refreshes /\ UNCHANGED vread /\ vpc' = [vpc EXCEPT ![v] = "subscribe"]
      <4>1. sent > 0 => item = "done"
        BY <2>2, <3>3 DEF Told, Refreshes
      <4>2. QED BY <1>1, <2>1, <2>2, <3>3, <4>1 DEF Told, Kinds
    <3>4. QED BY <2>1, <3>1, <3>2, <3>3
  <2>3. QED BY <1>0, <1>2, <2>1, <2>2 DEF EndIsKept
<1>5. CASE LookApplies(v)
  <2>1. /\ vpc[v] = "apply" /\ item' = vread[v]
        /\ setBack' = (setBack \/ (item = "done" /\ vread[v] # "done"))
        /\ vread' = [vread EXCEPT ![v] = "none"]
        /\ vpc' = [vpc EXCEPT ![v] = "subscribe"] /\ UNCHANGED late
    BY <1>5 DEF LookApplies, Apply, Goto
  <2>2. ASSUME Told, ~setBack' PROVE Told'
    <3>1. item = "done" => item' = "done"
      BY <2>1, <2>2
    <3>2. late[v] => item' = "done"
      BY <2>1, <2>2 DEF Told
    <3>3. QED BY <1>1, <2>1, <2>2, <3>1, <3>2 DEF Told, Kinds
  <2>3. ~setBack' => ~setBack
    BY <2>1
  <2>4. QED BY <1>0, <1>2, <2>2, <2>3 DEF EndIsKept
<1>6. CASE NoStream(v)
  <2>1. late'[v] = FALSE
    BY <1>6 DEF NoStream, Kinds
  <2>2. QED BY <1>3, <1>6, <2>1 DEF NoStream, Goto
<1>7. CASE Subscribe(v) \/ Snapshot(v) \/ Receive(v) \/ Leave(v)
  <2>1. late' = late /\ UNCHANGED <<item, vread, setBack>>
    BY <1>7 DEF Subscribe, Snapshot, Receive, Leave
  <2>2. ASSUME Told, late[v] PROVE vpc[v] \in {"subscribe", "snapshot"} => item = "done"
    BY <2>2 DEF Told
  <2>3. CASE ~Told
    <3>1. faults # 0 \/ setBack
      BY <2>3 DEF EndIsKept
    <3>2. QED BY <1>0, <1>2, <2>1, <3>1 DEF EndIsKept
  <2>4. CASE Told
    <3>1. CASE Subscribe(v)
      BY <1>3, <2>1, <2>2, <2>4, <3>1 DEF Subscribe, Goto
    <3>2. CASE Snapshot(v)
      BY <1>3, <2>1, <2>2, <2>4, <3>2 DEF Snapshot, Goto
    <3>3. CASE Receive(v) \/ Leave(v)
      BY <1>3, <2>1, <3>3 DEF Receive, Leave, Goto
    <3>4. QED BY <1>7, <3>1, <3>2, <3>3
  <2>5. QED BY <2>3, <2>4
<1>8. CASE Unsubscribe(v)
  <2>1. /\ late' = [late EXCEPT ![v] = FALSE] /\ UNCHANGED <<item, vread, setBack>>
        /\ vpc' = [vpc EXCEPT ![v] = IF heard[v] THEN "over" ELSE "away"]
    BY <1>8 DEF Unsubscribe, Departs, Goto
  <2>2. late'[v] = FALSE
    BY <2>1 DEF Kinds
  <2>3. QED BY <1>3, <2>1, <2>2
<1>9. QED BY <1>4, <1>5, <1>6, <1>7, <1>8 DEF Stream

LEMMA EndIsAlwaysKept == Spec => []EndIsKept
<1>1. Init => EndIsKept
  <2> SUFFICES ASSUME Init PROVE EndIsKept
    OBVIOUS
  <2>1. Ways
    BY DEF Init, Ways
  <2>2. Told
    BY DEF Init, Told
  <2>3. QED BY <2>1, <2>2 DEF EndIsKept
<1>2. TypeOK /\ EndIsKept /\ [Next]_vars => EndIsKept'
  <2> SUFFICES ASSUME Kinds, EndIsKept, [Next]_vars PROVE EndIsKept'
    BY KindsHold
  <2>1. CASE \E n \in Notifier : Notify(n)
    BY <2>1, NotifierKeeps
  <2>2. CASE \E v \in Viewer : Look(v) \/ NoStream(v) \/ Stream(v) \/ Leave(v)
    BY <2>2, ViewerKeeps
  <2>3. CASE \E f \in DOMAIN fwd : Forward(f)
    <3>1. UNCHANGED <<redis, here, key, item, npc, sent, vpc, vread, late, setBack, faults>>
      <4>1. PICK f \in DOMAIN fwd : Forward(f)
        BY <2>3
      <4>2. QED BY <4>1 DEF Forward, ForwardJoins, ForwardTakes, FanoutIfCurrent, ForwardEnds,
                   redisVars, notifyVars, viewerVars, history
    <3>2. QED BY <3>1 DEF EndIsKept, Ways, Told
  <2>4. CASE UNCHANGED vars
    BY <2>4 DEF vars, EndIsKept, Ways, Told
  <2>5. QED BY <2>1, <2>2, <2>3, <2>4 DEF Next
<1>3. QED BY <1>1, <1>2, TypeCorrect, PTL DEF Spec

(* A viewer that has looked the task up after its end was published is told *)
(* so by the snapshot, with any number of viewers, notifiers and viewings,  *)
(* unless Redis failed or a Get set the item back (TaskManager.Get,         *)
(* StreamTaskProgress).                                                     *)
THEOREM Latecomers == Spec => []LatecomersSeeTheEnd
<1>1. EndIsKept => LatecomersSeeTheEnd
  BY DEF EndIsKept, Told, LatecomersSeeTheEnd
<1>2. QED BY <1>1, EndIsAlwaysKept, PTL
=============================================================================
