---------------------------- MODULE TaskMapProofs ----------------------------
(* Theorems about TaskMap, for any lookups, runs, items and times. *)
EXTENDS TaskMap, TLAPS

(* What the places of lookups and runs say of the items they hold; the lock *)
(* keeps the map empty until its run has put an item into it.               *)
Places ==
    /\ \A r \in Run :
          /\ runs[r].at = "running" <=> runs[r].item # NoItem
          /\ runs[r].at \in {"read", "write"} => lock = r /\ map = NoItem
    /\ \A g \in Lookup :
          /\ lookups[g].at \in {"idle", "fetch", "install", "read", "over"}
                => lookups[g].item = NoItem
          /\ lookups[g].at \in {"idle", "fetch", "reread", "apply", "install", "over"}
                => lookups[g].own = NoItem
          /\ lookups[g].at \in {"reread", "apply"} => lookups[g].item # NoItem
          /\ lookups[g].at = "read" => lookups[g].own # NoItem

(* An item in hand is in the map, or its leaving was noted. *)
Traced ==
    \A g \in Lookup : \A i \in {lookups[g].item, lookups[g].own} :
        i = NoItem \/ i = map \/ i \in severed

(* What a late lookup has seen so far is the end, and stays the end. *)
LateSoFar ==
    \A g \in Lookup : lookups[g].late /\ ~undone =>
        /\ Final(record.status)
        /\ lookups[g].at = "install" => Final(lookups[g].read)
        /\ lookups[g].at = "apply" => Final(lookups[g].read)
        /\ lookups[g].at = "read" => Final(items[lookups[g].own].status) \/ g \in robbed

IInv == TypeOK /\ Places

Trace == Traced /\ CopiesHaveACause /\ GetFindsItsItem

Late == LateSoFar /\ LateLookupsSeeTheEnd

ItemType == [status : Status, born : 0..MaxTime, watchers : SUBSET Lookup]

LEMMA NewItemType ==
    ASSUME TypeOK, NEW i \in Item, NEW status \in Status, NEW born \in 0..MaxTime,
           NewItem(i, status, born)
    PROVE  /\ built' = i /\ i = built + 1 /\ built' \in 0..MaxItems
           /\ built \in 0..i /\ built < i
           /\ items' \in [Item -> ItemType]
           /\ 0..built \subseteq 0..built'
           /\ items'[i] = [status |-> status, born |-> born, watchers |-> {}]
           /\ \A j \in Item \ {i} : items'[j] = items[j]
<1>1. [status |-> status, born |-> born, watchers |-> {}] \in ItemType
  BY DEF ItemType
<1>2. items \in [Item -> ItemType]
  BY DEF TypeOK, ItemType
<1>3. items' \in [Item -> ItemType]
  BY <1>1, <1>2 DEF NewItem
<1>4. /\ items'[i] = [status |-> status, born |-> born, watchers |-> {}]
      /\ \A j \in Item \ {i} : items'[j] = items[j]
  BY <1>2 DEF NewItem
<1>5. QED
  BY <1>3, <1>4, ItemAssumption DEF NewItem, TypeOK, Item

LEMMA StoreType ==
    ASSUME TypeOK, NEW status \in Status, NEW born \in 0..MaxTime, Store(status, born)
    PROVE  /\ record' \in [status : Status, born : 0..MaxTime]
           /\ undone' \in BOOLEAN
           /\ record'.status = status
           /\ ~undone' => ~undone /\ (Final(record.status) => Final(status))
<1>1. undone' \in BOOLEAN
  BY Zenon DEF Store
<1>2. record' \in [status : Status, born : 0..MaxTime] /\ record'.status = status
  BY DEF Store
<1>3. ~undone' => ~undone /\ (Final(record.status) => Final(status))
  BY Zenon DEF Store
<1>4. QED BY <1>1, <1>2, <1>3

LEMMA InitInv == Init => IInv
<1> SUFFICES ASSUME Init PROVE IInv
  OBVIOUS
<1> USE ItemAssumption, TimeAssumption DEF Init
<1>1. items \in [Item -> ItemType]
  BY DEF Blank, Status, ItemType
<1>2. /\ lookups \in [Lookup -> [
          at : {"idle", "fetch", "reread", "apply", "install", "read", "got", "over"},
          item : 0..built, own : 0..built, read : Status, born : 0..MaxTime,
          late : BOOLEAN]]
      /\ runs \in [Run -> [at : {"idle", "read", "write", "running", "over"},
                           item : 0..built, read : Status]]
  BY DEF NoItem, Status
<1>3. /\ record \in [status : Status, born : 0..MaxTime]
      /\ built \in 0..MaxItems /\ map \in 0..built /\ lock \in Run \cup {Nobody}
      /\ now \in 0..MaxTime /\ faults \in 0..MaxFaults /\ severed \subseteq Item
      /\ robbed \subseteq Lookup
  BY DEF NoItem, Status
<1>4. undone \in BOOLEAN
  OBVIOUS
<1>5. TypeOK
  BY <1>1, <1>2, <1>3, <1>4 DEF TypeOK, ItemType
<1>6. Places
  BY DEF Places, NoItem
<1>7. QED BY <1>5, <1>6 DEF IInv

LookupType == [at : {"idle", "fetch", "reread", "apply", "install", "read", "got", "over"},
               item : 0..built, own : 0..built, read : Status, born : 0..MaxTime,
               late : BOOLEAN]
RunType == [at : {"idle", "read", "write", "running", "over"},
            item : 0..built, read : Status]

LEMMA GetType ==
    ASSUME IInv, NEW g \in Lookup, GetSteps(g) \/ Unsubscribe(g)
    PROVE  IInv'
<1> USE DEF IInv
<1>1. CASE GetLook(g)
  <2>1. map \in Item \/ map = NoItem
    BY ItemAssumption DEF TypeOK, Item, NoItem
  <2>2. Final(record.status) \in BOOLEAN
    BY DEF Final
  <2>3. lookups' \in [Lookup -> LookupType]
    BY <1>1, <2>1, <2>2, TimeAssumption DEF GetLook, TypeOK, LookupType, NoItem, Status
  <2>4. TypeOK'
    BY <1>1, <2>3 DEF GetLook, TypeOK, LookupType
  <2>5. Places'
    BY <1>1, <2>1 DEF GetLook, TypeOK, Places, NoItem
  <2>6. QED BY <2>4, <2>5
<1>10. CASE GetReread(g)
  <2> DEFINE at == IF record.status = "none" THEN "got" ELSE "apply"
             l == [lookups[g] EXCEPT !.at = at, !.read = record.status]
  <2>1. at \in {"got", "apply"}
    OBVIOUS
  <2> HIDE DEF at
  <2>2. lookups[g] \in LookupType /\ record.status \in Status
    BY DEF TypeOK, LookupType
  <2>3. l \in LookupType
    BY <2>1, <2>2 DEF LookupType
  <2>4. lookups' = [lookups EXCEPT ![g] = l]
    BY <1>10 DEF GetReread, TypeOK, at
  <2> HIDE DEF l
  <2>5. lookups' \in [Lookup -> LookupType]
    BY <2>3, <2>4 DEF TypeOK, LookupType
  <2>6. TypeOK'
    BY <1>10, <2>5 DEF GetReread, TypeOK, LookupType
  <2>7. Places'
    BY <1>10 DEF GetReread, TypeOK, Places
  <2>8. QED BY <2>6, <2>7
<1>2. CASE GetApply(g)
  <2>1. lookups[g].item \in Item /\ lookups[g].read \in Status
    BY <1>2, ItemAssumption DEF GetApply, TypeOK, Places, Item, NoItem
  <2>2. items' \in [Item -> ItemType]
    BY <1>2, <2>1 DEF GetApply, TypeOK, ItemType
  <2>3. lookups' \in [Lookup -> LookupType] /\ robbed' \subseteq Lookup
    BY <1>2 DEF GetApply, Step, TypeOK, LookupType, AnsweredBy
  <2>4. TypeOK'
    BY <1>2, <2>2, <2>3 DEF GetApply, TypeOK, LookupType, ItemType
  <2>5. Places'
    BY <1>2 DEF GetApply, Step, TypeOK, Places
  <2>6. QED BY <2>4, <2>5
<1>3. CASE GetFetch(g)
  <2> DEFINE at == IF record.status = "none" THEN "over" ELSE "install"
             l == [lookups[g] EXCEPT !.at = at, !.read = record.status,
                                     !.born = record.born]
  <2>1. at \in {"over", "install"}
    OBVIOUS
  <2> HIDE DEF at
  <2>2. lookups[g] \in LookupType /\ record.status \in Status /\ record.born \in 0..MaxTime
    BY DEF TypeOK, LookupType
  <2>3. l \in LookupType
    BY <2>1, <2>2 DEF LookupType
  <2>4. lookups' = [lookups EXCEPT ![g] = l]
    BY <1>3 DEF GetFetch, TypeOK, at
  <2> HIDE DEF l
  <2>5. lookups' \in [Lookup -> LookupType]
    BY <2>3, <2>4 DEF TypeOK, LookupType
  <2>6. TypeOK'
    BY <1>3, <2>5 DEF GetFetch, TypeOK, LookupType
  <2>7. Places'
    BY <1>3 DEF GetFetch, TypeOK, Places
  <2>8. QED BY <2>6, <2>7
<1>4. CASE GetFails(g)
  <2>1. lookups' \in [Lookup -> LookupType]
    BY <1>4 DEF GetFails, TypeOK, LookupType
  <2>2. TypeOK'
    BY <1>4, <2>1, TimeAssumption DEF GetFails, TypeOK, LookupType
  <2>3. Places'
    BY <1>4 DEF GetFails, TypeOK, Places
  <2>4. QED BY <2>2, <2>3
<1>5. CASE GetInstall(g)
  <2>1. PICK i \in Item :
          /\ NewItem(i, lookups[g].read, lookups[g].born)
          /\ map' = i
          /\ lookups' = [lookups EXCEPT ![g] = Installed(i, lookups[g].late)]
    BY <1>5 DEF GetInstall
  <2>2. lookups[g].read \in Status /\ lookups[g].born \in 0..MaxTime
        /\ lookups[g].late \in BOOLEAN
    BY DEF TypeOK
  <2>3. /\ built' = i /\ built' \in 0..MaxItems /\ 0..built \subseteq 0..built'
        /\ items' \in [Item -> ItemType]
    BY <2>1, <2>2, NewItemType
  <2>4. Installed(i, lookups[g].late) \in LookupType'
    BY <2>2, <2>3, TimeAssumption DEF Installed, LookupType, Status, NoItem, Item
  <2>5. lookups' \in [Lookup -> LookupType']
    BY <2>1, <2>3, <2>4 DEF TypeOK, LookupType
  <2>6. runs' \in [Run -> RunType']
    BY <1>5, <2>3 DEF GetInstall, TypeOK, RunType
  <2>7. severed' \subseteq Item
    BY <1>5, ItemAssumption DEF GetInstall, TypeOK, Item, NoItem
  <2>8. map' \in 0..built'
    BY <2>1, <2>3 DEF Item
  <2>9. TypeOK'
    BY <1>5, <2>3, <2>5, <2>6, <2>7, <2>8
    DEF GetInstall, TypeOK, LookupType, RunType, ItemType
  <2>10. i # NoItem
    BY ItemAssumption DEF Item, NoItem
  <2>11. Places'
    <3>1. \A r \in Run : runs[r].at \notin {"read", "write"}
      BY <1>5, ItemAssumption DEF GetInstall, Free, Places
    <3>2. QED
      BY <1>5, <2>1, <2>10, <3>1 DEF GetInstall, Places, TypeOK, Installed
  <2>12. QED BY <2>9, <2>11
<1>6. CASE GetReadBack(g)
  <2> DEFINE l == [lookups[g] EXCEPT !.at = "got", !.item = map]
  <2>1. l \in LookupType
    BY DEF TypeOK, LookupType
  <2>2. lookups' = [lookups EXCEPT ![g] = l]
    BY <1>6 DEF GetReadBack, TypeOK
  <2> HIDE DEF l
  <2>3. lookups' \in [Lookup -> LookupType]
    BY <2>1, <2>2 DEF TypeOK, LookupType
  <2>4. TypeOK'
    BY <1>6, <2>3 DEF GetReadBack, TypeOK, LookupType
  <2>5. Places'
    BY <1>6 DEF GetReadBack, TypeOK, Places
  <2>6. QED BY <2>4, <2>5
<1>7. CASE GetAnswer(g) \/ Subscribe(g)
  <2>1. Over \in LookupType
    BY TimeAssumption DEF Over, LookupType, NoItem, Status, TypeOK
  <2>2. lookups' = [lookups EXCEPT ![g] = Over]
    BY <1>7 DEF GetAnswer, Subscribe
  <2>3. lookups' \in [Lookup -> LookupType]
    BY <2>1, <2>2 DEF TypeOK, LookupType
  <2>4. items' \in [Item -> ItemType]
    BY <1>7 DEF GetAnswer, Subscribe, TypeOK, ItemType
  <2>5. TypeOK'
    BY <1>7, <2>3, <2>4 DEF GetAnswer, Subscribe, TypeOK, LookupType, ItemType
  <2>6. Places'
    BY <1>7, <2>2 DEF GetAnswer, Subscribe, TypeOK, Places, Over
  <2>7. QED BY <2>5, <2>6
<1>8. CASE Unsubscribe(g)
  <2>1. items' \in [Item -> ItemType]
    BY <1>8 DEF Unsubscribe, TypeOK, ItemType
  <2>2. QED
    BY <1>8, <2>1 DEF Unsubscribe, TypeOK, ItemType, Places
<1>9. QED
  BY <1>1, <1>2, <1>3, <1>4, <1>5, <1>6, <1>7, <1>8, <1>10 DEF GetSteps

LEMMA RunStepType ==
    ASSUME IInv, NEW r \in Run, RunSteps(r)
    PROVE  IInv'
<1> USE DEF IInv
<1>1. CASE CreateLook(r)
  <2>1. runs' \in [Run -> RunType]
    BY <1>1 DEF CreateLook, TypeOK, RunType, Status
  <2>2. TypeOK'
    BY <1>1, <2>1 DEF CreateLook, TypeOK, RunType
  <2>3. \A s \in Run : runs[s].at \notin {"read", "write"}
    BY <1>1, ItemAssumption DEF CreateLook, Free, Places
  <2>4. Places'
    BY <1>1, <2>3 DEF CreateLook, Places, TypeOK
  <2>5. QED BY <2>2, <2>4
<1>2. CASE CreateRead(r)
  <2>1. runs' \in [Run -> RunType]
    BY <1>2 DEF CreateRead, TypeOK, RunType
  <2>2. TypeOK'
    BY <1>2, <2>1, TimeAssumption DEF CreateRead, TypeOK, RunType
  <2>3. Places'
    BY <1>2 DEF CreateRead, TypeOK, Places
  <2>4. QED BY <2>2, <2>3
<1>3. CASE CreateWrite(r)
  <2>1. PICK i \in Item :
          /\ NewItem(i, Fresh(r), now)
          /\ map' = i
          /\ runs' = [runs EXCEPT ![r].at = "running", ![r].item = i]
    BY <1>3 DEF CreateWrite
  <2>2. Fresh(r) \in Status /\ now \in 0..MaxTime
    BY DEF TypeOK, Fresh, Status
  <2>3. /\ built' = i /\ built' \in 0..MaxItems /\ 0..built \subseteq 0..built'
        /\ items' \in [Item -> ItemType]
    BY <2>1, <2>2, NewItemType
  <2>4. /\ record' \in [status : Status, born : 0..MaxTime]
        /\ undone' \in BOOLEAN /\ faults' \in 0..MaxFaults
    BY <1>3, <2>2, StoreType, TimeAssumption DEF CreateWrite, TypeOK
  <2>5. i \in 0..built' /\ i # NoItem
    BY <2>3, ItemAssumption DEF Item, NoItem
  <2> DEFINE c == [runs[r] EXCEPT !.at = "running", !.item = i]
  <2>6. c \in RunType'
    BY <2>5 DEF TypeOK, RunType
  <2>7. runs' = [runs EXCEPT ![r] = c]
    BY <2>1 DEF TypeOK
  <2>8. runs \in [Run -> RunType']
    BY <2>3 DEF TypeOK, RunType
  <2> HIDE DEF c
  <2>9. runs' \in [Run -> RunType']
    BY <2>6, <2>7, <2>8
  <2>10. lookups' \in [Lookup -> LookupType']
    BY <1>3, <2>3 DEF CreateWrite, TypeOK, LookupType
  <2>11. TypeOK'
    BY <1>3, <2>1, <2>3, <2>4, <2>5, <2>9, <2>10
    DEF CreateWrite, TypeOK, LookupType, RunType, ItemType
  <2>12. \A s \in Run \ {r} : runs[s].at \notin {"read", "write"}
    BY <1>3 DEF CreateWrite, Places
  <2>13. Places'
    BY <1>3, <2>1, <2>5, <2>12 DEF CreateWrite, Places, TypeOK
  <2>14. QED BY <2>11, <2>13
<1>4. CASE RunEnds(r)
  <2>1. runs[r].item \in Item
    BY <1>4, ItemAssumption DEF RunEnds, Places, TypeOK, Item, NoItem
  <2>2. items[runs[r].item].born \in 0..MaxTime /\ "done" \in Status
    BY <2>1 DEF TypeOK, Status
  <2>3. /\ record' \in [status : Status, born : 0..MaxTime]
        /\ undone' \in BOOLEAN /\ faults' \in 0..MaxFaults
    BY <1>4, <2>2, StoreType, TimeAssumption DEF RunEnds, TypeOK
  <2>4. items' \in [Item -> ItemType]
    <3>1. items \in [Item -> ItemType]
      BY DEF TypeOK, ItemType
    <3>2. [items[runs[r].item] EXCEPT !.status = "done"] \in ItemType
      BY <2>1, <2>2, <3>1 DEF ItemType
    <3>3. items' = [items EXCEPT ![runs[r].item] = [items[runs[r].item] EXCEPT !.status = "done"]]
      BY <1>4 DEF RunEnds
    <3> HIDE DEF ItemType
    <3>4. QED BY <2>1, <3>1, <3>2, <3>3
  <2>5. runs' \in [Run -> RunType]
    BY <1>4 DEF RunEnds, TypeOK, RunType, NoItem, Status
  <2>6. TypeOK'
    BY <1>4, <2>3, <2>4, <2>5 DEF RunEnds, TypeOK, RunType, ItemType
  <2>7. Places'
    BY <1>4 DEF RunEnds, Places, TypeOK
  <2>8. QED BY <2>6, <2>7
<1>5. QED BY <1>1, <1>2, <1>3, <1>4 DEF RunSteps

LEMMA OtherType ==
    ASSUME IInv, Elsewhere \/ Cleanup \/ Tick \/ UNCHANGED vars
    PROVE  IInv'
<1> USE DEF IInv
<1>1. CASE Elsewhere
  <2>1. now \in 0..MaxTime /\ record.born \in 0..MaxTime
        /\ "processing" \in Status /\ "done" \in Status
    BY DEF TypeOK, Status
  <2>2. record' \in [status : Status, born : 0..MaxTime] /\ undone' \in BOOLEAN
    BY <1>1, <2>1, StoreType DEF Elsewhere
  <2>3. QED BY <1>1, <2>2 DEF Elsewhere, TypeOK, Places
<1>2. CASE Cleanup
  <2>1. map \in Item
    BY <1>2, ItemAssumption DEF Cleanup, TypeOK, Item, NoItem
  <2>2. severed' \subseteq Item /\ map' \in 0..built
    BY <1>2, <2>1 DEF Cleanup, TypeOK, NoItem
  <2>3. TypeOK'
    BY <1>2, <2>2 DEF Cleanup, TypeOK
  <2>4. Places'
    BY <1>2 DEF Cleanup, Places, Free
  <2>5. QED BY <2>3, <2>4
<1>3. CASE Tick
  BY <1>3, TimeAssumption DEF Tick, TypeOK, Places
<1>4. CASE UNCHANGED vars
  BY <1>4 DEF vars, TypeOK, Places
<1>5. QED BY <1>1, <1>2, <1>3, <1>4

LEMMA NextType == IInv /\ [Next]_vars => IInv'
BY GetType, RunStepType, OtherType DEF Next

-----------------------------------------------------------------------------
(* Where the items in use are *)

LEMMA InitTrace == Init => Trace /\ Late
<1> SUFFICES ASSUME Init PROVE Trace /\ Late
  OBVIOUS
<1>1. Traced
  BY DEF Init, Traced, NoItem
<1>2. CopiesHaveACause
  BY DEF Init, CopiesHaveACause, HeldByRun, Blank, NoItem, Item
<1>3. GetFindsItsItem /\ Late
  BY DEF Init, GetFindsItsItem, Late, LateSoFar, LateLookupsSeeTheEnd
<1>4. QED BY <1>1, <1>2, <1>3 DEF Trace

LEMMA GetTrace ==
    ASSUME IInv, Trace, NEW g \in Lookup, GetSteps(g) \/ Unsubscribe(g)
    PROVE  Trace'
<1> USE DEF IInv, Trace
<1>1. CASE GetLook(g) \/ GetReread(g) \/ GetApply(g) \/ GetFetch(g) \/ GetFails(g)
  <2>1. \A h \in Lookup :
           \/ lookups'[h].item = lookups[h].item /\ lookups'[h].own = lookups[h].own
           \/ lookups'[h].item = map /\ lookups'[h].own = NoItem
    BY <1>1 DEF GetLook, GetReread, GetApply, GetFetch, GetFails, Step, TypeOK
  <2>2. UNCHANGED <<map, runs, severed>>
    BY <1>1 DEF GetLook, GetReread, GetApply, GetFetch, GetFails
  <2>3. Traced'
    BY <2>1, <2>2 DEF Traced
  <2>4. \A i \in Item : items'[i].watchers = items[i].watchers
    <3>1. items' = items \/ items' = [items EXCEPT ![lookups[g].item].status = lookups[g].read]
      BY <1>1 DEF GetLook, GetReread, GetApply, GetFetch, GetFails
    <3>2. QED BY <3>1 DEF TypeOK
  <2>5. CopiesHaveACause'
    BY <2>2, <2>4 DEF CopiesHaveACause, HeldByRun
  <2>6. \A h \in Lookup :
           \/ lookups'[h].own = NoItem
           \/ lookups'[h].item = lookups[h].item /\ lookups'[h].own = lookups[h].own
              /\ lookups'[h].at = lookups[h].at
    BY <1>1 DEF GetLook, GetReread, GetApply, GetFetch, GetFails, Step, TypeOK, Places
  <2>7. GetFindsItsItem'
    BY <2>2, <2>6 DEF GetFindsItsItem
  <2>8. QED BY <2>3, <2>5, <2>7
<1>2. CASE GetInstall(g)
  <2>1. PICK i \in Item :
          /\ NewItem(i, lookups[g].read, lookups[g].born)
          /\ map' = i
          /\ lookups' = [lookups EXCEPT ![g] = Installed(i, lookups[g].late)]
    BY <1>2 DEF GetInstall
  <2>2. lookups[g].read \in Status /\ lookups[g].born \in 0..MaxTime
    BY DEF TypeOK
  <2>3. /\ items'[i] = [status |-> lookups[g].read, born |-> lookups[g].born, watchers |-> {}]
         /\ \A j \in Item \ {i} : items'[j] = items[j]
    BY <2>1, <2>2, NewItemType
  <2>4. items'[i].watchers = {} /\ \A j \in Item \ {i} : items'[j] = items[j]
    BY <2>3
  <2>5. \A j \in severed \cup {map} : j = NoItem \/ j \in severed'
    BY <1>2 DEF GetInstall
  <2>6. UNCHANGED runs
    BY <1>2 DEF GetInstall
  <2>7. Traced'
    BY <2>1, <2>5 DEF Traced, Installed, TypeOK
  <2>8. NoItem \notin Item
    BY DEF NoItem, Item
  <2>9. CopiesHaveACause'
    BY <2>1, <2>4, <2>5, <2>6, <2>8 DEF CopiesHaveACause, HeldByRun
  <2>10. GetFindsItsItem'
    BY <2>1, <2>5, <2>8 DEF GetFindsItsItem, Installed, TypeOK
  <2>11. QED BY <2>7, <2>9, <2>10
<1>3. CASE GetReadBack(g)
  <2>1. UNCHANGED <<items, map, runs, severed>>
    BY <1>3 DEF GetReadBack
  <2>2. Traced'
    BY <1>3 DEF GetReadBack, Traced, TypeOK
  <2>3. CopiesHaveACause'
    BY <2>1 DEF CopiesHaveACause, HeldByRun
  <2>4. GetFindsItsItem'
    BY <1>3 DEF GetReadBack, GetFindsItsItem, Traced, TypeOK
  <2>5. QED BY <2>2, <2>3, <2>4
<1>4. CASE GetAnswer(g) \/ Subscribe(g)
  <2>1. lookups' = [lookups EXCEPT ![g] = Over] /\ UNCHANGED <<map, runs, severed>>
    BY <1>4 DEF GetAnswer, Subscribe
  <2>2. Traced'
    BY <2>1 DEF Traced, Over, TypeOK
  <2>3. \A i \in Item : items'[i].watchers = {} \/ items[i].watchers # {}
                        \/ i = lookups[g].item
    BY <1>4 DEF GetAnswer, Subscribe, TypeOK
  <2>4. \A i \in Item : i = lookups[g].item => i = map \/ i \in severed
    BY DEF Traced, Item, NoItem
  <2>5. CopiesHaveACause'
    BY <2>1, <2>3, <2>4 DEF CopiesHaveACause, HeldByRun
  <2>6. GetFindsItsItem'
    BY <2>1 DEF GetFindsItsItem, Over, TypeOK
  <2>7. QED BY <2>2, <2>5, <2>6
<1>5. CASE Unsubscribe(g)
  <2>1. UNCHANGED <<lookups, map, runs, severed>>
    BY <1>5 DEF Unsubscribe
  <2>2. \A i \in Item : items'[i].watchers = {} \/ items[i].watchers # {}
    BY <1>5 DEF Unsubscribe, TypeOK
  <2>3. CopiesHaveACause'
    BY <2>1, <2>2 DEF CopiesHaveACause, HeldByRun
  <2>4. QED BY <2>1, <2>3 DEF Traced, GetFindsItsItem
<1>6. QED BY <1>1, <1>2, <1>3, <1>4, <1>5 DEF GetSteps

LEMMA RunTrace ==
    ASSUME IInv, Trace, NEW r \in Run, RunSteps(r)
    PROVE  Trace'
<1> USE DEF IInv, Trace
<1>1. CASE CreateLook(r) \/ CreateRead(r)
  <2>1. UNCHANGED <<items, map, lookups, severed>>
    BY <1>1 DEF CreateLook, CreateRead
  <2>2. \A s \in Run : \/ runs'[s].item = runs[s].item
                          /\ (runs[s].at = "over" => runs'[s].at = "over")
                       \/ runs'[s].item = map
    BY <1>1 DEF CreateLook, CreateRead, TypeOK
  <2>3. CopiesHaveACause'
    BY <2>1, <2>2 DEF CopiesHaveACause, HeldByRun
  <2>4. QED BY <2>1, <2>3 DEF Traced, GetFindsItsItem
<1>2. CASE CreateWrite(r)
  <2>1. PICK i \in Item :
          /\ NewItem(i, Fresh(r), now)
          /\ map' = i
          /\ runs' = [runs EXCEPT ![r].at = "running", ![r].item = i]
    BY <1>2 DEF CreateWrite
  <2>2. Fresh(r) \in Status /\ now \in 0..MaxTime
    BY DEF TypeOK, Fresh, Status
  <2>3. /\ items'[i] = [status |-> Fresh(r), born |-> now, watchers |-> {}]
         /\ \A j \in Item \ {i} : items'[j] = items[j]
    BY <2>1, <2>2, NewItemType
  <2>4. items'[i].watchers = {} /\ \A j \in Item \ {i} : items'[j] = items[j]
    BY <2>3
  <2>5. map = NoItem
    BY <1>2 DEF CreateWrite, Places
  <2>6. UNCHANGED <<lookups, severed>>
    BY <1>2 DEF CreateWrite
  <2>7. Traced' /\ GetFindsItsItem'
    BY <2>5, <2>6 DEF Traced, GetFindsItsItem
  <2>8. \A s \in Run \ {r} : runs'[s] = runs[s]
    BY <2>1 DEF TypeOK
  <2>9. runs'[r].item = i
    BY <2>1 DEF TypeOK
  <2>10. NoItem \notin Item
    BY DEF NoItem, Item
  <2>11. CopiesHaveACause'
    BY <2>1, <2>4, <2>5, <2>6, <2>8, <2>9, <2>10 DEF CopiesHaveACause, HeldByRun
  <2>12. QED BY <2>7, <2>11
<1>3. CASE RunEnds(r)
  <2>1. UNCHANGED <<map, lookups, severed>>
    BY <1>3 DEF RunEnds
  <2>2. \A s \in Run : runs'[s] = runs[s] \/ runs'[s].at = "over"
    BY <1>3 DEF RunEnds, TypeOK
  <2>3. \A i \in Item : items'[i].watchers = items[i].watchers
    BY <1>3 DEF RunEnds, TypeOK
  <2>4. CopiesHaveACause'
    BY <2>1, <2>2, <2>3 DEF CopiesHaveACause, HeldByRun
  <2>5. QED BY <2>1, <2>4 DEF Traced, GetFindsItsItem
<1>4. QED BY <1>1, <1>2, <1>3 DEF RunSteps

LEMMA OtherTrace ==
    ASSUME IInv, Trace, Elsewhere \/ Cleanup \/ Tick \/ UNCHANGED vars
    PROVE  Trace'
<1> USE DEF IInv, Trace
<1>1. CASE Elsewhere \/ Tick \/ UNCHANGED vars
  <2>1. UNCHANGED <<items, map, lookups, runs, severed>>
    BY <1>1 DEF Elsewhere, Tick, vars
  <2>2. QED
    BY <2>1 DEF Traced, CopiesHaveACause, HeldByRun, GetFindsItsItem
<1>2. CASE Cleanup
  <2>1. /\ UNCHANGED <<items, lookups, runs>> /\ map' = NoItem
        /\ severed \subseteq severed'
    BY <1>2 DEF Cleanup
  <2>2. map \in Item
    BY <1>2, ItemAssumption DEF Cleanup, TypeOK, Item, NoItem
  <2>3. InHand(map) => map \in severed'
    BY <1>2 DEF Cleanup
  <2>4. HeldByRun(map) \/ items[map].watchers # {} => map \in severed'
    BY <1>2 DEF Cleanup, Evictable, FinishedAndIdle
  <2>5. Traced'
    BY <2>1, <2>3 DEF Traced, InHand
  <2>6. CopiesHaveACause'
    BY <2>1, <2>4 DEF CopiesHaveACause, HeldByRun
  <2>7. GetFindsItsItem'
    BY <2>1 DEF GetFindsItsItem
  <2>8. QED BY <2>5, <2>6, <2>7
<1>3. QED BY <1>1, <1>2

LEMMA NextTrace == IInv /\ Trace /\ [Next]_vars => Trace'
BY GetTrace, RunTrace, OtherTrace DEF Next
-----------------------------------------------------------------------------
(* What late lookups see *)

(* A record that is final stays so unless that is noted, and then the items *)
(* that are final stay so unless the lookups that answer from them are.     *)
LEMMA FinalStays ==
    ASSUME IInv, Next, ~undone'
    PROVE  /\ ~undone
           /\ Final(record.status) => Final(record'.status)
           /\ Final(record.status) =>
                \A i \in 1..built : Final(items[i].status) =>
                   \/ Final(items'[i].status)
                   \/ AnsweredBy(i) \subseteq robbed'
           /\ robbed \subseteq robbed'
<1> USE DEF IInv
<1>1. 1..built \subseteq Item
  BY ItemAssumption DEF TypeOK, Item
<1>2. CASE \E g \in Lookup : GetSteps(g) \/ Unsubscribe(g)
  <2>1. PICK g \in Lookup : GetSteps(g) \/ Unsubscribe(g)
    BY <1>2
  <2>2. UNCHANGED <<record, undone>> /\ robbed \subseteq robbed'
    BY <2>1 DEF GetSteps, GetLook, GetReread, GetApply, GetFetch, GetFails, GetInstall,
                GetReadBack, GetAnswer, Subscribe, Unsubscribe
  <2>3. CASE GetApply(g)
    <3>1. /\ items' = [items EXCEPT ![lookups[g].item].status = lookups[g].read]
          /\ robbed' = IF Final(items[lookups[g].item].status) /\ ~Final(lookups[g].read)
                       THEN robbed \cup AnsweredBy(lookups[g].item) ELSE robbed
      BY <2>3 DEF GetApply
    <3>2. \A i \in Item : \/ items'[i] = items[i]
                         \/ (i = lookups[g].item /\ items'[i].status = lookups[g].read)
      BY <3>1 DEF TypeOK
    <3>3. \A i \in Item : Final(items[i].status) =>
             Final(items'[i].status) \/ AnsweredBy(i) \subseteq robbed'
      BY <3>1, <3>2 DEF Final
    <3>4. QED BY <1>1, <2>2, <3>3
  <2>4. CASE GetInstall(g)
    <3>1. PICK i \in Item : NewItem(i, lookups[g].read, lookups[g].born)
      BY <2>4 DEF GetInstall
    <3>2. lookups[g].read \in Status /\ lookups[g].born \in 0..MaxTime
      BY DEF TypeOK
    <3>3. i = built + 1 /\ \A j \in Item \ {i} : items'[j] = items[j]
      BY <3>1, <3>2, NewItemType
    <3>4. \A j \in 1..built : items'[j] = items[j]
      BY <1>1, <3>3, ItemAssumption DEF TypeOK
    <3>5. QED BY <2>2, <3>4
  <2>5. CASE Subscribe(g) \/ Unsubscribe(g)
    <3>3. items \in [Item -> ItemType]
      BY DEF TypeOK, ItemType
    <3>4. ASSUME NEW k \in Item, NEW w, items' = [items EXCEPT ![k].watchers = w]
          PROVE  \A i \in Item : items'[i].status = items[i].status
      BY <3>3, <3>4 DEF ItemType
    <3>5. \E k \in Item : \E w : items' = [items EXCEPT ![k].watchers = w]
      <4>1. CASE Subscribe(g)
        <5>1. lookups[g].item \in Item
          BY <4>1, ItemAssumption DEF Subscribe, TypeOK, Item, NoItem
        <5>2. QED BY <4>1, <5>1 DEF Subscribe
      <4>2. CASE Unsubscribe(g)
        BY <4>2 DEF Unsubscribe
      <4>3. QED BY <2>5, <4>1, <4>2
    <3>1. \A i \in Item : items'[i].status = items[i].status
      BY <3>4, <3>5
    <3>2. QED BY <1>1, <2>2, <3>1
  <2>6. CASE GetLook(g) \/ GetReread(g) \/ GetFetch(g) \/ GetFails(g) \/ GetReadBack(g) \/ GetAnswer(g)
    <3>1. UNCHANGED items
      BY <2>6 DEF GetLook, GetReread, GetFetch, GetFails, GetReadBack, GetAnswer
    <3>2. QED BY <2>2, <3>1
  <2>7. QED BY <2>1, <2>3, <2>4, <2>5, <2>6 DEF GetSteps
<1>7. ASSUME robbed' = robbed PROVE robbed \subseteq robbed'
  BY <1>7
<1>3. CASE \E r \in Run : RunSteps(r)
  <2>6. robbed' = robbed
    BY <1>3 DEF RunSteps, CreateLook, CreateRead, CreateWrite, RunEnds
  <2>1. PICK r \in Run : RunSteps(r)
    BY <1>3
  <2>2. CASE CreateLook(r) \/ CreateRead(r)
    BY <2>2, <2>6 DEF CreateLook, CreateRead
  <2>3. CASE CreateWrite(r)
    <3>1. PICK i \in Item : NewItem(i, Fresh(r), now)
      BY <2>3 DEF CreateWrite
    <3>2. Fresh(r) \in Status /\ now \in 0..MaxTime
      BY DEF TypeOK, Fresh, Status
    <3>3. i = built + 1 /\ \A j \in Item \ {i} : items'[j] = items[j]
      BY <3>1, <3>2, NewItemType
    <3>4. \A j \in 1..built : items'[j] = items[j]
      BY <1>1, <3>3, ItemAssumption DEF TypeOK
    <3>5. ~undone /\ (Final(record.status) => Final(record'.status))
      BY <2>3, <3>2, StoreType DEF CreateWrite
    <3>6. QED BY <2>6, <3>4, <3>5
  <2>4. CASE RunEnds(r)
    <3>1. runs[r].item \in Item
      BY <2>4, ItemAssumption DEF RunEnds, Places, TypeOK, Item, NoItem
    <3>2. items[runs[r].item].born \in 0..MaxTime /\ "done" \in Status
      BY <3>1 DEF TypeOK, Status
    <3>3. ~undone /\ (Final(record.status) => Final(record'.status))
      BY <2>4, <3>2, StoreType DEF RunEnds
    <3>4. items' = [items EXCEPT ![runs[r].item].status = "done"]
      BY <2>4 DEF RunEnds
    <3>5. \A i \in Item : items'[i].status = items[i].status \/ items'[i].status = "done"
      BY <3>4 DEF TypeOK
    <3>6. QED BY <1>1, <2>6, <3>3, <3>5 DEF Final
  <2>5. QED BY <2>1, <2>2, <2>3, <2>4 DEF RunSteps
<1>4. CASE Elsewhere
  <2>1. now \in 0..MaxTime /\ record.born \in 0..MaxTime
        /\ "processing" \in Status /\ "done" \in Status
    BY DEF TypeOK, Status
  <2>2. ~undone /\ (Final(record.status) => Final(record'.status))
    BY <1>4, <2>1, StoreType DEF Elsewhere
  <2>3. QED BY <1>4, <2>2 DEF Elsewhere
<1>5. CASE Cleanup \/ Tick
  BY <1>5 DEF Cleanup, Tick
<1>6. QED BY <1>2, <1>3, <1>4, <1>5 DEF Next

(* A step that leaves the lookups alone leaves what they have seen alone. *)
LEMMA LookupsUnchanged ==
    ASSUME IInv, Trace, Late, Next, UNCHANGED <<lookups>>, severed \subseteq severed'
    PROVE  Late'
<1> USE DEF IInv
<1>1. ASSUME NEW g \in Lookup, lookups[g].late, ~undone'
      PROVE  /\ Final(record'.status)
             /\ lookups[g].at = "install" => Final(lookups[g].read)
             /\ lookups[g].at = "apply" => Final(lookups[g].read)
             /\ lookups[g].at = "read" =>
                   Final(items'[lookups[g].own].status) \/ g \in robbed'
  <2>1. ~undone /\ Final(record.status)
    BY <1>1, FinalStays DEF Late, LateSoFar
  <2>2. lookups[g].at = "read" => lookups[g].own \in 1..built
    BY ItemAssumption DEF Places, TypeOK, NoItem
  <2>3. QED
    BY <1>1, <2>1, <2>2, FinalStays DEF Late, LateSoFar, AnsweredBy
<1>2. ASSUME NEW g \in Lookup, lookups[g].at = "got", lookups[g].late, ~undone'
      PROVE  \/ lookups[g].item # NoItem /\ Final(items'[lookups[g].item].status)
             \/ lookups[g].own \in severed'
             \/ g \in robbed'
  <2>1. ~undone /\ Final(record.status)
    BY <1>2, FinalStays DEF Late, LateSoFar
  <2>2. lookups[g].item # NoItem => lookups[g].item \in 1..built
    BY ItemAssumption DEF TypeOK, NoItem
  <2>3. QED
    BY <1>2, <2>1, <2>2, FinalStays DEF Late, LateLookupsSeeTheEnd, AnsweredBy
<1>3. LateSoFar'
  BY <1>1 DEF LateSoFar
<1>4. LateLookupsSeeTheEnd'
  BY <1>2 DEF LateLookupsSeeTheEnd
<1>5. QED BY <1>3, <1>4 DEF Late

(* For a step of one lookup it is enough to look at that lookup. *)
LEMMA OneLookup ==
    ASSUME IInv, Late, Next, severed \subseteq severed',
           NEW g \in Lookup, \A h \in Lookup \ {g} : lookups'[h] = lookups[h],
           lookups'[g].late /\ ~undone' =>
             /\ Final(record'.status)
             /\ lookups'[g].at = "install" => Final(lookups'[g].read)
             /\ lookups'[g].at = "apply" => Final(lookups'[g].read)
             /\ lookups'[g].at = "read" =>
                   Final(items'[lookups'[g].own].status) \/ g \in robbed'
             /\ lookups'[g].at = "got" =>
                  \/ lookups'[g].item # NoItem /\ Final(items'[lookups'[g].item].status)
                  \/ lookups'[g].own \in severed'
                  \/ g \in robbed'
    PROVE  Late'
<1> USE DEF IInv
<1>1. ASSUME NEW h \in Lookup \ {g}, lookups[h].late, ~undone'
      PROVE  /\ Final(record'.status)
             /\ lookups[h].at = "install" => Final(lookups[h].read)
             /\ lookups[h].at = "apply" => Final(lookups[h].read)
             /\ lookups[h].at = "read" =>
                   Final(items'[lookups[h].own].status) \/ h \in robbed'
             /\ lookups[h].at = "got" =>
                  \/ lookups[h].item # NoItem /\ Final(items'[lookups[h].item].status)
                  \/ lookups[h].own \in severed'
                  \/ h \in robbed'
  <2>1. ~undone /\ Final(record.status)
    BY <1>1, FinalStays DEF Late, LateSoFar
  <2>2. /\ lookups[h].at = "read" => lookups[h].own \in 1..built
        /\ lookups[h].item # NoItem => lookups[h].item \in 1..built
    BY ItemAssumption DEF Places, TypeOK, NoItem
  <2>3. QED
    BY <1>1, <2>1, <2>2, FinalStays DEF Late, LateSoFar, LateLookupsSeeTheEnd, AnsweredBy
<1>2. LateSoFar'
  BY <1>1 DEF LateSoFar
<1>3. LateLookupsSeeTheEnd'
  BY <1>1 DEF LateLookupsSeeTheEnd
<1>4. QED BY <1>2, <1>3 DEF Late

LEMMA GetLate ==
    ASSUME IInv, Trace, Late, NEW g \in Lookup, GetSteps(g)
    PROVE  Late'
<1> USE DEF IInv
<1>1. Next
  BY DEF Next
<1>2. \A h \in Lookup \ {g} : lookups'[h] = lookups[h]
  BY DEF GetSteps, GetLook, GetReread, GetApply, GetFetch, GetFails, GetInstall, GetReadBack,
         GetAnswer, Subscribe, Step, TypeOK
<1>3. severed \subseteq severed' /\ UNCHANGED <<record, undone>>
  BY DEF GetSteps, GetLook, GetReread, GetApply, GetFetch, GetFails, GetInstall, GetReadBack,
         GetAnswer, Subscribe
<1>4. lookups[g].late /\ ~undone => Final(record.status)
  BY DEF Late, LateSoFar
<1>5. CASE GetLook(g)
  <2>1. /\ UNCHANGED items /\ lookups'[g].item = map
        /\ lookups'[g].late = Final(record.status)
        /\ lookups'[g].at = IF map = NoItem THEN "fetch"
                            ELSE IF Final(items[map].status) THEN "got" ELSE "reread"
    BY <1>5 DEF GetLook, TypeOK
  <2>2. lookups'[g].late => Final(record.status)
    BY <2>1 DEF Final
  <2>3. QED BY <1>1, <1>2, <1>3, <2>1, <2>2, OneLookup
<1>13. CASE GetReread(g)
  <2>1. /\ lookups'[g].item = lookups[g].item /\ lookups'[g].late = lookups[g].late
        /\ \/ lookups'[g].at = "apply" /\ lookups'[g].read = record.status
           \/ lookups'[g].at = "got" /\ record.status = "none"
    BY <1>13 DEF GetReread, TypeOK
  <2>2. QED BY <1>1, <1>2, <1>3, <1>4, <2>1, OneLookup DEF Final
<1>6. CASE GetApply(g)
  <2>1. /\ lookups'[g].at = "got" /\ lookups'[g].item = lookups[g].item
        /\ lookups'[g].late = lookups[g].late
    BY <1>6 DEF GetApply, Step, TypeOK
  <2>2. lookups[g].item \in Item /\ lookups[g].item # NoItem
    BY <1>6, ItemAssumption DEF GetApply, Places, TypeOK, Item, NoItem
  <2>3. Final(lookups[g].read) => Final(items'[lookups[g].item].status)
    BY <1>6, <2>2 DEF GetApply, TypeOK, Final
  <2>5. lookups[g].late /\ ~undone => Final(lookups[g].read)
    BY <1>6 DEF GetApply, Late, LateSoFar
  <2>4. QED BY <1>1, <1>2, <1>3, <1>4, <2>1, <2>2, <2>3, <2>5, OneLookup
<1>7. CASE GetFetch(g)
  <2>1. /\ lookups'[g].at \in {"over", "install"} /\ lookups'[g].read = record.status
        /\ lookups'[g].late = lookups[g].late
    BY <1>7 DEF GetFetch, TypeOK
  <2>2. QED BY <1>1, <1>2, <1>3, <1>4, <2>1, OneLookup
<1>8. CASE GetFails(g)
  <2>1. ~lookups'[g].late
    BY <1>8 DEF GetFails, TypeOK
  <2>2. QED BY <1>1, <1>2, <1>3, <2>1, OneLookup
<1>9. CASE GetInstall(g)
  <2>1. PICK i \in Item :
          /\ NewItem(i, lookups[g].read, lookups[g].born)
          /\ lookups' = [lookups EXCEPT ![g] = Installed(i, lookups[g].late)]
    BY <1>9 DEF GetInstall
  <2>2. lookups[g].read \in Status /\ lookups[g].born \in 0..MaxTime
    BY DEF TypeOK
  <2>3. items'[i] = [status |-> lookups[g].read, born |-> lookups[g].born, watchers |-> {}]
    BY <2>1, <2>2, NewItemType
  <2>4. /\ lookups'[g].at = "read" /\ lookups'[g].own = i
        /\ lookups'[g].late = lookups[g].late
    BY <2>1 DEF Installed, TypeOK
  <2>5. lookups[g].late /\ ~undone => Final(lookups[g].read)
    BY <1>9 DEF GetInstall, Late, LateSoFar
  <2>6. items'[i].status = lookups[g].read
    BY <2>3
  <2>7. QED BY <1>1, <1>2, <1>3, <1>4, <2>4, <2>5, <2>6, OneLookup
<1>10. CASE GetReadBack(g)
  <2>1. /\ lookups'[g].at = "got" /\ lookups'[g].item = map
        /\ lookups'[g].own = lookups[g].own /\ lookups'[g].late = lookups[g].late
        /\ UNCHANGED <<items, severed, robbed>>
    BY <1>10 DEF GetReadBack, TypeOK
  <2>2. lookups[g].own # NoItem /\ (lookups[g].own = map \/ lookups[g].own \in severed)
    BY <1>10 DEF GetReadBack, Places, Trace, Traced
  <2>3. lookups[g].late /\ ~undone => Final(items[lookups[g].own].status) \/ g \in robbed
    BY <1>10 DEF GetReadBack, Late, LateSoFar
  <2>4. QED BY <1>1, <1>2, <1>3, <1>4, <2>1, <2>2, <2>3, OneLookup
<1>11. CASE GetAnswer(g) \/ Subscribe(g)
  <2>1. lookups' = [lookups EXCEPT ![g] = Over]
    BY <1>11 DEF GetAnswer, Subscribe
  <2>2. ~lookups'[g].late
    BY <2>1 DEF Over, TypeOK
  <2>3. QED BY <1>1, <1>2, <1>3, <2>2, OneLookup
<1>12. QED
  BY <1>5, <1>6, <1>7, <1>8, <1>9, <1>10, <1>11, <1>13 DEF GetSteps

LEMMA NextLate == IInv /\ Trace /\ Late /\ [Next]_vars => Late'
<1> SUFFICES ASSUME IInv, Trace, Late, [Next]_vars PROVE Late'
  OBVIOUS
<1>1. CASE \E g \in Lookup : GetSteps(g)
  BY <1>1, GetLate
<1>2. CASE (\E g \in Lookup : Unsubscribe(g)) \/ (\E r \in Run : RunSteps(r))
           \/ Elsewhere \/ Cleanup \/ Tick
  <2>1. Next
    BY <1>2 DEF Next
  <2>2. UNCHANGED lookups
    BY <1>2 DEF Unsubscribe, RunSteps, CreateLook, CreateRead, CreateWrite, RunEnds,
                Elsewhere, Cleanup, Tick
  <2>3. severed \subseteq severed'
    BY <1>2 DEF Unsubscribe, RunSteps, CreateLook, CreateRead, CreateWrite, RunEnds,
                Elsewhere, Cleanup, Tick
  <2>4. QED BY <2>1, <2>2, <2>3, LookupsUnchanged
<1>3. CASE UNCHANGED vars
  BY <1>3 DEF vars, Late, LateSoFar, LateLookupsSeeTheEnd
<1>4. QED BY <1>1, <1>2, <1>3 DEF Next
-----------------------------------------------------------------------------
(* The variables have their types, for any lookups, runs and bounds. *)
THEOREM TypeCorrect == Spec => []TypeOK
<1>1. IInv => TypeOK
  BY DEF IInv
<1>2. QED
  BY InitInv, NextType, <1>1, PTL DEF Spec

(* However many items of a task there are, one that is written to or watched *)
(* is the one in the map, or was taken out of it in one of the noted ways.   *)
THEOREM Copies == Spec => []CopiesHaveACause
<1>1. Trace => CopiesHaveACause
  BY DEF Trace
<1>2. QED
  BY InitInv, NextType, InitTrace, NextTrace, <1>1, PTL DEF Spec

(* A lookup returns the item it has built, unless that one was taken out of  *)
(* the map between the two times it looks there.                             *)
THEOREM FindsItsItem == Spec => []GetFindsItsItem
<1>1. Trace => GetFindsItsItem
  BY DEF Trace
<1>2. QED
  BY InitInv, NextType, InitTrace, NextTrace, <1>1, PTL DEF Spec

(* A lookup that starts after the end was recorded answers with the end,     *)
(* unless its item left the map or an older status overwrote the end.        *)
THEOREM LateLookups == Spec => []LateLookupsSeeTheEnd
<1>1. Late => LateLookupsSeeTheEnd
  BY DEF Late
<1>2. QED
  BY InitInv, NextType, InitTrace, NextTrace, NextLate, <1>1, PTL DEF Spec
=============================================================================
