------------------------- MODULE VoiceLibraryProofs -------------------------
(* Theorems about EngineManifest and VoiceLibrary, for any sequence of      *)
(* declarations, any requests and any bounds.                               *)
EXTENDS VoiceLibrary, WellFoundedInduction, TLAPS

Known == 0..Len(Declarations)
Version(m) == Declarations[m].version

(* The manifest was declared by the Engine, and so was what reloads hold.   *)
Declared ==
    /\ manifest <= engine
    /\ \A a \in Admin : reloads[a].at = "asked" =>
          /\ reloads[a].seen <= reloads[a].got
          /\ reloads[a].got # 0 /\ reloads[a].got <= engine

(* What the cache keeps of a mode, and what a request at work has fetched.  *)
GoodEntry(e) ==
    /\ e.under # 0 /\ e.version = Version(e.under)
    /\ e.fetched - e.since <= FetchMax /\ e.since <= now
    /\ e.voices >= e.under \/ e.asked # e.under
Fetched ==
    /\ \A m \in ViewMode : cache[m] # NoEntry => GoodEntry(cache[m])
    /\ \A v \in Viewer : views[v].at # "idle" =>
          /\ manifest # 0
          /\ views[v].since <= now /\ now - views[v].since <= FetchMax
          /\ views[v].asked <= engine
          /\ views[v].at = "fetched" => views[v].voices >= views[v].asked

MInv == ManifestTypeOK /\ Declared /\ Fetched /\ OldVoicesExpire

(* A process that dies forgets all of it. *)
Forget ==
    /\ manifest' = 0
    /\ reloads' = [a \in Admin |-> Calm]
    /\ cache' = [m \in ViewMode |-> NoEntry]
    /\ views' = [v \in Viewer |-> Quiet]
    /\ UNCHANGED <<engine, now>>

ViewType == [at : {"idle", "fetching", "fetched"}, mode : ViewMode \cup {""},
             voices : Known, since : Nat, asked : Known, under : Known,
             served : {"none", "cache"}]
EntryType == [voices : Known, version : Nat, fetched : Nat, since : Nat, asked : Known,
              under : Known]
ReloadType == [at : {"idle", "asked"}, got : Known, seen : Known]

LEMMA ManifestTypes ==
    ManifestTypeOK <=>
      /\ engine \in Decl /\ manifest \in Known /\ now \in 0..MaxTime
      /\ reloads \in [Admin -> ReloadType]
      /\ cache \in [ViewMode -> EntryType]
      /\ views \in [Viewer -> ViewType]
BY DEF ManifestTypeOK, ReloadType, EntryType, ViewType, Known

LEMMA DeclarationType ==
    /\ Len(Declarations) \in Nat /\ Decl \subseteq Known /\ Known \subseteq Nat
    /\ 0 \in Known /\ 1 \in Decl
    /\ \A m \in Decl : Version(m) \in Nat
    /\ HeldVersion = IF manifest = 0 THEN 0 ELSE Version(manifest)
<1>1. Len(Declarations) \in Nat /\ Len(Declarations) # 0
  BY DeclarationsAssumption
<1>2. /\ Decl \subseteq Known /\ Known \subseteq Nat /\ 0 \in Known /\ 1 \in Decl
  BY <1>1 DEF Decl, Known
<1>3. \A m \in Decl : Version(m) \in Nat
  <2> DEFINE modes == Seq([id : STRING, cloning : BOOLEAN \cup {Unset},
                           presets : BOOLEAN \cup {Unset}, formats : SUBSET STRING])
             type == [version : Nat, modes : modes, cloning : BOOLEAN \cup {Unset},
                      presets : BOOLEAN \cup {Unset}, formats : SUBSET STRING]
  <2>1. Declarations \in Seq(type)
    BY DeclarationsAssumption
  <2> HIDE DEF modes
  <2>2. \A d \in type : d.version \in Nat
    OBVIOUS
  <2> HIDE DEF type
  <2>3. QED BY <1>1, <2>1, <2>2 DEF Decl, Version
<1>4. HeldVersion = IF manifest = 0 THEN 0 ELSE Version(manifest)
  BY DEF Version, HeldVersion, Held
<1>5. QED BY <1>1, <1>2, <1>3, <1>4

LEMMA RecordTypes ==
    /\ Calm \in ReloadType /\ Quiet \in ViewType /\ NoEntry \in EntryType
    /\ Quiet.at = "idle" /\ Quiet.served = "none" /\ Calm.at = "idle"
<1>1. 0 \in Known /\ 0 \in Nat
  BY DeclarationType
<1>2. Calm \in ReloadType /\ Calm.at = "idle"
  BY <1>1 DEF Calm, ReloadType
<1>3. Quiet \in ViewType /\ Quiet.at = "idle" /\ Quiet.served = "none"
  BY <1>1 DEF Quiet, ViewType
<1>4. NoEntry \in EntryType
  BY <1>1 DEF NoEntry, EntryType
<1>5. QED BY <1>2, <1>3, <1>4

(* The numbers of declarations and times that are held are natural numbers. *)
LEMMA Numbers ==
    ASSUME ManifestTypeOK
    PROVE  /\ engine \in Nat /\ manifest \in Nat /\ now \in Nat
           /\ \A a \in Admin : reloads[a].got \in Nat /\ reloads[a].seen \in Nat
           /\ \A m \in ViewMode : /\ cache[m].voices \in Nat /\ cache[m].fetched \in Nat
                                  /\ cache[m].since \in Nat /\ cache[m].asked \in Nat
           /\ \A v \in Viewer : /\ views[v].voices \in Nat /\ views[v].since \in Nat
                                /\ views[v].asked \in Nat
<1>1. Known \subseteq Nat /\ Decl \subseteq Nat
  BY DeclarationType
<1>2. /\ engine \in Decl /\ manifest \in Known /\ now \in 0..MaxTime
      /\ reloads \in [Admin -> ReloadType]
      /\ cache \in [ViewMode -> EntryType]
      /\ views \in [Viewer -> ViewType]
  BY ManifestTypes
<1>3. engine \in Nat /\ manifest \in Nat /\ now \in Nat
  BY <1>1, <1>2, TimeAssumption
<1>4. \A a \in Admin : reloads[a].got \in Nat /\ reloads[a].seen \in Nat
  BY <1>1, <1>2 DEF ReloadType
<1>5. \A m \in ViewMode : /\ cache[m].voices \in Nat /\ cache[m].fetched \in Nat
                         /\ cache[m].since \in Nat /\ cache[m].asked \in Nat
  BY <1>1, <1>2 DEF EntryType
<1>6. \A v \in Viewer : /\ views[v].voices \in Nat /\ views[v].since \in Nat
                       /\ views[v].asked \in Nat
  BY <1>1, <1>2 DEF ViewType
<1>7. QED BY <1>3, <1>4, <1>5, <1>6

LEMMA ManifestInitInv == ManifestInit => MInv
<1> SUFFICES ASSUME ManifestInit PROVE MInv
  OBVIOUS
<1>1. ManifestTypeOK
  BY ManifestTypes, DeclarationType, RecordTypes, TimeAssumption DEF ManifestInit
<1>2. Declared
  BY RecordTypes DEF ManifestInit, Declared
<1>3. Fetched /\ OldVoicesExpire
  BY RecordTypes DEF ManifestInit, Fetched, OldVoicesExpire
<1>4. QED BY <1>1, <1>2, <1>3 DEF MInv

LEMMA EngineSteps ==
    ASSUME MInv, EngineUpgrade \/ Discover
    PROVE  MInv'
<1>1. ManifestTypeOK /\ Declared /\ Fetched /\ OldVoicesExpire
  BY DEF MInv
<1>2. UNCHANGED <<reloads, cache, views, now>>
  BY DEF EngineUpgrade, Discover
<1>3. /\ engine \in Decl /\ engine' \in Decl /\ engine <= engine'
      /\ manifest' \in Known /\ manifest' <= engine' /\ manifest <= engine
      /\ manifest # 0 => manifest' # 0
  BY <1>1, DeclarationType, ManifestTypes DEF EngineUpgrade, Discover, Set, Decl, Known, Declared
<1>4. ManifestTypeOK'
  BY <1>1, <1>2, <1>3 DEF ManifestTypeOK, Known
<1>5. Declared'
  <2>1. engine' \in Nat
    BY <1>3, DeclarationType
  <2>2. QED BY <1>1, <1>2, <1>3, <2>1, Numbers DEF Declared
<1>6. Fetched'
  <2>1. engine' \in Nat
    BY <1>3, DeclarationType
  <2>2. \A m \in ViewMode : cache'[m] # NoEntry => GoodEntry(cache[m])'
    BY <1>1, <1>2 DEF Fetched, GoodEntry
  <2>3. \A v \in Viewer : views[v].asked <= engine => views[v].asked <= engine'
    BY <1>1, <1>3, <2>1, Numbers
  <2>4. QED BY <1>1, <1>2, <1>3, <2>2, <2>3 DEF Fetched
<1>7. OldVoicesExpire'
  BY <1>1, <1>2 DEF OldVoicesExpire
<1>8. QED BY <1>4, <1>5, <1>6, <1>7 DEF MInv

LEMMA ReloadSteps ==
    ASSUME MInv, NEW a \in Admin, ReloadAsk(a) \/ ReloadSet(a)
    PROVE  MInv'
<1>1. ManifestTypeOK /\ Declared /\ Fetched /\ OldVoicesExpire
  BY DEF MInv
<1>2. UNCHANGED <<engine, cache, views, now>>
  BY DEF ReloadAsk, ReloadSet
<1>3. /\ engine \in Decl /\ manifest \in Known /\ manifest <= engine
      /\ reloads \in [Admin -> ReloadType]
  BY <1>1, ManifestTypes DEF Declared
<1>4. manifest # 0 => manifest' # 0
  BY <1>1 DEF ReloadAsk, ReloadSet, Set, Declared
<1>5. CASE ReloadAsk(a)
  <2>1. [at |-> "asked", got |-> engine, seen |-> manifest] \in ReloadType
    BY <1>3, DeclarationType DEF ReloadType
  <2>2. reloads' = [reloads EXCEPT ![a] = [at |-> "asked", got |-> engine, seen |-> manifest]]
        /\ manifest' = manifest
    BY <1>5 DEF ReloadAsk
  <2>3. ManifestTypeOK'
    <3>1. reloads' \in [Admin -> ReloadType]
      BY <1>3, <2>1, <2>2
    <3>2. QED BY <1>1, <1>2, <2>2, <3>1 DEF ManifestTypeOK, ReloadType, Known
  <2>4. Declared'
    <3>1. engine # 0 /\ engine <= engine
      BY <1>3, DeclarationsAssumption DEF Decl
    <3>2. QED BY <1>1, <1>2, <1>3, <2>2, <3>1 DEF Declared
  <2>5. Fetched' /\ OldVoicesExpire'
    BY <1>1, <1>2, <2>2 DEF Fetched, GoodEntry, OldVoicesExpire
  <2>6. QED BY <2>3, <2>4, <2>5 DEF MInv
<1>6. CASE ReloadSet(a)
  <2>1. /\ reloads' = [reloads EXCEPT ![a] = Calm]
        /\ manifest' \in {manifest, reloads[a].got} /\ reloads[a].at = "asked"
    BY <1>6 DEF ReloadSet, Set
  <2>2. reloads[a].got \in Known /\ reloads[a].seen <= reloads[a].got /\ reloads[a].got <= engine
    BY <1>1, <1>3, <2>1 DEF Declared, ReloadType
  <2>3. manifest' \in Known /\ manifest' <= engine
    BY <1>3, <2>1, <2>2
  <2>4. ManifestTypeOK'
    <3>1. reloads' \in [Admin -> ReloadType]
      BY <1>3, <2>1, RecordTypes
    <3>2. QED BY <1>1, <1>2, <2>3, <3>1 DEF ManifestTypeOK, ReloadType, Known
  <2>5. Declared'
    BY <1>1, <1>2, <1>3, <2>1, <2>3, RecordTypes DEF Declared
  <2>6. Fetched'
    BY <1>1, <1>2, <1>4, <2>1 DEF Fetched, GoodEntry
  <2>7. OldVoicesExpire'
    BY <1>1, <1>2 DEF OldVoicesExpire
  <2>8. QED BY <2>4, <2>5, <2>6, <2>7 DEF MInv
<1>7. QED BY <1>5, <1>6

LEMMA ViewSteps ==
    ASSUME MInv, NEW v \in Viewer,
           \/ \E mode \in ViewMode : ViewLookup(v, mode)
           \/ ViewFetched(v) \/ ViewFailed(v) \/ ViewStore(v) \/ ViewEnd(v)
    PROVE  MInv'
<1>1. ManifestTypeOK /\ Declared /\ Fetched /\ OldVoicesExpire
  BY DEF MInv
<1>2. UNCHANGED <<engine, manifest, reloads, now>>
  BY DEF ViewLookup, ViewFetched, ViewFailed, ViewStore, ViewEnd
<1>3. /\ engine \in Decl /\ manifest \in Known /\ now \in Nat /\ engine \in Known
      /\ cache \in [ViewMode -> EntryType]
      /\ views \in [Viewer -> ViewType]
  BY <1>1, ManifestTypes, Numbers, DeclarationType
<1>4. Declared'
  BY <1>1, <1>2 DEF Declared
(* What is left to show of such a step. *)
<1>5. ASSUME cache' \in [ViewMode -> EntryType], views'[v] \in ViewType,
             views' = [views EXCEPT ![v] = views'[v]],
             \A m \in ViewMode : cache'[m] # NoEntry =>
                cache'[m] = cache[m] \/ GoodEntry(cache'[m]),
             views'[v].at # "idle" =>
                /\ manifest # 0
                /\ views'[v].since <= now /\ now - views'[v].since <= FetchMax
                /\ views'[v].asked <= engine
                /\ views'[v].at = "fetched" => views'[v].voices >= views'[v].asked,
             views'[v].served = "cache" => now - views'[v].since <= Ttl + FetchMax
      PROVE  MInv'
  <2>1. views' \in [Viewer -> ViewType]
    BY <1>3, <1>5
  <2>2. ManifestTypeOK'
    BY <1>1, <1>2, <1>5, <2>1 DEF ManifestTypeOK, EntryType, ViewType, Known
  <2>3. \A w \in Viewer \ {v} : views'[w] = views[w]
    BY <1>3, <1>5
  <2>4. Fetched'
    <3>1. \A m \in ViewMode : cache'[m] # NoEntry => GoodEntry(cache'[m])
      BY <1>1, <1>5 DEF Fetched
    <3>2. \A m \in ViewMode : cache'[m] # NoEntry => GoodEntry(cache[m])'
      BY <1>2, <3>1 DEF GoodEntry
    <3>3. QED BY <1>1, <1>2, <1>5, <2>3, <3>2 DEF Fetched
  <2>5. OldVoicesExpire'
    BY <1>1, <1>2, <1>5, <2>3 DEF OldVoicesExpire
  <2>6. QED BY <1>4, <2>2, <2>4, <2>5 DEF MInv
<1>6. ASSUME NEW mode \in ViewMode, ViewLookup(v, mode) PROVE MInv'
  <2> DEFINE e == cache[mode]
             hit == e # NoEntry /\ ~Expired(e)
             found == [at |-> "idle", mode |-> mode, voices |-> e.voices,
                       since |-> e.since, asked |-> e.asked,
                       under |-> e.under, served |-> "cache"]
             asking == [Quiet EXCEPT !.at = "fetching", !.since = now, !.mode = mode,
                                     !.asked = manifest]
  <2>1. e \in EntryType
    BY <1>3
  <2>2. found \in ViewType
    BY <2>1 DEF EntryType, ViewType
  <2>3. asking \in ViewType
    BY <1>3, RecordTypes DEF ViewType
  <2>4. CASE hit
    <3>1. views' = [views EXCEPT ![v] = found] /\ cache' = cache
      BY <1>6, <2>4 DEF ViewLookup
    <3>2. views'[v] = found
      BY <1>3, <3>1
    <3>3. now - e.since <= Ttl + FetchMax
      <4>1. e.fetched - e.since <= FetchMax
        BY <1>1, <2>4 DEF Fetched, GoodEntry
      <4>2. now - e.fetched <= Ttl
        BY <1>1, <1>3, <2>4, Numbers, TimeAssumption DEF Expired
      <4>3. e.since \in Nat /\ e.fetched \in Nat
        BY <2>1 DEF EntryType
      <4>4. QED BY <1>3, <4>1, <4>2, <4>3, TimeAssumption
    <3>4. found.at = "idle" /\ found.since = e.since
      OBVIOUS
    <3> HIDE DEF found, e, hit
    <3>5. QED BY <1>3, <1>5, <2>2, <3>1, <3>2, <3>3, <3>4
  <2>5. CASE ~hit
    <3>1. /\ views' = [views EXCEPT ![v] = asking]
          /\ cache' = [cache EXCEPT ![mode] = NoEntry] /\ manifest # 0
      BY <1>6, <2>5 DEF ViewLookup
    <3>2. views'[v] = asking
      BY <1>3, <3>1
    <3>3. cache' \in [ViewMode -> EntryType]
      BY <1>3, <3>1, RecordTypes
    <3>4. /\ asking.at = "fetching" /\ asking.since = now /\ asking.asked = manifest
          /\ asking.served = "none"
      BY RecordTypes DEF Quiet
    <3>5. \A m \in ViewMode : cache'[m] # NoEntry => cache'[m] = cache[m]
      BY <1>3, <3>1
    <3>6. now <= now /\ now - now <= FetchMax /\ manifest <= engine
      BY <1>1, <1>3, TimeAssumption DEF Declared
    <3> HIDE DEF asking
    <3>7. QED BY <1>5, <2>3, <3>1, <3>2, <3>3, <3>4, <3>5, <3>6
  <2>6. QED BY <2>4, <2>5
<1>7. CASE ViewFetched(v)
  <2> DEFINE new == [views[v] EXCEPT !.at = "fetched", !.voices = engine, !.since = now]
  <2>1. views' = [views EXCEPT ![v] = new] /\ cache' = cache /\ views[v].at = "fetching"
    BY <1>3, <1>7 DEF ViewFetched
  <2>2. new \in ViewType
    BY <1>3 DEF ViewType
  <2>3. /\ new.at = "fetched" /\ new.voices = engine /\ new.since = now
        /\ new.asked = views[v].asked /\ new.served = views[v].served
    BY <1>3 DEF ViewType
  <2>4. manifest # 0 /\ views[v].asked <= engine
    BY <1>1, <2>1 DEF Fetched
  <2> HIDE DEF new
  <2>5. views'[v] = new
    BY <1>3, <2>1
  <2>6. now <= now /\ now - now <= FetchMax /\ now - now <= Ttl + FetchMax
    BY <1>3, TimeAssumption
  <2>7. engine >= views[v].asked
    BY <1>1, <2>4, Numbers
  <2>8. QED BY <1>3, <1>5, <2>1, <2>2, <2>3, <2>4, <2>5, <2>6, <2>7
<1>8. CASE ViewFailed(v) \/ ViewEnd(v)
  <2>1. views' = [views EXCEPT ![v] = Quiet] /\ cache' = cache
    BY <1>8 DEF ViewFailed, ViewEnd
  <2>2. views'[v] = Quiet
    BY <1>3, <2>1
  <2>3. QED BY <1>3, <1>5, <2>1, <2>2, RecordTypes
<1>9. CASE ViewStore(v)
  <2>1. /\ views' = [views EXCEPT ![v] = Quiet] /\ views[v].at = "fetched"
        /\ cache' = [cache EXCEPT ![views[v].mode] = Entry(views[v])]
    BY <1>9 DEF ViewStore
  <2>2. views'[v] = Quiet
    BY <1>3, <2>1
  <2>3. /\ manifest # 0 /\ views[v].since <= now /\ now - views[v].since <= FetchMax
        /\ views[v].voices >= views[v].asked
    BY <1>1, <2>1 DEF Fetched
  <2>4. HeldVersion = Version(manifest) /\ HeldVersion \in Nat
    BY <1>3, <2>3, DeclarationType DEF Decl, Known
  <2>5. views[v] \in ViewType
    BY <1>3
  <2>6. Entry(views[v]) \in EntryType
    BY <1>3, <2>4, <2>5 DEF Entry, EntryType, ViewType
  <2>7. GoodEntry(Entry(views[v]))
    BY <2>3, <2>4 DEF GoodEntry, Entry
  <2>8. cache' \in [ViewMode -> EntryType]
    BY <1>3, <2>1, <2>6
  <2>9. \A m \in ViewMode : cache'[m] = cache[m] \/ cache'[m] = Entry(views[v])
    BY <1>3, <2>1
  <2>10. QED BY <1>3, <1>5, <2>1, <2>2, <2>7, <2>8, <2>9, RecordTypes
<1>10. QED BY <1>6, <1>7, <1>8, <1>9

LEMMA TickStep ==
    ASSUME MInv, Tick
    PROVE  MInv'
<1>1. ManifestTypeOK /\ Declared /\ Fetched /\ OldVoicesExpire
  BY DEF MInv
<1>2. UNCHANGED <<engine, manifest, reloads, cache, views>> /\ now' = now + 1
  BY DEF Tick
<1>3. now \in Nat /\ now' \in 0..MaxTime /\ now' >= now
  <2>1. now \in 0..MaxTime /\ now < MaxTime
    BY <1>1 DEF Tick, ManifestTypeOK
  <2>2. QED BY <1>2, <2>1, TimeAssumption
<1>4. ManifestTypeOK'
  BY <1>1, <1>2, <1>3 DEF ManifestTypeOK
<1>5. Declared'
  BY <1>1, <1>2 DEF Declared
<1>6. \A m \in ViewMode : cache'[m] # NoEntry => GoodEntry(cache[m])'
  <2>1. \A m \in ViewMode : cache[m].since <= now => cache[m].since <= now'
    BY <1>1, <1>2, Numbers
  <2>2. QED BY <1>1, <1>2, <2>1 DEF Fetched, GoodEntry
<1>7. \A v \in Viewer : views[v].at # "idle" =>
         views[v].since <= now' /\ now' - views[v].since <= FetchMax
  <2>1. ASSUME NEW v \in Viewer, views[v].at # "idle"
        PROVE  views[v].since <= now' /\ now' - views[v].since <= FetchMax
    <3>1. views[v].since \in Nat /\ views[v].since <= now /\ now - views[v].since < FetchMax
      BY <1>1, <2>1, Numbers DEF Fetched, Tick
    <3>2. QED BY <1>2, <1>3, <3>1, TimeAssumption
  <2>2. QED BY <2>1
<1>8. Fetched'
  BY <1>1, <1>2, <1>6, <1>7 DEF Fetched
<1>9. OldVoicesExpire'
  BY <1>2 DEF Tick, OldVoicesExpire
<1>10. QED BY <1>4, <1>5, <1>8, <1>9 DEF MInv

LEMMA ForgetStep ==
    ASSUME MInv, Forget
    PROVE  MInv'
<1>1. ManifestTypeOK /\ Declared /\ Fetched /\ OldVoicesExpire
  BY DEF MInv
<1>2. ManifestTypeOK'
  BY <1>1, RecordTypes, DeclarationType DEF Forget, ManifestTypeOK, ReloadType, EntryType,
     ViewType, Known
<1>3. Declared' /\ Fetched' /\ OldVoicesExpire'
  BY <1>1, Numbers, RecordTypes DEF Forget, Declared, Fetched, OldVoicesExpire
<1>4. QED BY <1>2, <1>3 DEF MInv

LEMMA ManifestStep == MInv /\ [Next]_vars => MInv'
<1> SUFFICES ASSUME MInv, [Next]_vars PROVE MInv'
  OBVIOUS
<1>1. CASE ManifestNext
  BY <1>1, EngineSteps, ReloadSteps, ViewSteps, TickStep DEF ManifestNext
<1>2. CASE UNCHANGED manifestVars
  BY <1>2 DEF manifestVars, MInv, ManifestTypeOK, Declared, Fetched, GoodEntry, OldVoicesExpire
<1>3. CASE Restart
  <2>1. Forget
    BY <1>3 DEF Restart, Forget
  <2>2. QED BY <2>1, ForgetStep
<1>4. QED BY <1>1, <1>2, <1>3 DEF Next, Sweep, vars
-----------------------------------------------------------------------------
(* What a step may do to the manifest and to what a viewer is served *)

Installs ==
    manifest' # 0 =>
       /\ Validate(Declarations[manifest'])
       /\ manifest' >= manifest \/ \E a \in Admin :
              reloads[a].at = "asked" /\ reloads[a].seen # manifest

LEMMA InstallStep == MInv /\ [Next]_vars => Installs \/ manifest' = manifest
<1> SUFFICES ASSUME MInv, [Next]_vars, manifest' # manifest, manifest' # 0 PROVE Installs
  BY DEF Installs
<1>1. ManifestTypeOK /\ Declared
  BY DEF MInv
<1>2. CASE Discover
  BY <1>1, <1>2, Numbers, DeclarationType, ManifestTypes
  DEF Discover, Set, Installs
<1>3. ASSUME NEW a \in Admin, ReloadSet(a) PROVE Installs
  <2>1. /\ manifest' = reloads[a].got /\ Validate(Declarations[reloads[a].got])
        /\ reloads[a].at = "asked" /\ reloads[a].seen <= reloads[a].got
    BY <1>1, <1>3 DEF ReloadSet, Set, Declared
  <2>2. manifest \in Nat /\ reloads[a].got \in Nat
    BY <1>1, Numbers
  <2>3. reloads[a].seen = manifest => manifest' >= manifest
    BY <2>1, <2>2
  <2>4. QED BY <2>1, <2>3 DEF Installs
<1>4. CASE \/ EngineUpgrade \/ Tick \/ (\E a \in Admin : ReloadAsk(a))
           \/ \E v \in Viewer :
                \/ \E mode \in ViewMode : ViewLookup(v, mode)
                \/ ViewFetched(v) \/ ViewFailed(v) \/ ViewStore(v) \/ ViewEnd(v)
           \/ UNCHANGED manifestVars \/ Restart
  BY <1>4 DEF EngineUpgrade, Tick, ReloadAsk, ViewLookup, ViewFetched, ViewFailed,
     ViewStore, ViewEnd, manifestVars, Restart
<1>5. QED BY <1>2, <1>3, <1>4 DEF Next, ManifestNext, Sweep, vars

Served ==
    \A v \in Viewer :
       LET hit == views'[v]
       IN  views[v].served = "none" /\ hit.served = "cache" =>
              /\ Declarations[hit.under].version = HeldVersion
              /\ hit.voices >= hit.under \/ hit.asked # hit.under

LEMMA ServeStep == MInv /\ [Next]_vars => Served \/ views' = views
<1> SUFFICES ASSUME MInv, [Next]_vars, NEW v \in Viewer,
                    views[v].served = "none", views'[v].served = "cache"
             PROVE  /\ Declarations[views'[v].under].version = HeldVersion
                    /\ \/ views'[v].voices >= views'[v].under
                       \/ views'[v].asked # views'[v].under
  BY DEF Served
<1>1. ManifestTypeOK /\ Fetched /\ views \in [Viewer -> ViewType]
  BY ManifestTypes DEF MInv
<1>2. ASSUME NEW w \in Viewer, NEW mode \in ViewMode, ViewLookup(w, mode)
      PROVE  /\ Declarations[views'[v].under].version = HeldVersion
             /\ \/ views'[v].voices >= views'[v].under
                \/ views'[v].asked # views'[v].under
  <2> DEFINE e == cache[mode]
             asking == [Quiet EXCEPT !.at = "fetching", !.since = now, !.mode = mode,
                                     !.asked = manifest]
  <2>1. asking.served = "none"
    BY DEF Quiet
  <2>2. views'[v].served = "cache" => w = v /\ e # NoEntry /\ ~Expired(e)
    BY <1>1, <1>2, <2>1 DEF ViewLookup
  <2>3. /\ views'[v].voices = e.voices /\ views'[v].asked = e.asked
        /\ views'[v].under = e.under
    BY <1>1, <1>2, <2>2 DEF ViewLookup
  <2>4. e.version = HeldVersion
    BY <2>2 DEF Expired
  <2>5. e.version = Version(e.under) /\ (e.voices >= e.under \/ e.asked # e.under)
    BY <1>1, <2>2 DEF Fetched, GoodEntry
  <2>6. QED BY <2>3, <2>4, <2>5 DEF Version
<1>3. ASSUME NEW w \in Viewer, ViewFetched(w) \/ ViewFailed(w) \/ ViewStore(w) \/ ViewEnd(w)
      PROVE  FALSE
  <2>1. CASE ViewFetched(w)
    <3>1. views' = [views EXCEPT ![w].at = "fetched", ![w].voices = engine, ![w].since = now]
      BY <2>1 DEF ViewFetched
    <3>2. views'[v].served = views[v].served
      BY <1>1, <3>1 DEF ViewType
    <3>3. QED BY <3>2
  <2>2. CASE ViewFailed(w) \/ ViewStore(w) \/ ViewEnd(w)
    <3>1. views' = [views EXCEPT ![w] = Quiet]
      BY <2>2 DEF ViewFailed, ViewStore, ViewEnd
    <3>2. views'[v] = views[v] \/ views'[v] = Quiet
      BY <1>1, <3>1
    <3>3. QED BY <3>2, RecordTypes
  <2>3. QED BY <1>3, <2>1, <2>2
<1>4. CASE \/ EngineUpgrade \/ Tick \/ Discover
           \/ (\E a \in Admin : ReloadAsk(a) \/ ReloadSet(a))
           \/ UNCHANGED manifestVars \/ Restart
  <2>1. views' = views \/ views' = [w \in Viewer |-> Quiet]
    BY <1>4 DEF EngineUpgrade, Tick, Discover, ReloadAsk, ReloadSet, manifestVars, Restart
  <2>2. QED BY <2>1, RecordTypes
<1>5. QED BY <1>2, <1>3, <1>4 DEF Next, ManifestNext, Sweep, vars
-----------------------------------------------------------------------------
(* Voices: where an upload is says what there is of its voice. *)

Young == {"idle", "mode", "format", "put"}
Past == {"undo", "saved", "failed"}

UploadType == [
    at : {"idle", "mode", "format", "put", "clone", "insert", "undo", "saved", "failed"},
    mode : UploadMode \cup ModeName, format : UploadFormat \cup {""},
    named : Known, judged : Known, left : BOOLEAN]
DeletionType == [at : {"idle", "row", "file", "done"}, voice : Upload \cup {"none"}]

VoiceTypes ==
    /\ uploads \in [Upload -> UploadType]
    /\ deletions \in [Deletion -> DeletionType]
    /\ rows \subseteq Upload
    /\ objects \subseteq {KeyOf(u) : u \in Upload} \cup {TempKey(t) : t \in Temp}
    /\ cloned \subseteq Upload /\ unheard \subseteq Upload /\ leaked \subseteq Upload
    /\ faults \in 0..MaxFaults

Story ==
    /\ \A u \in Upload :
          /\ uploads[u].at \in Young => KeyOf(u) \notin objects
          /\ uploads[u].at \in {"clone", "insert"} => KeyOf(u) \in objects
          /\ uploads[u].at = "insert" => u \in cloned
          /\ uploads[u].at \notin Past => u \notin rows
          /\ uploads[u].at \in {"undo", "failed"} /\ u \in rows => u \in unheard
    /\ \A d \in Deletion :
          /\ deletions[d].at \in {"row", "file"} =>
                /\ deletions[d].voice \in Upload
                /\ uploads[deletions[d].voice].at \in Past
          /\ deletions[d].at = "file" => deletions[d].voice \notin rows

Judging ==
    \A u \in Upload :
        /\ uploads[u].named # 0 =>
              HasMode(Declarations[uploads[u].named], uploads[u].mode)
        /\ uploads[u].judged # 0 =>
              uploads[u].format
                \in ReferenceFormats(Declarations[uploads[u].judged], uploads[u].mode)

VInv == VoiceTypes /\ Story /\ RowsAreUsable /\ FilesHaveOwners /\ Judging

LEMMA Types == TypeOK <=> ManifestTypeOK /\ VoiceTypes
BY DEF TypeOK, VoiceTypes, UploadType, DeletionType, Known

LEMMA Keys ==
    /\ \A u, v \in Upload : KeyOf(u) = KeyOf(v) => u = v
    /\ \A u \in Upload, t \in Temp : KeyOf(u) # TempKey(t)
    /\ \A u \in Upload : Len(KeyOf(u)) = 4
BY DEF KeyOf, VoiceKey, TempKey

LEMMA Owned ==
    FilesHaveOwners <=>
       \A u \in Upload :
          KeyOf(u) \in objects =>
            \/ u \in rows
            \/ uploads[u].at \notin {"idle", "saved", "failed"}
            \/ \E d \in Deletion : deletions[d].at = "file" /\ deletions[d].voice = u
            \/ u \in leaked
            \/ PreserveFiles
BY DEF FilesHaveOwners, Working, DeletesFile

LEMMA SameKey ==
    ASSUME NEW u \in Upload, uploads'[u].mode = uploads[u].mode
    PROVE  KeyOf(u)' = KeyOf(u)
BY DEF KeyOf

LEMMA NotAskedType ==
    /\ NotAsked \in UploadType
    /\ \A at \in {"idle", "mode", "saved", "failed"}, mode \in UploadMode \cup ModeName :
          /\ [NotAsked EXCEPT !.at = at, !.mode = mode] \in UploadType
          /\ \A format \in UploadFormat :
                [NotAsked EXCEPT !.at = at, !.format = format, !.mode = mode] \in UploadType
<1>1. "" \in UploadMode \cup ModeName /\ "" \in UploadFormat \cup {""} /\ 0 \in Known
  BY DeclarationType DEF ModeName
<1>2. NotAsked \in UploadType
  BY <1>1 DEF NotAsked, UploadType
<1>3. ASSUME NEW at \in {"idle", "mode", "saved", "failed"},
             NEW mode \in UploadMode \cup ModeName
      PROVE  /\ [NotAsked EXCEPT !.at = at, !.mode = mode] \in UploadType
             /\ \A format \in UploadFormat :
                   [NotAsked EXCEPT !.at = at, !.format = format, !.mode = mode] \in UploadType
  BY <1>1 DEF NotAsked, UploadType
<1>4. QED BY <1>2, <1>3

(* One step of one upload that keeps its mode: what to show of that upload. *)
LEMMA OneUpload ==
    ASSUME VInv, NEW u \in Upload, NEW x \in UploadType,
           uploads' = [uploads EXCEPT ![u] = x], UNCHANGED deletions,
           x.mode = uploads[u].mode,
           rows' = rows \/ (rows' = rows \cup {u} /\ uploads[u].at \notin Past),
           cloned' = cloned \/ cloned' = cloned \cup {u},
           \/ objects' = objects
           \/ objects' = objects \cup {KeyOf(u)} \/ objects' = objects \ {KeyOf(u)},
           unheard' = unheard \/ unheard' = unheard \cup {u},
           leaked' = leaked \/ leaked' = leaked \cup {u},
           faults' \in 0..MaxFaults,
           x.at \in Young => KeyOf(u) \notin objects',
           x.at \in {"clone", "insert"} => KeyOf(u) \in objects',
           x.at = "insert" => u \in cloned',
           uploads[u].at \in Past => x.at \in Past,
           x.at \notin Past => rows' = rows,
           x.at \in {"undo", "failed"} /\ u \in rows' => u \in unheard',
           u \in rows' => u \in cloned' /\ (KeyOf(u) \in objects' \/ u \in unheard'),
           KeyOf(u) \in objects' =>
              \/ u \in rows' \/ x.at \notin {"idle", "saved", "failed"}
              \/ \E d \in Deletion : deletions[d].at = "file" /\ deletions[d].voice = u
              \/ u \in leaked' \/ PreserveFiles,
           x.named # 0 => HasMode(Declarations[x.named], x.mode),
           x.judged # 0 => x.format \in ReferenceFormats(Declarations[x.judged], x.mode)
    PROVE  VInv'
<1>1. VoiceTypes /\ Story /\ RowsAreUsable /\ FilesHaveOwners /\ Judging
  BY DEF VInv
<1>2. /\ uploads \in [Upload -> UploadType] /\ uploads'[u] = x
      /\ \A v \in Upload \ {u} : uploads'[v] = uploads[v]
  BY <1>1 DEF VoiceTypes
<1>3. \A v \in Upload : KeyOf(v)' = KeyOf(v)
  BY <1>2, SameKey
<1>4. \A v \in Upload \ {u} :
         /\ KeyOf(v) \in objects' <=> KeyOf(v) \in objects
         /\ v \in rows' <=> v \in rows
         /\ v \in cloned' <=> v \in cloned
         /\ v \in unheard' <=> v \in unheard
         /\ v \in leaked' <=> v \in leaked
  BY Keys
<1>5. VoiceTypes'
  <2>1. uploads' \in [Upload -> UploadType]
    BY <1>2
  <2>2. objects' \subseteq {KeyOf(v) : v \in Upload} \cup {TempKey(t) : t \in Temp}
    BY <1>1 DEF VoiceTypes
  <2>3. (objects \subseteq {KeyOf(v) : v \in Upload} \cup {TempKey(t) : t \in Temp})'
    BY <1>3, <2>2 DEF TempKey
  <2>4. /\ rows' \subseteq Upload /\ cloned' \subseteq Upload
        /\ unheard' \subseteq Upload /\ leaked' \subseteq Upload
    BY <1>1 DEF VoiceTypes
  <2>5. QED BY <1>1, <2>1, <2>3, <2>4 DEF VoiceTypes, UploadType, DeletionType
<1>6. Story'
  <2>1. ASSUME NEW v \in Upload
        PROVE  /\ uploads'[v].at \in Young => KeyOf(v) \notin objects'
               /\ uploads'[v].at \in {"clone", "insert"} => KeyOf(v) \in objects'
               /\ uploads'[v].at = "insert" => v \in cloned'
               /\ uploads'[v].at \notin Past => v \notin rows'
               /\ uploads'[v].at \in {"undo", "failed"} /\ v \in rows' => v \in unheard'
    BY <1>1, <1>2, <1>4 DEF Story
  <2>2. ASSUME NEW d \in Deletion, deletions[d].at \in {"row", "file"}
        PROVE  /\ deletions[d].voice \in Upload
               /\ uploads'[deletions[d].voice].at \in Past
               /\ deletions[d].at = "file" => deletions[d].voice \notin rows'
    <3>1. deletions[d].voice \in Upload /\ uploads[deletions[d].voice].at \in Past
          /\ (deletions[d].at = "file" => deletions[d].voice \notin rows)
      BY <1>1, <2>2 DEF Story
    <3>2. QED BY <1>2, <1>4, <3>1
  <2>3. QED BY <1>3, <2>1, <2>2 DEF Story, Young, Past
<1>7. RowsAreUsable'
  <2>1. \A v \in rows' : v \in Upload
    BY <1>5 DEF VoiceTypes
  <2>2. \A v \in rows' : v \in cloned' /\ (KeyOf(v) \in objects' \/ v \in unheard')
    BY <1>1, <1>4, <2>1 DEF RowsAreUsable
  <2>3. QED BY <1>3, <2>1, <2>2 DEF RowsAreUsable
<1>8. FilesHaveOwners'
  <2>1. ASSUME NEW v \in Upload, KeyOf(v) \in objects'
        PROVE  \/ v \in rows'
               \/ uploads'[v].at \notin {"idle", "saved", "failed"}
               \/ \E d \in Deletion : deletions[d].at = "file" /\ deletions[d].voice = v
               \/ v \in leaked'
               \/ PreserveFiles
    BY <1>1, <1>2, <1>4, <2>1, Owned
  <2>2. QED BY <1>3, <2>1 DEF FilesHaveOwners, Working, DeletesFile
<1>9. Judging'
  BY <1>1, <1>2 DEF Judging
<1>10. QED BY <1>5, <1>6, <1>7, <1>8, <1>9 DEF VInv

(* An upload that ends keeps its mode and forgets the rest. *)
Finished(u, at) == [NotAsked EXCEPT !.at = at, !.mode = uploads[u].mode]

LEMMA FinishedFacts ==
    ASSUME VoiceTypes, NEW u \in Upload, NEW at \in {"saved", "failed"}
    PROVE  /\ Finished(u, at) \in UploadType
           /\ Finished(u, at).at = at /\ Finished(u, at).mode = uploads[u].mode
           /\ Finished(u, at).named = 0 /\ Finished(u, at).judged = 0
<1>1. uploads[u].mode \in UploadMode \cup ModeName
  BY DEF VoiceTypes, UploadType
<1>2. Finished(u, at) \in UploadType
  BY <1>1, NotAskedType DEF Finished
<1>3. QED BY <1>2 DEF Finished, NotAsked

LEMMA FaultsType ==
    ASSUME VoiceTypes, \/ Spend \/ UNCHANGED faults
    PROVE  faults' \in 0..MaxFaults
BY VoiceAssumption DEF VoiceTypes, Spend

(* What the invariant says of one upload. *)
LEMMA About ==
    ASSUME VInv, NEW u \in Upload
    PROVE  /\ uploads[u] \in UploadType
           /\ uploads[u].at \in Young => KeyOf(u) \notin objects
           /\ uploads[u].at \in {"clone", "insert"} => KeyOf(u) \in objects
           /\ uploads[u].at = "insert" => u \in cloned
           /\ uploads[u].at \notin Past => u \notin rows
           /\ uploads[u].at \in {"undo", "failed"} /\ u \in rows => u \in unheard
           /\ u \in rows => u \in cloned /\ (KeyOf(u) \in objects \/ u \in unheard)
           /\ KeyOf(u) \in objects =>
                \/ u \in rows \/ uploads[u].at \notin {"idle", "saved", "failed"}
                \/ \E d \in Deletion : deletions[d].at = "file" /\ deletions[d].voice = u
                \/ u \in leaked \/ PreserveFiles
           /\ uploads[u].named # 0 =>
                 HasMode(Declarations[uploads[u].named], uploads[u].mode)
           /\ uploads[u].judged # 0 =>
                 uploads[u].format
                   \in ReferenceFormats(Declarations[uploads[u].judged], uploads[u].mode)
<1>1. VoiceTypes /\ Story /\ RowsAreUsable /\ FilesHaveOwners /\ Judging
  BY DEF VInv
<1>2. uploads[u] \in UploadType
  BY <1>1 DEF VoiceTypes
<1>3. /\ uploads[u].at \in Young => KeyOf(u) \notin objects
      /\ uploads[u].at \in {"clone", "insert"} => KeyOf(u) \in objects
      /\ uploads[u].at = "insert" => u \in cloned
      /\ uploads[u].at \notin Past => u \notin rows
      /\ uploads[u].at \in {"undo", "failed"} /\ u \in rows => u \in unheard
  BY <1>1 DEF Story
<1>4. u \in rows => u \in cloned /\ (KeyOf(u) \in objects \/ u \in unheard)
  BY <1>1 DEF RowsAreUsable
<1>5. KeyOf(u) \in objects =>
         \/ u \in rows \/ uploads[u].at \notin {"idle", "saved", "failed"}
         \/ \E d \in Deletion : deletions[d].at = "file" /\ deletions[d].voice = u
         \/ u \in leaked \/ PreserveFiles
  BY <1>1, Owned
<1>6. /\ uploads[u].named # 0 =>
            HasMode(Declarations[uploads[u].named], uploads[u].mode)
      /\ uploads[u].judged # 0 =>
            uploads[u].format
              \in ReferenceFormats(Declarations[uploads[u].judged], uploads[u].mode)
  BY <1>1 DEF Judging
<1>7. QED BY <1>2, <1>3, <1>4, <1>5, <1>6

LEMMA UploadChecks ==
    ASSUME VInv, manifest \in Known, NEW u \in Upload, UploadNamed(u) \/ UploadJudged(u)
    PROVE  VInv'
<1>1. VoiceTypes
  BY DEF VInv
<1>2. UNCHANGED <<deletions, rows, objects, cloned, unheard, leaked, faults>>
  BY DEF UploadNamed, UploadJudged
<1>3. uploads[u].at \in {"mode", "format"} /\ faults' \in 0..MaxFaults
  BY <1>1, <1>2, FaultsType DEF UploadNamed, UploadJudged, At
<1>4. /\ uploads[u] \in UploadType /\ uploads[u].at \in Young /\ uploads[u].at \notin Past
      /\ KeyOf(u) \notin objects /\ u \notin rows
  BY <1>3, About DEF Young, Past
<1>5. CASE uploads' = [uploads EXCEPT ![u] = Finished(u, "failed")]
  BY <1>1, <1>2, <1>3, <1>4, <1>5, OneUpload, FinishedFacts DEF Young, Past
<1>6. CASE /\ HasMode(Held, uploads[u].mode)
           /\ uploads' = [uploads EXCEPT ![u].at = "format", ![u].named = manifest]
  <2> DEFINE x == [uploads[u] EXCEPT !.at = "format", !.named = manifest]
  <2>1. uploads' = [uploads EXCEPT ![u] = x]
    BY <1>1, <1>6 DEF VoiceTypes
  <2>2. x \in UploadType
    BY <1>4 DEF UploadType
  <2>3. /\ x.at = "format" /\ x.mode = uploads[u].mode /\ x.named = manifest
        /\ x.judged = uploads[u].judged /\ x.format = uploads[u].format
    BY <1>4 DEF UploadType
  <2>4. HasMode(Declarations[x.named], x.mode)
    BY <1>6, <2>3 DEF Held
  <2>5. x.judged # 0 => x.format \in ReferenceFormats(Declarations[x.judged], x.mode)
    BY <2>3, About
  <2> HIDE DEF x
  <2>6. QED BY <1>2, <1>3, <1>4, <2>1, <2>2, <2>3, <2>4, <2>5, OneUpload DEF Young, Past
<1>7. CASE /\ uploads[u].format \in ReferenceFormats(Held, uploads[u].mode)
           /\ uploads' = [uploads EXCEPT ![u].at = "put", ![u].judged = manifest]
  <2> DEFINE x == [uploads[u] EXCEPT !.at = "put", !.judged = manifest]
  <2>1. uploads' = [uploads EXCEPT ![u] = x]
    BY <1>1, <1>7 DEF VoiceTypes
  <2>2. x \in UploadType
    BY <1>4 DEF UploadType
  <2>3. /\ x.at = "put" /\ x.mode = uploads[u].mode /\ x.judged = manifest
        /\ x.named = uploads[u].named /\ x.format = uploads[u].format
    BY <1>4 DEF UploadType
  <2>4. x.format \in ReferenceFormats(Declarations[x.judged], x.mode)
    BY <1>7, <2>3 DEF Held
  <2>5. x.named # 0 => HasMode(Declarations[x.named], x.mode)
    BY <2>3, About
  <2> HIDE DEF x
  <2>6. QED BY <1>2, <1>3, <1>4, <2>1, <2>2, <2>3, <2>4, <2>5, OneUpload DEF Young, Past
<1>8. QED
  BY <1>5, <1>6, <1>7 DEF UploadNamed, UploadJudged, Finish, Finished

(* A change of one field that is not about the check of the file. *)
LEMMA Goes ==
    ASSUME VInv, NEW u \in Upload,
           NEW x \in UploadType, x.mode = uploads[u].mode, x.format = uploads[u].format,
           x.named = uploads[u].named, x.judged = uploads[u].judged
    PROVE  /\ x.named # 0 => HasMode(Declarations[x.named], x.mode)
           /\ x.judged # 0 => x.format \in ReferenceFormats(Declarations[x.judged], x.mode)
BY About

LEMMA GotoFacts ==
    ASSUME VInv, NEW u \in Upload, NEW at \in {"clone", "insert", "undo"}, Goto(u, at)
    PROVE  \E x \in UploadType :
              /\ uploads' = [uploads EXCEPT ![u] = x]
              /\ x.at = at /\ x.mode = uploads[u].mode
              /\ x.named # 0 => HasMode(Declarations[x.named], x.mode)
              /\ x.judged # 0 => x.format \in ReferenceFormats(Declarations[x.judged], x.mode)
<1> DEFINE x == [uploads[u] EXCEPT !.at = at]
<1>1. uploads[u] \in UploadType /\ uploads \in [Upload -> UploadType]
  BY About DEF VInv, VoiceTypes
<1>2. uploads' = [uploads EXCEPT ![u] = x]
  BY <1>1 DEF Goto
<1>3. /\ x \in UploadType
      /\ x.at = at /\ x.mode = uploads[u].mode /\ x.format = uploads[u].format
      /\ x.named = uploads[u].named /\ x.judged = uploads[u].judged
  BY <1>1 DEF UploadType
<1> HIDE DEF x
<1>4. QED BY <1>2, <1>3, Goes

LEMMA UploadMoves ==
    ASSUME VInv, NEW u \in Upload,
           UploadPut(u) \/ UploadClone(u) \/ UploadCloneFails(u) \/ UploadInsertFails(u)
    PROVE  VInv'
<1>1. VoiceTypes
  BY DEF VInv
<1>2. faults' \in 0..MaxFaults /\ UNCHANGED deletions
  BY <1>1, FaultsType DEF UploadPut, UploadClone, UploadCloneFails, UploadInsertFails, Fails
<1>3. CASE UploadPut(u)
  <2>1. Goto(u, "clone") /\ uploads[u].at = "put"
    BY <1>3 DEF UploadPut, At
  <2>2. QED BY <1>2, <1>3, <2>1, GotoFacts, About, OneUpload DEF UploadPut, Young, Past
<1>4. CASE UploadClone(u)
  <2>1. Goto(u, "insert") /\ uploads[u].at = "clone"
    BY <1>4 DEF UploadClone, At
  <2>2. QED BY <1>2, <1>4, <2>1, GotoFacts, About, OneUpload DEF UploadClone, Young, Past
<1>5. CASE UploadCloneFails(u)
  <2>1. Goto(u, "undo") /\ uploads[u].at = "clone"
    BY <1>5 DEF UploadCloneFails, At
  <2>2. QED BY <1>2, <1>5, <2>1, GotoFacts, About, OneUpload DEF UploadCloneFails, Young, Past
<1>6. CASE UploadInsertFails(u)
  <2>1. Goto(u, "undo") /\ uploads[u].at = "insert"
    BY <1>6 DEF UploadInsertFails, At
  <2>2. PICK x \in UploadType :
           /\ uploads' = [uploads EXCEPT ![u] = x]
           /\ x.at = "undo" /\ x.mode = uploads[u].mode
           /\ x.named # 0 => HasMode(Declarations[x.named], x.mode)
           /\ x.judged # 0 => x.format \in ReferenceFormats(Declarations[x.judged], x.mode)
    BY <2>1, GotoFacts
  <2>3. \/ UNCHANGED <<rows, unheard>>
        \/ rows' = rows \cup {u} /\ unheard' = unheard \cup {u}
    BY <1>6 DEF UploadInsertFails
  <2>4. UNCHANGED <<objects, cloned, leaked>>
    BY <1>6 DEF UploadInsertFails
  <2>5. KeyOf(u) \in objects /\ u \in cloned /\ u \notin rows
    BY <2>1, About DEF Past
  <2>6. QED BY <1>2, <2>1, <2>2, <2>3, <2>4, <2>5, OneUpload DEF Young, Past
<1>7. QED BY <1>3, <1>4, <1>5, <1>6

LEMMA LeaveStep ==
    ASSUME VInv, NEW u \in Upload, Leave(u)
    PROVE  VInv'
<1> DEFINE x == [uploads[u] EXCEPT !.left = TRUE]
<1>1. VoiceTypes /\ uploads[u] \in UploadType /\ uploads \in [Upload -> UploadType]
  BY About DEF VInv, VoiceTypes
<1>2. uploads' = [uploads EXCEPT ![u] = x]
  BY <1>1 DEF Leave
<1>3. x \in UploadType
  BY <1>1 DEF UploadType
<1>4. /\ x.at = uploads[u].at /\ x.mode = uploads[u].mode /\ x.format = uploads[u].format
      /\ x.named = uploads[u].named /\ x.judged = uploads[u].judged
  BY <1>1 DEF UploadType
<1> HIDE DEF x
<1>5. /\ faults' \in 0..MaxFaults
      /\ UNCHANGED <<deletions, rows, objects, cloned, unheard, leaked>>
  BY <1>1, FaultsType DEF Leave
<1>6. /\ x.named # 0 => HasMode(Declarations[x.named], x.mode)
      /\ x.judged # 0 => x.format \in ReferenceFormats(Declarations[x.judged], x.mode)
  BY <1>3, <1>4, Goes
<1>7. KeyOf(u) \in objects =>
         \/ u \in rows \/ x.at \notin {"idle", "saved", "failed"}
         \/ \E d \in Deletion : deletions[d].at = "file" /\ deletions[d].voice = u
         \/ u \in leaked \/ PreserveFiles
  BY <1>4, About
<1>8. /\ x.at \in Young => KeyOf(u) \notin objects
      /\ x.at \in {"clone", "insert"} => KeyOf(u) \in objects
      /\ x.at = "insert" => u \in cloned
      /\ x.at \in {"undo", "failed"} /\ u \in rows => u \in unheard
      /\ u \in rows => u \in cloned /\ (KeyOf(u) \in objects \/ u \in unheard)
  BY <1>4, About
<1>9. QED BY <1>2, <1>3, <1>4, <1>5, <1>6, <1>7, <1>8, OneUpload

LEMMA UploadEnds ==
    ASSUME VInv, NEW u \in Upload,
           UploadPutFails(u) \/ UploadInsert(u) \/ UploadUndo(u) \/ UploadUndoFails(u)
    PROVE  VInv'
<1>1. VoiceTypes
  BY DEF VInv
<1>2. faults' \in 0..MaxFaults /\ UNCHANGED deletions
  BY <1>1, FaultsType DEF UploadPutFails, UploadInsert, UploadUndo, UploadUndoFails, Fails
<1>3. CASE UploadPutFails(u)
  <2>1. uploads' = [uploads EXCEPT ![u] = Finished(u, "failed")]
    BY <1>3 DEF UploadPutFails, Finish, Finished
  <2>2. uploads[u].at = "put"
    BY <1>3 DEF UploadPutFails, At
  <2>3. /\ KeyOf(u) \notin objects /\ u \notin rows
    BY <2>2, About DEF Young, Past
  <2>4. \/ UNCHANGED <<objects, leaked>>
        \/ objects' = objects \cup {KeyOf(u)} /\ leaked' = leaked \cup {u}
    BY <1>3 DEF UploadPutFails
  <2>5. UNCHANGED <<rows, cloned, unheard>>
    BY <1>3 DEF UploadPutFails
  <2>6. QED
    BY <1>1, <1>2, <2>1, <2>2, <2>3, <2>4, <2>5, OneUpload, FinishedFacts DEF Young, Past
<1>4. CASE UploadInsert(u)
  <2>1. uploads' = [uploads EXCEPT ![u] = Finished(u, "saved")]
    BY <1>4 DEF UploadInsert, Finish, Finished
  <2>2. QED
    BY <1>1, <1>2, <1>4, <2>1, About, OneUpload, FinishedFacts DEF UploadInsert, At, Young, Past
<1>5. CASE UploadUndo(u)
  <2>1. uploads' = [uploads EXCEPT ![u] = Finished(u, "failed")] /\ uploads[u].at = "undo"
    BY <1>5 DEF UploadUndo, Finish, Finished, At
  <2>2. /\ objects' = objects \ {KeyOf(u)} /\ UNCHANGED <<rows, cloned, unheard, leaked>>
        /\ KeyOf(u) \notin objects'
    BY <1>5 DEF UploadUndo
  <2>3. (u \in rows => u \in unheard /\ u \in cloned)
    BY <2>1, About
  <2>4. PICK x \in UploadType : /\ uploads' = [uploads EXCEPT ![u] = x]
                                /\ x.at = "failed" /\ x.mode = uploads[u].mode
                                /\ x.named = 0 /\ x.judged = 0
    BY <1>1, <2>1, FinishedFacts
  <2>5. x.at \in Past /\ x.at \notin Young /\ x.at \notin {"clone", "insert"}
    BY <2>4 DEF Young, Past
  <2>6. QED BY <1>2, <2>1, <2>2, <2>3, <2>4, <2>5, OneUpload
<1>6. CASE UploadUndoFails(u)
  <2>1. uploads' = [uploads EXCEPT ![u] = Finished(u, "failed")] /\ uploads[u].at = "undo"
    BY <1>6 DEF UploadUndoFails, Finish, Finished, At
  <2>2. UNCHANGED <<rows, objects, cloned, unheard>> /\ leaked' = leaked \cup {u}
    BY <1>6 DEF UploadUndoFails
  <2>3. (u \in rows => u \in unheard /\ u \in cloned)
    BY <2>1, About
  <2>4. PICK x \in UploadType : /\ uploads' = [uploads EXCEPT ![u] = x]
                                /\ x.at = "failed" /\ x.mode = uploads[u].mode
                                /\ x.named = 0 /\ x.judged = 0
    BY <1>1, <2>1, FinishedFacts
  <2>5. x.at \in Past /\ x.at \notin Young /\ x.at \notin {"clone", "insert"}
    BY <2>4 DEF Young, Past
  <2>6. QED BY <1>2, <2>1, <2>2, <2>3, <2>4, <2>5, OneUpload
<1>7. QED BY <1>3, <1>4, <1>5, <1>6

Less == {pair \in Nat \X Nat : pair[1] < pair[2]}

LEMMA LeastNumber ==
    ASSUME NEW S \in SUBSET Nat, S # {}
    PROVE  \E i \in S : \A j \in S : i <= j
<1>1. IsWellFoundedOn(Less, Nat)
  BY NatLessThanWellFounded DEF OpToRel, Less
<1>2. PICK i \in S : \A j \in S : ~(<<j, i>> \in Less)
  BY <1>1, WFMin
<1>3. \A j \in S : ~(j < i)
  BY <1>2 DEF Less
<1>4. QED BY <1>3

(* The first mode that clones is one of the modes, or none. *)
LEMMA FirstCloningModeName ==
    ASSUME manifest \in Decl
    PROVE  FirstCloningMode(Held) \in ModeName
<1> DEFINE able == {i \in DOMAIN Held.modes : SupportsCloning(Held, Held.modes[i].id)}
           first == CHOOSE i \in able : \A j \in able : i <= j
<1>1. CASE able = {}
  BY <1>1 DEF FirstCloningMode, ModeName
<1>2. CASE able # {}
  <2>1. DOMAIN Held.modes \subseteq Nat
    <3> DEFINE mode == [id : STRING, cloning : BOOLEAN \cup {Unset},
                        presets : BOOLEAN \cup {Unset}, formats : SUBSET STRING]
           type == [version : Nat, modes : Seq(mode), cloning : BOOLEAN \cup {Unset},
                    presets : BOOLEAN \cup {Unset}, formats : SUBSET STRING]
    <3>1. Declarations \in Seq(type)
      BY DeclarationsAssumption
    <3> HIDE DEF mode
    <3>2. \A d \in type : d.modes \in Seq(mode)
      OBVIOUS
    <3> HIDE DEF type
    <3>3. Held.modes \in Seq(mode)
      BY <3>1, <3>2 DEF Held, Decl
    <3>4. DOMAIN Held.modes = 1..Len(Held.modes) /\ Len(Held.modes) \in Nat
      BY <3>3
    <3>5. QED BY <3>4
  <2>2. \E i \in able : \A j \in able : i <= j
    BY <1>2, <2>1, LeastNumber
  <2>3. first \in DOMAIN Held.modes
    BY <2>2
  <2>4. FirstCloningMode(Held) = Held.modes[first].id
    BY <1>2 DEF FirstCloningMode
  <2>5. Held.modes[first].id
           \in {Declarations[manifest].modes[i].id : i \in DOMAIN Declarations[manifest].modes}
    BY <2>3 DEF Held
  <2> HIDE DEF first
  <2>6. {Declarations[manifest].modes[i].id : i \in DOMAIN Declarations[manifest].modes}
           \in {{Declarations[n].modes[i].id : i \in DOMAIN Declarations[n].modes} : n \in Decl}
    OBVIOUS
  <2>7. QED BY <2>4, <2>5, <2>6 DEF ModeName
<1>3. QED BY <1>1, <1>2

LEMMA UploadStartStep ==
    ASSUME VInv, ManifestTypeOK, NEW u \in Upload, NEW mode \in UploadMode,
           NEW format \in UploadFormat, UploadStart(u, mode, format)
    PROVE  VInv'
<1> DEFINE name == IF mode = "" THEN FirstCloningMode(Held) ELSE mode
           x == [NotAsked EXCEPT !.at = "mode", !.format = format, !.mode = name]
<1>1. VoiceTypes /\ Story /\ RowsAreUsable /\ FilesHaveOwners /\ Judging
  BY DEF VInv
<1>2. manifest \in Decl
  <2>1. manifest \in 0..Len(Declarations) /\ manifest # 0
    BY DEF UploadStart, ManifestTypeOK
  <2>2. QED BY <2>1, DeclarationType DEF Decl
<1>3. name \in UploadMode \cup ModeName
  BY <1>2, FirstCloningModeName
<1>4. x \in UploadType
  BY <1>3, NotAskedType
<1>5. x.at = "mode" /\ x.mode = name /\ x.named = 0 /\ x.judged = 0
  BY DEF NotAsked
<1>6. /\ uploads' = [uploads EXCEPT ![u] = x]
      /\ UNCHANGED <<deletions, rows, objects, cloned, unheard, leaked, faults>>
  BY DEF UploadStart
<1> HIDE DEF x, name
<1>7. /\ uploads[u].at = "idle" /\ KeyOf(u) \notin objects /\ u \notin rows
  BY About DEF UploadStart, At, Young, Past
<1>8. /\ uploads \in [Upload -> UploadType] /\ uploads'[u] = x
      /\ \A v \in Upload \ {u} : uploads'[v] = uploads[v]
  BY <1>1, <1>6 DEF VoiceTypes
<1>9. \A v \in Upload \ {u} : KeyOf(v)' = KeyOf(v)
  BY <1>8, SameKey
<1>10. KeyOf(u)' = VoiceKey(name, u)
  BY <1>5, <1>8 DEF KeyOf
<1>11. VoiceKey(name, u) \notin objects
  <2>1. objects \subseteq {KeyOf(v) : v \in Upload} \cup {TempKey(t) : t \in Temp}
    BY <1>1 DEF VoiceTypes
  <2>2. \A t \in Temp : VoiceKey(name, u) # TempKey(t)
    BY DEF VoiceKey, TempKey
  <2>3. \A v \in Upload : VoiceKey(name, u) = KeyOf(v) => v = u
    BY DEF KeyOf, VoiceKey
  <2>4. QED BY <1>7, <2>1, <2>2, <2>3
<1>12. VoiceTypes'
  <2>1. uploads' \in [Upload -> UploadType]
    BY <1>4, <1>6, <1>8
  <2>2. objects \subseteq {KeyOf(v) : v \in Upload} \cup {TempKey(t) : t \in Temp}
    BY <1>1 DEF VoiceTypes
  <2>3. ASSUME NEW o \in objects
        PROVE  o \in {KeyOf(v)' : v \in Upload} \cup {TempKey(t) : t \in Temp}
    <3>1. CASE o \in {TempKey(t) : t \in Temp}
      BY <3>1
    <3>2. CASE o \in {KeyOf(v) : v \in Upload}
      <4>1. PICK v \in Upload : o = KeyOf(v)
        BY <3>2
      <4>2. v # u
        BY <1>7, <4>1
      <4>3. o = KeyOf(v)'
        BY <1>9, <4>1, <4>2
      <4>4. QED BY <4>3
    <3>3. QED BY <2>2, <3>1, <3>2
  <2>4. (objects \subseteq {KeyOf(v) : v \in Upload} \cup {TempKey(t) : t \in Temp})'
    BY <1>6, <2>3 DEF TempKey
  <2>5. QED BY <1>1, <1>6, <2>1, <2>4 DEF VoiceTypes, UploadType, DeletionType, ModeName
<1>13. Story'
  <2>1. ASSUME NEW v \in Upload
        PROVE  (/\ uploads[v].at \in Young => KeyOf(v) \notin objects
                /\ uploads[v].at \in {"clone", "insert"} => KeyOf(v) \in objects
                /\ uploads[v].at = "insert" => v \in cloned
                /\ uploads[v].at \notin Past => v \notin rows
                /\ uploads[v].at \in {"undo", "failed"} /\ v \in rows => v \in unheard)'
    <3>1. CASE v = u
      BY <1>5, <1>6, <1>7, <1>8, <1>10, <1>11, <3>1 DEF Young, Past
    <3>2. CASE v # u
      BY <1>1, <1>6, <1>8, <1>9, <3>2 DEF Story, Young, Past
    <3>3. QED BY <3>1, <3>2
  <2>2. ASSUME NEW d \in Deletion
        PROVE  (/\ deletions[d].at \in {"row", "file"} =>
                      /\ deletions[d].voice \in Upload
                      /\ uploads[deletions[d].voice].at \in Past
                /\ deletions[d].at = "file" => deletions[d].voice \notin rows)'
    <3>1. /\ deletions[d].at \in {"row", "file"} =>
                deletions[d].voice \in Upload /\ uploads[deletions[d].voice].at \in Past
          /\ deletions[d].at = "file" => deletions[d].voice \notin rows
      BY <1>1 DEF Story
    <3>2. deletions[d].at \in {"row", "file"} => deletions[d].voice # u
      BY <1>7, <3>1 DEF Past
    <3>3. QED BY <1>6, <1>8, <3>1, <3>2 DEF Past
  <2>3. QED BY <2>1, <2>2 DEF Story
<1>14. RowsAreUsable'
  <2>1. \A v \in rows : v \in Upload /\ v # u
    BY <1>1, <1>7 DEF VoiceTypes
  <2>2. QED BY <1>1, <1>6, <1>9, <2>1 DEF RowsAreUsable
<1>15. FilesHaveOwners'
  <2>1. ASSUME NEW v \in Upload, KeyOf(v)' \in objects
        PROVE  \/ v \in rows
               \/ uploads'[v].at \notin {"idle", "saved", "failed"}
               \/ \E d \in Deletion : deletions[d].at = "file" /\ deletions[d].voice = v
               \/ v \in leaked
               \/ PreserveFiles
    <3>1. v # u
      BY <1>10, <1>11, <2>1
    <3>2. QED BY <1>1, <1>8, <1>9, <2>1, <3>1, Owned
  <2>2. QED BY <1>6, <2>1 DEF FilesHaveOwners, Working, DeletesFile
<1>16. Judging'
  BY <1>1, <1>5, <1>8 DEF Judging
<1>17. QED BY <1>12, <1>13, <1>14, <1>15, <1>16 DEF VInv

(* A step that leaves the uploads alone: what it may do to the files and to *)
(* the rows, and what it must leave behind.                                 *)
LEMMA OneDeletion ==
    ASSUME VInv, UNCHANGED <<uploads, cloned, unheard>>,
           deletions' \in [Deletion -> DeletionType],
           \A d \in Deletion : deletions'[d].at \in {"row", "file"} =>
              /\ deletions'[d].voice \in Upload
              /\ uploads[deletions'[d].voice].at \in Past
              /\ deletions'[d].at = "file" => deletions'[d].voice \notin rows',
           rows' \subseteq rows, objects' \subseteq objects,
           leaked \subseteq leaked', leaked' \subseteq Upload, faults' \in 0..MaxFaults,
           \A v \in Upload : KeyOf(v) \in objects /\ KeyOf(v) \notin objects' =>
              v \notin rows' /\ uploads[v].at \in Past,
           \A v \in Upload : KeyOf(v) \in objects' =>
              \/ v \in rows' \/ v \in leaked' \/ PreserveFiles
              \/ uploads[v].at \notin {"idle", "saved", "failed"}
              \/ \E d \in Deletion : deletions'[d].at = "file" /\ deletions'[d].voice = v
    PROVE  VInv'
<1>1. VoiceTypes /\ Story /\ RowsAreUsable /\ FilesHaveOwners /\ Judging
  BY DEF VInv
<1>2. \A v \in Upload : KeyOf(v)' = KeyOf(v)
  BY SameKey
<1>3. VoiceTypes'
  <2>1. objects' \subseteq {KeyOf(v) : v \in Upload} \cup {TempKey(t) : t \in Temp}
    BY <1>1 DEF VoiceTypes
  <2>2. (objects \subseteq {KeyOf(v) : v \in Upload} \cup {TempKey(t) : t \in Temp})'
    BY <1>2, <2>1 DEF TempKey
  <2>3. /\ (uploads \in [Upload -> UploadType])' /\ cloned' \subseteq Upload
        /\ unheard' \subseteq Upload /\ rows' \subseteq Upload
    BY <1>1 DEF VoiceTypes, UploadType, Known, ModeName
  <2>4. (deletions \in [Deletion -> DeletionType])'
    BY DEF DeletionType
  <2>5. QED BY <2>2, <2>3, <2>4 DEF VoiceTypes
<1>4. Story'
  <2>1. ASSUME NEW v \in Upload
        PROVE  (/\ uploads[v].at \in Young => KeyOf(v) \notin objects
                /\ uploads[v].at \in {"clone", "insert"} => KeyOf(v) \in objects
                /\ uploads[v].at = "insert" => v \in cloned
                /\ uploads[v].at \notin Past => v \notin rows
                /\ uploads[v].at \in {"undo", "failed"} /\ v \in rows => v \in unheard)'
    BY <1>1, <1>2 DEF Story, Young, Past
  <2>2. QED BY <2>1 DEF Story, Past
<1>5. RowsAreUsable'
  <2>1. \A v \in rows' : v \in Upload /\ v \in rows
    BY <1>1 DEF VoiceTypes
  <2>2. \A v \in rows' : v \in cloned /\ (KeyOf(v) \in objects' \/ v \in unheard)
    BY <1>1, <2>1 DEF RowsAreUsable
  <2>3. QED BY <1>2, <2>1, <2>2 DEF RowsAreUsable
<1>6. FilesHaveOwners'
  BY <1>2 DEF FilesHaveOwners, Working, DeletesFile
<1>7. Judging'
  BY <1>1 DEF Judging
<1>8. QED BY <1>3, <1>4, <1>5, <1>6, <1>7 DEF VInv

LEMMA DeletionRecords ==
    /\ NotDeleting \in DeletionType /\ Deleted \in DeletionType
    /\ NotDeleting.at = "idle" /\ Deleted.at = "done"
    /\ \A v \in Upload, at \in {"row", "file"} : [at |-> at, voice |-> v] \in DeletionType
BY DEF NotDeleting, Deleted, DeletionType

LEMMA DeletionStep ==
    ASSUME VInv, NEW d \in Deletion, DeletionSteps(d)
    PROVE  VInv'
<1>1. VoiceTypes /\ Story /\ RowsAreUsable /\ FilesHaveOwners
  BY DEF VInv
<1>2. /\ deletions \in [Deletion -> DeletionType] /\ leaked \subseteq Upload
      /\ rows \subseteq Upload
  BY <1>1 DEF VoiceTypes
<1>3. \A c \in Deletion : deletions[c].at \in {"row", "file"} =>
         /\ deletions[c].voice \in Upload
         /\ uploads[deletions[c].voice].at \in Past
         /\ deletions[c].at = "file" => deletions[c].voice \notin rows
  BY <1>1 DEF Story
<1>4. \A v \in Upload : KeyOf(v) \in objects =>
         \/ v \in rows
         \/ uploads[v].at \notin {"idle", "saved", "failed"}
         \/ \E c \in Deletion : deletions[c].at = "file" /\ deletions[c].voice = v
         \/ v \in leaked
         \/ PreserveFiles
  BY <1>1, Owned
<1>5. faults' \in 0..MaxFaults /\ UNCHANGED <<uploads, cloned, unheard>>
  BY <1>1, FaultsType DEF DeletionSteps, DeleteRead, DeleteRow, DeleteRowFails, DeleteFile,
     DeleteFileFails
<1> DEFINE voice == deletions[d].voice
<1>6. ASSUME NEW u \in Upload, DeleteRead(d, u)
      PROVE  VInv'
  <2>1. deletions' = [deletions EXCEPT ![d] = [at |-> "row", voice |-> u]]
    BY <1>6 DEF DeleteRead
  <2>2. deletions[d].at = "idle" /\ u \in rows /\ UNCHANGED <<rows, objects, leaked>>
    BY <1>6 DEF DeleteRead
  <2>3. deletions' \in [Deletion -> DeletionType]
    BY <1>2, <2>1, DeletionRecords
  <2>4. uploads[u].at \in Past
    BY <2>2, About
  <2>5. /\ deletions'[d].at = "row" /\ deletions'[d].voice = u
        /\ \A c \in Deletion \ {d} : deletions'[c] = deletions[c]
    BY <1>2, <2>1
  <2>6. QED BY <1>2, <1>3, <1>4, <1>5, <2>2, <2>3, <2>4, <2>5, OneDeletion
<1>7. CASE DeleteRow(d)
  <2>1. deletions[d].at = "row" /\ rows' = rows \ {voice} /\ UNCHANGED <<objects, leaked>>
    BY <1>7 DEF DeleteRow
  <2>2. voice \in Upload /\ uploads[voice].at \in Past
    BY <1>3, <2>1
  <2>3. PICK y \in DeletionType :
           /\ deletions' = [deletions EXCEPT ![d] = y]
           /\ \/ PreserveFiles /\ y.at = "done"
              \/ y.at = "file" /\ y.voice = voice
    <3>1. CASE PreserveFiles
      BY <1>7, <3>1, DeletionRecords DEF DeleteRow
    <3>2. CASE ~PreserveFiles
      <4>1. deletions' = [deletions EXCEPT ![d] = [deletions[d] EXCEPT !.at = "file"]]
        BY <1>2, <1>7, <3>2 DEF DeleteRow
      <4>2. /\ [deletions[d] EXCEPT !.at = "file"] \in DeletionType
            /\ [deletions[d] EXCEPT !.at = "file"].at = "file"
            /\ [deletions[d] EXCEPT !.at = "file"].voice = voice
        BY <1>2 DEF DeletionType
      <4>3. QED BY <4>1, <4>2
    <3>3. QED BY <3>1, <3>2
  <2> HIDE DEF voice
  <2>4. /\ deletions' \in [Deletion -> DeletionType] /\ deletions'[d] = y
        /\ \A c \in Deletion \ {d} : deletions'[c] = deletions[c]
    BY <1>2, <2>3
  <2>5. \A c \in Deletion : deletions'[c].at \in {"row", "file"} =>
           /\ deletions'[c].voice \in Upload
           /\ uploads[deletions'[c].voice].at \in Past
           /\ deletions'[c].at = "file" => deletions'[c].voice \notin rows'
    BY <1>3, <2>1, <2>2, <2>3, <2>4
  <2>6. \A v \in Upload : KeyOf(v) \in objects =>
           \/ v \in rows' \/ v \in leaked' \/ PreserveFiles
           \/ uploads[v].at \notin {"idle", "saved", "failed"}
           \/ \E c \in Deletion : deletions'[c].at = "file" /\ deletions'[c].voice = v
    BY <1>4, <2>1, <2>3, <2>4
  <2>7. QED BY <1>2, <1>5, <2>1, <2>4, <2>5, <2>6, OneDeletion
<1>8. ASSUME DeleteRowFails(d) \/ DeleteFileFails(d) \/ DeleteFile(d)
      PROVE  VInv'
  <2>1. deletions' = [deletions EXCEPT ![d] = Deleted]
    BY <1>8 DEF DeleteRowFails, DeleteFileFails, DeleteFile
  <2>2. /\ deletions' \in [Deletion -> DeletionType] /\ deletions'[d].at = "done"
        /\ \A c \in Deletion \ {d} : deletions'[c] = deletions[c]
    BY <1>2, <2>1, DeletionRecords
  <2>3. deletions[d].at \in {"row", "file"}
    BY <1>8 DEF DeleteRowFails, DeleteFileFails, DeleteFile, DeletesFile
  <2>4. voice \in Upload /\ uploads[voice].at \in Past
        /\ (deletions[d].at = "file" => voice \notin rows)
    BY <1>3, <2>3
  <2> HIDE DEF voice
  <2>5. /\ rows' \subseteq rows
        /\ \A c \in Deletion : deletions'[c].at \in {"row", "file"} =>
              /\ deletions'[c].voice \in Upload
              /\ uploads[deletions'[c].voice].at \in Past
              /\ deletions'[c].at = "file" => deletions'[c].voice \notin rows'
    <3>1. rows' \subseteq rows
      BY <1>8 DEF DeleteRowFails, DeleteFileFails, DeleteFile
    <3>2. QED BY <1>3, <2>2, <3>1
  <2>6. CASE DeleteRowFails(d)
    <3>1. deletions[d].at = "row" /\ objects' = objects
      BY <2>6 DEF DeleteRowFails
    <3>2. \/ UNCHANGED <<rows, leaked>>
          \/ rows' = rows \ {voice} /\ leaked' = leaked \cup {voice}
      BY <2>6 DEF DeleteRowFails, voice
    <3>3. \A v \in Upload : KeyOf(v) \in objects =>
             \/ v \in rows' \/ v \in leaked' \/ PreserveFiles
             \/ uploads[v].at \notin {"idle", "saved", "failed"}
             \/ \E c \in Deletion : deletions'[c].at = "file" /\ deletions'[c].voice = v
      <4>1. ASSUME NEW c \in Deletion, deletions[c].at = "file"
            PROVE  deletions'[c] = deletions[c]
        BY <2>2, <3>1, <4>1
      <4>2. QED BY <1>4, <3>2, <4>1
    <3>4. leaked \subseteq leaked' /\ leaked' \subseteq Upload
      BY <1>2, <2>4, <3>2
    <3>5. QED BY <1>5, <2>2, <2>5, <3>1, <3>3, <3>4, OneDeletion
  <2>7. CASE DeleteFileFails(d)
    <3>1. UNCHANGED <<rows, objects>> /\ leaked' = leaked \cup {voice}
      BY <2>7 DEF DeleteFileFails, voice
    <3>2. \A v \in Upload : KeyOf(v) \in objects =>
             \/ v \in rows' \/ v \in leaked' \/ PreserveFiles
             \/ uploads[v].at \notin {"idle", "saved", "failed"}
             \/ \E c \in Deletion : deletions'[c].at = "file" /\ deletions'[c].voice = v
      BY <1>4, <2>2, <3>1 DEF voice
    <3>3. leaked \subseteq leaked' /\ leaked' \subseteq Upload
      BY <1>2, <2>4, <3>1
    <3>4. QED BY <1>5, <2>2, <2>5, <3>1, <3>2, <3>3, OneDeletion
  <2>8. CASE DeleteFile(d)
    <3>1. /\ UNCHANGED <<rows, leaked>> /\ objects' = objects \ {KeyOf(voice)}
          /\ deletions[d].at = "file"
      BY <2>8 DEF DeleteFile, DeletesFile, voice
    <3>2. \A v \in Upload : KeyOf(v) \in objects' => v # voice
      BY <3>1
    <3>3. \A v \in Upload : KeyOf(v) \in objects /\ KeyOf(v) \notin objects' =>
             v \notin rows' /\ uploads[v].at \in Past
      BY <2>4, <3>1, Keys
    <3>4. \A v \in Upload : KeyOf(v) \in objects' =>
             \/ v \in rows' \/ v \in leaked' \/ PreserveFiles
             \/ uploads[v].at \notin {"idle", "saved", "failed"}
             \/ \E c \in Deletion : deletions'[c].at = "file" /\ deletions'[c].voice = v
      BY <1>4, <2>2, <3>1, <3>2 DEF voice
    <3>5. QED BY <1>2, <1>5, <2>2, <2>5, <3>1, <3>3, <3>4, OneDeletion
  <2>9. QED BY <1>8, <2>6, <2>7, <2>8
<1>9. QED BY <1>6, <1>7, <1>8 DEF DeletionSteps

LEMMA SweepStep ==
    ASSUME VInv, Sweep
    PROVE  VInv'
<1>1. VoiceTypes /\ Story /\ FilesHaveOwners
  BY DEF VInv
<1>2. PICK removed \in SUBSET List("temp") : objects' = objects \ removed
  BY DEF Sweep
<1>3. /\ UNCHANGED <<uploads, deletions, rows, cloned, unheard, leaked, faults>>
  BY DEF Sweep
<1>4. \A v \in Upload : KeyOf(v) \notin removed
  BY <1>2, Keys DEF List
<1>5. /\ deletions \in [Deletion -> DeletionType] /\ leaked \subseteq Upload
      /\ faults \in 0..MaxFaults
  BY <1>1 DEF VoiceTypes
<1>6. \A d \in Deletion : deletions[d].at \in {"row", "file"} =>
         /\ deletions[d].voice \in Upload
         /\ uploads[deletions[d].voice].at \in Past
         /\ deletions[d].at = "file" => deletions[d].voice \notin rows
  BY <1>1 DEF Story
<1>7. QED BY <1>1, <1>2, <1>3, <1>4, <1>5, <1>6, OneDeletion, Owned

LEMMA RestartStep ==
    ASSUME VInv, Restart
    PROVE  VInv'
<1>1. VoiceTypes /\ Story /\ RowsAreUsable /\ FilesHaveOwners /\ Judging
  BY DEF VInv
<1> DEFINE busy(u) == uploads[u].at \notin {"idle", "saved", "failed"}
<1>2. /\ uploads \in [Upload -> UploadType] /\ deletions \in [Deletion -> DeletionType]
      /\ leaked \subseteq Upload
  BY <1>1 DEF VoiceTypes
<1>3. /\ uploads' = [u \in Upload |-> IF busy(u) THEN Finished(u, "failed") ELSE uploads[u]]
      /\ deletions' = [d \in Deletion |->
            IF deletions[d].at \in {"row", "file"} THEN Deleted ELSE deletions[d]]
      /\ UNCHANGED <<rows, objects, cloned, unheard>>
  BY DEF Restart, Working, Finished
<1>4. leaked' = leaked \cup {u \in Upload : busy(u) \/ \E d \in Deletion :
                                 deletions[d].at = "file" /\ deletions[d].voice = u}
  BY DEF Restart, Working, DeletesFile
<1>5. faults' \in 0..MaxFaults
  BY <1>1, FaultsType DEF Restart
<1>6. \A u \in Upload :
         /\ uploads'[u] \in UploadType /\ uploads'[u].mode = uploads[u].mode
         /\ busy(u) => /\ uploads'[u].at = "failed"
                       /\ uploads'[u].named = 0 /\ uploads'[u].judged = 0
         /\ ~busy(u) => uploads'[u] = uploads[u]
  BY <1>1, <1>2, <1>3, FinishedFacts
<1> HIDE DEF busy
<1>7. \A u \in Upload : KeyOf(u)' = KeyOf(u)
  BY <1>6, SameKey
<1>8. \A d \in Deletion : deletions'[d] \in DeletionType /\ deletions'[d].at \in {"idle", "done"}
  BY <1>2, <1>3, DeletionRecords DEF DeletionType
<1>9. VoiceTypes'
  <2>1. objects \subseteq {KeyOf(v) : v \in Upload} \cup {TempKey(t) : t \in Temp}
    BY <1>1 DEF VoiceTypes
  <2>2. (objects \subseteq {KeyOf(v) : v \in Upload} \cup {TempKey(t) : t \in Temp})'
    BY <1>3, <1>7, <2>1 DEF TempKey
  <2>3. uploads' \in [Upload -> UploadType]
    BY <1>3, <1>6
  <2>4. deletions' \in [Deletion -> DeletionType]
    BY <1>3, <1>8
  <2>5. rows' \subseteq Upload /\ cloned' \subseteq Upload /\ unheard' \subseteq Upload
    BY <1>1, <1>3 DEF VoiceTypes
  <2>6. leaked' \subseteq Upload
    BY <1>2, <1>4
  <2>7. QED BY <1>5, <2>2, <2>3, <2>4, <2>5, <2>6
        DEF VoiceTypes, UploadType, DeletionType, Known, ModeName
<1>10. Story'
  <2>1. ASSUME NEW v \in Upload
        PROVE  (/\ uploads[v].at \in Young => KeyOf(v) \notin objects
                /\ uploads[v].at \in {"clone", "insert"} => KeyOf(v) \in objects
                /\ uploads[v].at = "insert" => v \in cloned
                /\ uploads[v].at \notin Past => v \notin rows
                /\ uploads[v].at \in {"undo", "failed"} /\ v \in rows => v \in unheard)'
    <3>1. CASE busy(v)
      <4>1. uploads[v].at = "undo" \/ uploads[v].at \notin Past
        BY <3>1 DEF busy, Past
      <4>2. v \in rows => v \in unheard
        BY <1>1, <4>1 DEF Story
      <4>3. uploads'[v].at = "failed"
        BY <1>6, <3>1
      <4>4. QED BY <1>3, <4>2, <4>3 DEF Young, Past
    <3>2. CASE ~busy(v)
      BY <1>1, <1>3, <1>6, <1>7, <3>2 DEF Story, Young, Past
    <3>3. QED BY <3>1, <3>2
  <2>2. QED BY <1>8, <2>1 DEF Story
<1>11. RowsAreUsable'
  <2>1. \A v \in rows : v \in Upload
    BY <1>1 DEF VoiceTypes
  <2>2. QED BY <1>1, <1>3, <1>7, <2>1 DEF RowsAreUsable
<1>12. FilesHaveOwners'
  <2>1. ASSUME NEW v \in Upload, KeyOf(v) \in objects
        PROVE  v \in rows \/ v \in leaked' \/ PreserveFiles
    BY <1>1, <1>4, <2>1, Owned DEF busy
  <2>2. QED BY <1>3, <1>7, <2>1 DEF FilesHaveOwners
<1>13. Judging'
  BY <1>1, <1>6 DEF Judging
<1>14. QED BY <1>9, <1>10, <1>11, <1>12, <1>13 DEF VInv

LEMMA VoiceInitInv == Init => VInv
<1> SUFFICES ASSUME Init PROVE VInv
  OBVIOUS
<1>1. VoiceTypes
  <2>1. uploads \in [Upload -> UploadType] /\ deletions \in [Deletion -> DeletionType]
    BY NotAskedType, DeletionRecords DEF Init, VoiceInit
  <2>2. faults \in 0..MaxFaults
    BY VoiceAssumption DEF Init, VoiceInit
  <2>3. QED BY <2>1, <2>2 DEF Init, VoiceInit, VoiceTypes
<1>2. \A u \in Upload : /\ uploads[u].at = "idle" /\ uploads[u].named = 0
                        /\ uploads[u].judged = 0 /\ KeyOf(u) \notin objects
  BY Keys DEF Init, VoiceInit, NotAsked
<1>3. \A d \in Deletion : deletions[d].at = "idle"
  BY DEF Init, VoiceInit, NotDeleting
<1>4. rows = {}
  BY DEF Init, VoiceInit
<1>5. Story
  BY <1>2, <1>3, <1>4 DEF Story, Young, Past
<1>6. RowsAreUsable /\ FilesHaveOwners /\ Judging
  BY <1>2, <1>4 DEF RowsAreUsable, FilesHaveOwners, Judging
<1>7. QED BY <1>1, <1>5, <1>6 DEF VInv

LEMMA VoiceStep == MInv /\ VInv /\ [Next]_vars => VInv'
<1> SUFFICES ASSUME MInv, VInv, [Next]_vars PROVE VInv'
  OBVIOUS
<1>1. ManifestTypeOK /\ manifest \in Known
  BY DEF MInv, ManifestTypeOK, Known
<1>2. CASE UNCHANGED voiceVars
  <2>1. VoiceTypes /\ Story /\ RowsAreUsable /\ FilesHaveOwners /\ Judging
    BY DEF VInv
  <2>2. UNCHANGED <<uploads, deletions, rows, objects, cloned, unheard, leaked, faults>>
    BY <1>2 DEF voiceVars
  <2>3. \A u \in Upload : KeyOf(u)' = KeyOf(u)
    BY <2>2, SameKey
  <2>4. VoiceTypes'
    BY <2>1, <2>2 DEF VoiceTypes, UploadType, DeletionType, Known, ModeName, KeyOf, VoiceKey,
       TempKey
  <2>5. Story'
    BY <2>1, <2>2, <2>3 DEF Story, Young, Past
  <2>6. RowsAreUsable' /\ Judging'
    BY <2>1, <2>2 DEF RowsAreUsable, Judging, KeyOf, VoiceKey
  <2>7. FilesHaveOwners'
    BY <2>1, <2>2, <2>3 DEF FilesHaveOwners, Working, DeletesFile
  <2>8. QED BY <2>4, <2>5, <2>6, <2>7 DEF VInv
<1>3. ASSUME NEW u \in Upload, UploadSteps(u) PROVE VInv'
  BY <1>1, <1>3, UploadStartStep, UploadChecks, UploadMoves, UploadEnds, LeaveStep
  DEF UploadSteps
<1>4. QED BY <1>2, <1>3, DeletionStep, SweepStep, RestartStep DEF Next, vars
-----------------------------------------------------------------------------
(* Whatever was checked was checked by the rules of the manifest. *)
LEMMA JudgedBoth == VInv => JudgedByItsMode
BY DEF VInv, Judging, JudgedByItsMode

LEMMA Always == Spec => [](MInv /\ VInv)
<1>1. Init => MInv /\ VInv
  BY ManifestInitInv, VoiceInitInv DEF Init
<1>2. MInv /\ VInv /\ [Next]_vars => (MInv /\ VInv)'
  BY ManifestStep, VoiceStep
<1>3. QED BY <1>1, <1>2, PTL DEF Spec

(* The type invariant: requests, cache entries and keys are what the code   *)
(* can hold.                                                                *)
THEOREM TypeCorrect == Spec => []TypeOK
<1>1. MInv /\ VInv => TypeOK
  BY Types DEF MInv, VInv
<1>2. QED BY <1>1, Always, PTL

(* A voice that is listed has its file and is known to the Engine, except   *)
(* when its INSERT was executed and reported as failed (UploadVoice).       *)
THEOREM Usable == Spec => []RowsAreUsable
<1>1. MInv /\ VInv => RowsAreUsable
  BY DEF VInv
<1>2. QED BY <1>1, Always, PTL

(* A file of a voice has a row, a request at work on it, or is the leftover *)
(* of a failed call or a crash (UploadVoice, DeleteUserVoice).              *)
THEOREM Owners == Spec => []FilesHaveOwners
<1>1. MInv /\ VInv => FilesHaveOwners
  BY DEF VInv
<1>2. QED BY <1>1, Always, PTL

(* A file that was accepted is of a format its mode reads, by a manifest    *)
(* that declares the mode (receiveReferenceAudio, checkReferenceAudio).     *)
THEOREM Judged == Spec => []JudgedByItsMode
<1>1. MInv /\ VInv => JudgedByItsMode
  BY JudgedBoth
<1>2. QED BY <1>1, Always, PTL

(* Voices served out of the cache are at most as old as the time to live    *)
(* and one call of the Engine (presetvoicecache.Get and Store).             *)
THEOREM Expire == Spec => []OldVoicesExpire
<1>1. MInv /\ VInv => OldVoicesExpire
  BY DEF MInv
<1>2. QED BY <1>1, Always, PTL

(* A reload installs no contradictory manifest, and an older one only when  *)
(* two reloads overlap (EngineManifestState.Set, ReloadManifest).           *)
THEOREM NoDowngrade == Spec => ReloadNeverDowngrades
<1>1. MInv /\ [Next]_vars => [Installs]_manifest
  BY InstallStep
<1>2. (MInv /\ VInv) => MInv
  OBVIOUS
<1>3. QED BY <1>1, <1>2, Always, PTL DEF Spec, ReloadNeverDowngrades, Installs

(* What the cache serves was stored under the version that is held, and is  *)
(* as new as that manifest unless a reload overtook the fetch (GetVoices).  *)
THEOREM HitsMatch == Spec => HitsMatchTheManifest
<1>1. MInv /\ [Next]_vars => [Served]_views
  BY ServeStep
<1>2. (MInv /\ VInv) => MInv
  OBVIOUS
<1>3. QED BY <1>1, <1>2, Always, PTL DEF Spec, HitsMatchTheManifest, Served
=============================================================================
