--------------------------- MODULE EngineManifest ---------------------------
(***************************************************************************)
(* What a web process holds of the Engine: the manifest, fetched when the  *)
(* process starts and again whenever an administrator asks for it, and the *)
(* cache of the Engine's preset voices, which is tied to the version of    *)
(* the manifest and to a time to live.                                     *)
(*                                                                         *)
(* The Engine is external: it goes through a sequence of declarations, one *)
(* per deployment, and answers /info and /voices from the current one.     *)
(***************************************************************************)
EXTENDS Integers, Sequences, FiniteSets

CONSTANTS
    Declarations, \* what the Engine declares, one after the other
    Admin,        \* calls of POST /internal/engine/reload
    Viewer,       \* calls of GET /voices/{model_id}
    ViewMode,     \* the modes the viewers ask for
    Ttl,          \* DefaultTTL of the preset voice cache, in ticks
    FetchMax,     \* the time-out of a call of the Engine, in ticks
    MaxTime,      \* bound: the model's last tick
    Unset         \* a field a mode or the Engine leaves out

ASSUME DeclarationsAssumption ==
    /\ Len(Declarations) \in Nat \ {0}
    /\ Declarations \in Seq([version : Nat, modes : Seq([id : STRING,
           cloning : BOOLEAN \cup {Unset}, presets : BOOLEAN \cup {Unset},
           formats : SUBSET STRING]),
           cloning : BOOLEAN \cup {Unset}, presets : BOOLEAN \cup {Unset},
           formats : SUBSET STRING])

ASSUME TimeAssumption == Ttl \in Nat /\ FetchMax \in Nat /\ MaxTime \in Nat

ASSUME ViewModeAssumption == ViewMode \subseteq STRING

VARIABLES
    engine,   \* external: which declaration the Engine answers from
    manifest, \* EngineManifestState.manifest, 0 for nil
    reloads,  \* the reload requests: what GetInfo answered, what was held then
    cache,    \* presetvoicecache.Cache.mode
    views,    \* the requests for a list of voices
    now       \* the clock

manifestVars == <<engine, manifest, reloads, cache, views, now>>

Decl == 1..Len(Declarations)

----------------------------------------------------------------------------
(* The rules of types/manifest.go.                                         *)

\* What the mode says, or else the Engine, or else the platform.
Pick(mode, whole, default) ==
    IF mode # Unset THEN mode ELSE IF whole # Unset THEN whole ELSE default

\* The first list that is not empty.
PickStrings(mode, whole, default) ==
    IF mode # {} THEN mode ELSE IF whole # {} THEN whole ELSE default

Silent == [id |-> "", cloning |-> Unset, presets |-> Unset, formats |-> {}]

\* The first mode of that name; an unknown one says nothing of its own.
ModeOf(m, id) ==
    LET named == {i \in DOMAIN m.modes : m.modes[i].id = id}
    IN  IF named = {} THEN Silent
        ELSE m.modes[CHOOSE i \in named : \A j \in named : i <= j]

\* The names a model_id can resolve to by itself.
ModeName == {""} \cup UNION {{Declarations[n].modes[i].id :
                                i \in DOMAIN Declarations[n].modes} : n \in Decl}

HasMode(m, id) == \E i \in DOMAIN m.modes : m.modes[i].id = id

SupportsCloning(m, id) == Pick(ModeOf(m, id).cloning, m.cloning, FALSE)
SupportsPresets(m, id) == Pick(ModeOf(m, id).presets, m.presets, TRUE)
ReferenceFormats(m, id) == PickStrings(ModeOf(m, id).formats, m.formats, {"wav"})

FirstCloningMode(m) ==
    LET able == {i \in DOMAIN m.modes : SupportsCloning(m, m.modes[i].id)}
    IN  IF able = {} THEN ""
        ELSE m.modes[CHOOSE i \in able : \A j \in able : i <= j].id

\* The fatal errors of Validate; its warnings change nothing.
Validate(m) ==
    /\ m.modes # <<>>
    /\ \A i \in DOMAIN m.modes : m.modes[i].id # ""
    /\ \A i, j \in DOMAIN m.modes : m.modes[i].id = m.modes[j].id => i = j

Held == Declarations[manifest]
HeldVersion == IF manifest = 0 THEN 0 ELSE Held.version

----------------------------------------------------------------------------
Calm == [at |-> "idle", got |-> 0, seen |-> 0]
\* A request for voices: the declaration its voices are from, when the Engine
\* gave them, the manifest that was held when they were asked for and the one
\* held when they were stored (the last two are history).
Quiet == [at |-> "idle", mode |-> "", voices |-> 0, since |-> 0, asked |-> 0,
          under |-> 0, served |-> "none"]
NoEntry == [voices |-> 0, version |-> 0, fetched |-> 0, since |-> 0, asked |-> 0,
            under |-> 0]

ManifestInit ==
    /\ engine = 1
    /\ manifest = 0
    /\ reloads = [a \in Admin |-> Calm]
    /\ cache = [m \in ViewMode |-> NoEntry]
    /\ views = [v \in Viewer |-> Quiet]
    /\ now = 0

\* External: a new deployment of the Engine.
EngineUpgrade ==
    /\ engine < Len(Declarations)
    /\ engine' = engine + 1
    /\ UNCHANGED <<manifest, reloads, cache, views, now>>

(* Mutant: what the Engine says is installed unchecked. *)
SetUnchecked(m) == m

\* EngineManifestState.Set: a contradictory manifest is refused and the one
\* that is held stays.
Set(m) == IF Validate(Declarations[m]) THEN m ELSE manifest

\* Start-up asks until a manifest is accepted; the port opens only then.
\* An attempt that fails is repeated.
Discover ==
    /\ manifest = 0
    /\ manifest' = Set(engine)
    /\ UNCHANGED <<engine, reloads, cache, views, now>>

\* ReloadManifest, up to the answer of GetInfo. A call that fails ends the
\* request and changes nothing.
ReloadAsk(a) ==
    /\ manifest # 0
    /\ reloads[a].at = "idle"
    /\ reloads' = [reloads EXCEPT ![a] =
                     [at |-> "asked", got |-> engine, seen |-> manifest]]
    /\ UNCHANGED <<engine, manifest, cache, views, now>>

\* ReloadManifest, from the answer on: two requests may get here in the
\* order opposite to that of their answers.
ReloadSet(a) ==
    /\ reloads[a].at = "asked"
    /\ manifest' = Set(reloads[a].got)
    /\ reloads' = [reloads EXCEPT ![a] = Calm]
    /\ UNCHANGED <<engine, cache, views, now>>

----------------------------------------------------------------------------
(* The preset voice cache, and GetVoices, which uses it.                   *)

(* Mutant: the version alone decides. *)
ExpiredByVersion(e) == e.version # HeldVersion

(* Mutant: the time alone decides. *)
ExpiredByTime(e) == now - e.fetched > Ttl

Expired(e) == e.version # HeldVersion \/ now - e.fetched > Ttl

\* GetVoices, up to the look into the cache. An entry that has expired is
\* removed on the way. "all" stands for a model_id that is left out, too.
ViewLookup(v, mode) ==
    /\ manifest # 0
    /\ views[v].at = "idle"
    /\ mode = "all" \/ SupportsPresets(Held, mode)
    /\ LET e == cache[mode]
           hit == e # NoEntry /\ ~Expired(e)
       IN  /\ cache' = IF hit THEN cache ELSE [cache EXCEPT ![mode] = NoEntry]
           /\ views' = [views EXCEPT ![v] =
                IF hit THEN [at |-> "idle", mode |-> mode, voices |-> e.voices,
                             since |-> e.since, asked |-> e.asked,
                             under |-> e.under, served |-> "cache"]
                ELSE [Quiet EXCEPT !.at = "fetching", !.since = now, !.mode = mode,
                                   !.asked = manifest]]
    /\ UNCHANGED <<engine, manifest, reloads, now>>

\* The Engine's answer to GET /voices; since is when the Engine gave it.
ViewFetched(v) ==
    /\ views[v].at = "fetching"
    /\ views' = [views EXCEPT ![v].at = "fetched", ![v].voices = engine, ![v].since = now]
    /\ UNCHANGED <<engine, manifest, reloads, cache, now>>

\* The call fails, or times out: nothing is stored, the list has no presets.
ViewFailed(v) ==
    /\ views[v].at = "fetching"
    /\ views' = [views EXCEPT ![v] = Quiet]
    /\ UNCHANGED <<engine, manifest, reloads, cache, now>>

Entry(view) ==
    [voices |-> view.voices, version |-> HeldVersion, fetched |-> now,
     since |-> view.since, asked |-> view.asked, under |-> manifest]

\* Store, with the version of the manifest that is held by now.
ViewStore(v) ==
    /\ views[v].at = "fetched"
    /\ cache' = [cache EXCEPT ![views[v].mode] = Entry(views[v])]
    /\ views' = [views EXCEPT ![v] = Quiet]
    /\ UNCHANGED <<engine, manifest, reloads, now>>

\* The client has the answer that came out of the cache.
ViewEnd(v) ==
    /\ views[v].at = "idle" /\ views[v].served # "none"
    /\ views' = [views EXCEPT ![v] = Quiet]
    /\ UNCHANGED <<engine, manifest, reloads, cache, now>>

\* A call of the Engine takes FetchMax at most, its body included. An answer
\* is served, and a request over, within the tick.
Tick ==
    /\ now < MaxTime
    /\ \A v \in Viewer : /\ views[v].served = "none"
                         /\ views[v].at # "idle" => now - views[v].since < FetchMax
    /\ now' = now + 1
    /\ UNCHANGED <<engine, manifest, reloads, cache, views>>

ManifestNext ==
    \/ EngineUpgrade
    \/ Discover
    \/ Tick
    \/ \E a \in Admin : ReloadAsk(a) \/ ReloadSet(a)
    \/ \E v \in Viewer :
          \/ \E mode \in ViewMode : ViewLookup(v, mode)
          \/ ViewFetched(v) \/ ViewFailed(v) \/ ViewStore(v) \/ ViewEnd(v)

----------------------------------------------------------------------------
ManifestTypeOK ==
    /\ engine \in Decl
    /\ manifest \in 0..Len(Declarations)
    /\ reloads \in [Admin -> [at : {"idle", "asked"}, got : 0..Len(Declarations),
                              seen : 0..Len(Declarations)]]
    /\ cache \in [ViewMode -> [voices : 0..Len(Declarations), version : Nat,
                               fetched : Nat, since : Nat,
                               asked : 0..Len(Declarations),
                               under : 0..Len(Declarations)]]
    /\ views \in [Viewer -> [at : {"idle", "fetching", "fetched"},
                             mode : ViewMode \cup {""},
                             voices : 0..Len(Declarations), since : Nat,
                             asked : 0..Len(Declarations),
                             under : 0..Len(Declarations),
                             served : {"none", "cache"}]]
    /\ now \in 0..MaxTime

(* Whatever the reloads do, and in whatever order they finish, the process  *)
(* never installs a manifest that contradicts itself, and installs one that *)
(* is older than the one it holds only when two reloads overlapped: this    *)
(* one had asked the Engine before the held one was installed               *)
(* (EngineManifestState.Set, ReloadManifest).                               *)
ReloadNeverDowngrades ==
    [][manifest' # 0 =>
         /\ Validate(Declarations[manifest'])
         /\ manifest' >= manifest \/ \E a \in Admin :
                reloads[a].at = "asked" /\ reloads[a].seen # manifest]_manifest

(* Voices that a viewer gets out of the cache were given by the Engine no   *)
(* longer ago than the time to live and one call of the Engine, although    *)
(* the entry is stamped when it is stored (presetvoicecache Get, Store).    *)
OldVoicesExpire ==
    \A v \in Viewer :
        views[v].served = "cache" => now - views[v].since <= Ttl + FetchMax

(* What a viewer gets out of the cache was stored under the version that is *)
(* held when it is served, and is at least as new as the manifest it was    *)
(* stored under, unless a reload came in while it was being fetched: Store  *)
(* stamps it with the version held when it is stored, not when asked for.   *)
HitsMatchTheManifest ==
    [][\A v \in Viewer :
         LET hit == views'[v]
         IN  views[v].served = "none" /\ hit.served = "cache" =>
                /\ Declarations[hit.under].version = HeldVersion
                /\ hit.voices >= hit.under \/ hit.asked # hit.under]_views
=============================================================================
