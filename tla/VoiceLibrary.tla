---------------------------- MODULE VoiceLibrary ----------------------------
(***************************************************************************)
(* The voices users save: an upload checks the file against the manifest,  *)
(* writes it to the object store, has the Engine clone it and inserts a    *)
(* row, undoing the file when a later step fails; a deletion removes the   *)
(* row and then the file; the sweeper of the cron process removes old      *)
(* temporary objects.  Any of these may run side by side, a client may     *)
(* leave, a call may fail with or without having been executed, and the    *)
(* web process may die in between.                                         *)
(*                                                                         *)
(* A voice is named by the upload that makes it: its object's name is a    *)
(* fresh UUID, and the Engine is taken to answer with a fresh id as well   *)
(* (both ids only meet again in the row).                                  *)
(***************************************************************************)
EXTENDS EngineManifest

CONSTANTS
    Upload,         \* calls of POST /clone/upload, and the voices they make
    Deletion,       \* calls of DELETE /clone/voices/{clone_id}
    UploadMode,     \* the model_id a client sends, "" to leave it out
    UploadFormat,   \* the formats of the files it sends
    Remote,         \* STORAGE_BACKEND is s3: its calls end with the request
    PreserveFiles,  \* PRESERVE_FILES
    Temp,           \* temporary objects an earlier version left in the store
    MaxFaults       \* bound: failed calls, clients that leave and crashes

ASSUME VoiceAssumption ==
    /\ Remote \in BOOLEAN /\ PreserveFiles \in BOOLEAN
    /\ MaxFaults \in Nat

VARIABLES
    uploads,   \* the uploads: where they are and what they have checked
    deletions, \* the deletions: where they are and the voice they read
    rows,      \* user_voices, by voice
    objects,   \* the object store, a set of keys
    cloned,    \* external: the voices the Engine has
    unheard,   \* history: voices whose INSERT was executed, its answer lost
    leaked,    \* history: voices whose file somebody failed to remove
    faults     \* how much of MaxFaults is spent

voiceVars == <<uploads, deletions, rows, objects, cloned, unheard, leaked, faults>>
vars == <<manifestVars, voiceVars>>

----------------------------------------------------------------------------
(* Keys: VoiceKey has four segments, TempKey two.                          *)

VoiceKey(mode, voice) == <<mode, "user", "voice", voice>>
TempKey(name) == <<"temp", name>>
KeyOf(u) == VoiceKey(uploads[u].mode, u)

(* Mutant: the branches below the prefix, too. *)
ListDeep(prefix) == {k \in objects : Head(k) = prefix}

\* List: the objects one level below the prefix, its branches left out.
List(prefix) == {k \in objects : Head(k) = prefix /\ Len(k) = 2}

NotAsked == [at |-> "idle", mode |-> "", format |-> "", named |-> 0,
             judged |-> 0, left |-> FALSE]
NotDeleting == [at |-> "idle", voice |-> "none"]
Deleted == [at |-> "done", voice |-> "none"]

VoiceInit ==
    /\ uploads = [u \in Upload |-> NotAsked]
    /\ deletions = [d \in Deletion |-> NotDeleting]
    /\ rows = {}
    /\ objects = {TempKey(t) : t \in Temp}
    /\ cloned = {}
    /\ unheard = {}
    /\ leaked = {}
    /\ faults = 0

Init == ManifestInit /\ VoiceInit

----------------------------------------------------------------------------
(* UploadVoice.                                                            *)

At(u, step) == uploads[u].at = step
Goto(u, step) == uploads' = [uploads EXCEPT ![u].at = step]
Finish(u, step) ==
    uploads' = [uploads EXCEPT ![u] = [NotAsked EXCEPT !.at = step, !.mode = uploads[u].mode]]
Working(u) == uploads[u].at \notin {"idle", "saved", "failed"}

\* A failure, for whatever reason: a call that fails spends one of MaxFaults,
\* one whose context ended when the client left does not.
Spend == faults < MaxFaults /\ faults' = faults + 1
Fails(cut) == IF cut THEN UNCHANGED faults ELSE Spend

\* The store of the local backend does not look at the context of a request.
Cut(u) == Remote /\ uploads[u].left

\* The client leaves: the context of the request is done.
Leave(u) ==
    /\ Working(u) /\ ~uploads[u].left
    /\ uploads' = [uploads EXCEPT ![u].left = TRUE]
    /\ Spend
    /\ UNCHANGED <<deletions, rows, objects, cloned, unheard, leaked>>

\* The request arrives: no model_id stands for the first mode that clones.
UploadStart(u, mode, format) ==
    /\ manifest # 0
    /\ At(u, "idle")
    /\ uploads' = [uploads EXCEPT ![u] =
          [NotAsked EXCEPT !.at = "mode", !.format = format,
             !.mode = IF mode = "" THEN FirstCloningMode(Held) ELSE mode]]
    /\ UNCHANGED <<deletions, rows, objects, cloned, unheard, leaked, faults>>

(* Mutant: any model_id goes. *)
UploadNamedAny(u) ==
    /\ At(u, "mode")
    /\ uploads' = [uploads EXCEPT ![u].at = "format", ![u].named = manifest]
    /\ UNCHANGED <<deletions, rows, objects, cloned, unheard, leaked, faults>>

\* HasMode: what goes into the key must be a mode the Engine declares.
UploadNamed(u) ==
    /\ At(u, "mode")
    /\ IF HasMode(Held, uploads[u].mode)
       THEN uploads' = [uploads EXCEPT ![u].at = "format", ![u].named = manifest]
       ELSE Finish(u, "failed")
    /\ UNCHANGED <<deletions, rows, objects, cloned, unheard, leaked, faults>>

\* checkReferenceAudio, which reads the manifest again.
UploadJudged(u) ==
    /\ At(u, "format")
    /\ IF uploads[u].format \in ReferenceFormats(Held, uploads[u].mode)
       THEN uploads' = [uploads EXCEPT ![u].at = "put", ![u].judged = manifest]
       ELSE Finish(u, "failed")
    /\ UNCHANGED <<deletions, rows, objects, cloned, unheard, leaked, faults>>

UploadPut(u) ==
    /\ At(u, "put") /\ ~Cut(u)
    /\ objects' = objects \cup {KeyOf(u)}
    /\ Goto(u, "clone")
    /\ UNCHANGED <<deletions, rows, cloned, unheard, leaked, faults>>

\* Put fails. A local file appears with the final rename or not at all; a
\* remote store may have kept the object, and nobody removes it.
UploadPutFails(u) ==
    /\ At(u, "put") /\ Fails(Cut(u))
    /\ \/ UNCHANGED <<objects, leaked>>
       \/ /\ Remote
          /\ objects' = objects \cup {KeyOf(u)}
          /\ leaked' = leaked \cup {u}
    /\ Finish(u, "failed")
    /\ UNCHANGED <<deletions, rows, cloned, unheard>>

\* The Engine clones the voice; this call does not end with the request.
UploadClone(u) ==
    /\ At(u, "clone")
    /\ cloned' = cloned \cup {u}
    /\ Goto(u, "insert")
    /\ UNCHANGED <<deletions, rows, objects, unheard, leaked, faults>>

(* Mutant: the handler returns and leaves the file. *)
UploadCloneFailsFor(u) ==
    /\ At(u, "clone") /\ Spend
    /\ cloned' \in {cloned, cloned \cup {u}}
    /\ Finish(u, "failed")
    /\ UNCHANGED <<deletions, rows, objects, unheard, leaked>>

\* The file cannot be read again, or the Engine fails, perhaps too late.
UploadCloneFails(u) ==
    /\ At(u, "clone") /\ Spend
    /\ cloned' \in {cloned, cloned \cup {u}}
    /\ Goto(u, "undo")
    /\ UNCHANGED <<deletions, rows, objects, unheard, leaked>>

UploadInsert(u) ==
    /\ At(u, "insert") /\ ~uploads[u].left
    /\ rows' = rows \cup {u}
    /\ Finish(u, "saved")
    /\ UNCHANGED <<deletions, objects, cloned, unheard, leaked, faults>>

\* CreateUserVoice fails, executed or not.
UploadInsertFails(u) ==
    /\ At(u, "insert") /\ Fails(uploads[u].left)
    /\ \/ UNCHANGED <<rows, unheard>>
       \/ rows' = rows \cup {u} /\ unheard' = unheard \cup {u}
    /\ Goto(u, "undo")
    /\ UNCHANGED <<deletions, objects, cloned, leaked>>

\* The file of a voice that was not saved is removed, with the context of
\* the request; an error is not looked at.
UploadUndo(u) ==
    /\ At(u, "undo") /\ ~Cut(u)
    /\ objects' = objects \ {KeyOf(u)}
    /\ Finish(u, "failed")
    /\ UNCHANGED <<deletions, rows, cloned, unheard, leaked, faults>>

UploadUndoFails(u) ==
    /\ At(u, "undo") /\ Fails(Cut(u))
    /\ leaked' = leaked \cup {u}
    /\ Finish(u, "failed")
    /\ UNCHANGED <<deletions, rows, objects, cloned, unheard>>

----------------------------------------------------------------------------
(* DeleteUserVoice.                                                        *)

DeletesFile(d) == deletions[d].at = "file"

\* GetUserVoiceByID.
DeleteRead(d, u) ==
    /\ manifest # 0
    /\ deletions[d].at = "idle"
    /\ u \in rows
    /\ deletions' = [deletions EXCEPT ![d] = [at |-> "row", voice |-> u]]
    /\ UNCHANGED <<uploads, rows, objects, cloned, unheard, leaked, faults>>

\* The row goes before the file; a row that has gone already is no error.
DeleteRow(d) ==
    /\ deletions[d].at = "row"
    /\ rows' = rows \ {deletions[d].voice}
    /\ deletions' = [deletions EXCEPT ![d] =
          IF PreserveFiles THEN Deleted ELSE [@ EXCEPT !.at = "file"]]
    /\ UNCHANGED <<uploads, objects, cloned, unheard, leaked, faults>>

\* The statement fails, executed or not: the file is left alone.
DeleteRowFails(d) ==
    /\ deletions[d].at = "row" /\ Spend
    /\ \/ UNCHANGED <<rows, leaked>>
       \/ /\ rows' = rows \ {deletions[d].voice}
          /\ leaked' = leaked \cup {deletions[d].voice}
    /\ deletions' = [deletions EXCEPT ![d] = Deleted]
    /\ UNCHANGED <<uploads, objects, cloned, unheard>>

DeleteFile(d) ==
    /\ DeletesFile(d)
    /\ objects' = objects \ {KeyOf(deletions[d].voice)}
    /\ deletions' = [deletions EXCEPT ![d] = Deleted]
    /\ UNCHANGED <<uploads, rows, cloned, unheard, leaked, faults>>

DeleteFileFails(d) ==
    /\ DeletesFile(d) /\ Spend
    /\ leaked' = leaked \cup {deletions[d].voice}
    /\ deletions' = [deletions EXCEPT ![d] = Deleted]
    /\ UNCHANGED <<uploads, rows, objects, cloned, unheard>>

----------------------------------------------------------------------------
\* SweepTempObjects: of the objects listed, those that are old enough and
\* whose removal succeeds.
Sweep ==
    /\ \E removed \in SUBSET List("temp") :
          /\ removed # {}
          /\ objects' = objects \ removed
    /\ UNCHANGED <<manifestVars, uploads, deletions, rows, cloned, unheard, leaked, faults>>

\* The web process dies and starts again: what it was doing is forgotten.
Restart ==
    /\ manifest # 0 /\ Spend
    /\ manifest' = 0
    /\ reloads' = [a \in Admin |-> Calm]
    /\ cache' = [m \in ViewMode |-> NoEntry]
    /\ views' = [v \in Viewer |-> Quiet]
    /\ uploads' = [u \in Upload |->
          IF Working(u) THEN [NotAsked EXCEPT !.at = "failed", !.mode = uploads[u].mode]
          ELSE uploads[u]]
    /\ deletions' = [d \in Deletion |->
          IF deletions[d].at \in {"row", "file"}
          THEN Deleted ELSE deletions[d]]
    /\ leaked' = leaked \cup {u \in Upload : Working(u) \/ \E d \in Deletion :
                                  DeletesFile(d) /\ deletions[d].voice = u}
    /\ UNCHANGED <<engine, now, rows, objects, cloned, unheard>>

UploadSteps(u) ==
    \/ \E mode \in UploadMode, format \in UploadFormat : UploadStart(u, mode, format)
    \/ UploadNamed(u) \/ UploadJudged(u)
    \/ UploadPut(u) \/ UploadPutFails(u)
    \/ UploadClone(u) \/ UploadCloneFails(u)
    \/ UploadInsert(u) \/ UploadInsertFails(u)
    \/ UploadUndo(u) \/ UploadUndoFails(u)
    \/ Leave(u)

DeletionSteps(d) ==
    \/ \E u \in Upload : DeleteRead(d, u)
    \/ DeleteRow(d) \/ DeleteRowFails(d)
    \/ DeleteFile(d) \/ DeleteFileFails(d)

Next ==
    \/ ManifestNext /\ UNCHANGED voiceVars
    \/ (\E u \in Upload : UploadSteps(u)) /\ UNCHANGED manifestVars
    \/ (\E d \in Deletion : DeletionSteps(d)) /\ UNCHANGED manifestVars
    \/ Sweep
    \/ Restart

Spec == Init /\ [][Next]_vars

----------------------------------------------------------------------------
TypeOK ==
    /\ ManifestTypeOK
    /\ uploads \in [Upload -> [
          at : {"idle", "mode", "format", "put", "clone", "insert", "undo", "saved", "failed"},
          mode : UploadMode \cup ModeName, format : UploadFormat \cup {""},
          named : 0..Len(Declarations), judged : 0..Len(Declarations), left : BOOLEAN]]
    /\ deletions \in [Deletion -> [at : {"idle", "row", "file", "done"},
                                   voice : Upload \cup {"none"}]]
    /\ rows \subseteq Upload
    /\ objects \subseteq {KeyOf(u) : u \in Upload} \cup {TempKey(t) : t \in Temp}
    /\ cloned \subseteq Upload
    /\ unheard \subseteq Upload
    /\ leaked \subseteq Upload
    /\ faults \in 0..MaxFaults

(* Every voice that is listed has its file, which no undo, no deletion and  *)
(* no sweep takes away before its row, and is known to the Engine. The one  *)
(* exception is an INSERT that was executed and reported as failed, whose   *)
(* file is undone (UploadVoice, DeleteUserVoice, SweepTempObjects).         *)
RowsAreUsable ==
    \A u \in rows : u \in cloned /\ (KeyOf(u) \in objects \/ u \in unheard)

(* Every file of a voice has a row, or a request at work that will remove   *)
(* it or give it one, or is one that a crash or a failed call has left: the *)
(* sweeper never looks at it again (the undo in UploadVoice; DeleteFile).   *)
FilesHaveOwners ==
    \A u \in Upload :
        KeyOf(u) \in objects =>
            \/ u \in rows
            \/ Working(u)
            \/ \E d \in Deletion : DeletesFile(d) /\ deletions[d].voice = u
            \/ u \in leaked
            \/ PreserveFiles

(* A file that was accepted is of a format that its mode reads, by a        *)
(* manifest that declares the mode, unless a reload came in between the two *)
(* looks at the manifest (receiveReferenceAudio, checkReferenceAudio).      *)
JudgedByItsMode ==
    \A u \in Upload :
        uploads[u].judged # 0 /\ uploads[u].judged = uploads[u].named =>
            LET m == Declarations[uploads[u].judged]
            IN  /\ HasMode(m, uploads[u].mode)
                /\ uploads[u].format \in ReferenceFormats(m, uploads[u].mode)
=============================================================================
