-------------------------------- MODULE Vault --------------------------------
(***************************************************************************)
(* The vault (vault/service.rs): a file is a row in the database and one   *)
(* object per chunk in storage, and the two change in separate steps.      *)
(* Uploads, completion, previews, deletion and the attachment of a file to *)
(* a transaction interleave; any of them may stop half way.                *)
(***************************************************************************)
EXTENDS Integers, Sequences

CONSTANTS
    Files,
    Chunks,          \* chunk_count: objects per file
    Contents,        \* what a chunk may hold
    Disguised,       \* not of the declared type as a first chunk, and no
                     \* part of a picture
    Missing,
    Carriers,        \* transactions that carry files
    VaultRequests

ASSUME VaultAssumption ==
    /\ Chunks \in Nat \ {0}
    /\ Disguised \subseteq Contents
    /\ Missing \notin Contents

Index == 0 .. Chunks - 1

VARIABLES
    file,      \* rows: state, hash, whether a preview is stored
    object,    \* storage: the chunks of a file
    preview,   \* storage: the preview of a file
    link,      \* live attachments
    task,      \* what each request is doing
    excused    \* history: files whose clean-up failed or was overtaken

vaultVars == <<file, object, preview, link, task, excused>>

NoTask == [op |-> "none", pc |-> "idle", of |-> CHOOSE f \in Files : TRUE, at |-> 0,
           data |-> Missing, read |-> <<>>, links |-> {}, saw |-> {}, drawn |-> FALSE]

VaultInit ==
    /\ file = [f \in Files |-> [state |-> "none", hash |-> <<>>, thumb |-> "unknown"]]
    /\ object = [f \in Files |-> [i \in Index |-> Missing]]
    /\ preview = [f \in Files |-> FALSE]
    /\ link = {}
    /\ task = [r \in VaultRequests |-> NoTask]
    /\ excused = {}

Doing(r, op, pc) == task[r].op = op /\ task[r].pc = pc
Turn(r, changes) == task' = [task EXCEPT ![r] = changes]
Found(f) == file[f].state \in {"pending", "ready"}

\* A request that deletes the file, or may discard it, has read its row.
Deleting(f) ==
    \E r \in VaultRequests : task[r].of = f /\ task[r].op \in {"delete", "complete"}

Start(r, op, pc, f) ==
    /\ task[r].pc = "idle"
    /\ Turn(r, [NoTask EXCEPT !.op = op, !.pc = pc, !.of = f, !.drawn = file[f].thumb = "yes"])

(***************************************************************************)
(* Uploading.                                                              *)
(***************************************************************************)
Begin(f) ==
    /\ file[f].state = "none"
    /\ file' = [file EXCEPT ![f].state = "pending"]
    /\ UNCHANGED <<object, preview, link, task, excused>>

\* require_pending, and a chunk within the file.
AskPut(r, f, i, d) ==
    /\ file[f].state = "pending"
    /\ task[r].pc = "idle"
    /\ Turn(r, [NoTask EXCEPT !.op = "put", !.pc = "put", !.of = f, !.at = i, !.data = d])
    /\ UNCHANGED <<file, object, preview, link, excused>>

Put(r) ==
    LET f == task[r].of
    IN  /\ Doing(r, "put", "put")
        /\ object' = [object EXCEPT ![f][task[r].at] = task[r].data]
        /\ excused' = IF file[f].state = "deleted" \/ Deleting(f)
                      THEN excused \cup {f} ELSE excused
        /\ Turn(r, NoTask)
        /\ UNCHANGED <<file, preview, link>>

AskComplete(r, f) ==
    /\ file[f].state = "pending"
    /\ Start(r, "complete", "read", f)
    /\ UNCHANGED <<file, object, preview, link, excused>>

\* One object at a time; a missing one is an unfinished upload (StopTask).
ReadChunk(r) ==
    LET t == task[r]
    IN  /\ Doing(r, "complete", "read")
        /\ object[t.of][t.at] # Missing
        /\ Turn(r, IF t.at + 1 \in Index
                    THEN [t EXCEPT !.at = @ + 1, !.read = Append(@, object[t.of][t.at])]
                    ELSE [t EXCEPT !.pc = "verify", !.read = Append(@, object[t.of][t.at])])
        /\ UNCHANGED <<file, object, preview, link, excused>>

(* Mutation: the type is not checked against the bytes. *)
AcceptType(r) ==
    /\ Doing(r, "complete", "verify")
    /\ Turn(r, [task[r] EXCEPT !.pc = "mark"])
    /\ UNCHANGED <<file, object, preview, link, excused>>

\* verify_type, and what follows: discard, or mark_ready.
VerifyType(r) ==
    /\ Doing(r, "complete", "verify")
    /\ Turn(r, [task[r] EXCEPT
                   !.pc = IF task[r].read[1] \in Disguised THEN "detach" ELSE "mark"])
    /\ UNCHANGED <<file, object, preview, link, excused>>

MarkReady(r) ==
    LET f == task[r].of
    IN  /\ Doing(r, "complete", "mark")
        /\ file' = IF Found(f) THEN [file EXCEPT ![f].state = "ready", ![f].hash = task[r].read]
                               ELSE file
        /\ Turn(r, NoTask)
        /\ UNCHANGED <<object, preview, link, excused>>

(***************************************************************************)
(* Deleting: the row and its attachments in one transaction, the objects   *)
(* after it.                                                               *)
(***************************************************************************)
AskDeleteFile(r, f) ==
    /\ Found(f)
    /\ Start(r, "delete", "detach", f)
    /\ UNCHANGED <<file, object, preview, link, excused>>

(* Mutation: attachments outlive the file. *)
DetachNothing(r) ==
    /\ task[r].pc = "detach"
    /\ Turn(r, [task[r] EXCEPT !.pc = "remove", !.saw = {l \in link : l[2] = task[r].of}])
    /\ UNCHANGED <<file, object, preview, link, excused>>

\* detach_everywhere reaches the attachments there are when it starts.
DetachEverywhere(r) ==
    /\ task[r].pc = "detach"
    /\ Turn(r, [task[r] EXCEPT !.pc = "remove",
                   !.links = {l \in link : l[2] = task[r].of},
                   !.saw = {l \in link : l[2] = task[r].of}])
    /\ UNCHANGED <<file, object, preview, link, excused>>

CommitDiscard(r) ==
    /\ task[r].pc = "remove"
    /\ file' = [file EXCEPT ![task[r].of].state = "deleted"]
    /\ link' = link \ task[r].links
    /\ Turn(r, [task[r] EXCEPT !.pc = "erase", !.at = 0])
    /\ UNCHANGED <<object, preview, excused>>

(* Mutation: the last chunk is not reached. *)
EraseAllButLast(r, fails) ==
    LET f == task[r].of
    IN  /\ task[r].pc = "erase"
        /\ task[r].at \in Index
        /\ object' = IF fails \/ task[r].at = Chunks - 1
                     THEN object ELSE [object EXCEPT ![f][task[r].at] = Missing]
        /\ excused' = IF fails THEN excused \cup {f} ELSE excused
        /\ Turn(r, [task[r] EXCEPT !.at = @ + 1])
        /\ UNCHANGED <<file, preview, link>>

\* A storage failure is logged and the next object tried.
EraseChunk(r, fails) ==
    LET f == task[r].of
    IN  /\ task[r].pc = "erase"
        /\ task[r].at \in Index
        /\ object' = IF fails THEN object ELSE [object EXCEPT ![f][task[r].at] = Missing]
        /\ excused' = IF fails THEN excused \cup {f} ELSE excused
        /\ Turn(r, [task[r] EXCEPT !.at = @ + 1])
        /\ UNCHANGED <<file, preview, link>>

\* Only a preview the deletion had read of is looked for.
ErasePreview(r) ==
    /\ task[r].pc = "erase"
    /\ task[r].at \notin Index
    /\ preview' = [preview EXCEPT ![task[r].of] = @ /\ ~task[r].drawn]
    /\ Turn(r, NoTask)
    /\ UNCHANGED <<file, object, link, excused>>

(***************************************************************************)
(* Previews.                                                               *)
(***************************************************************************)
AskThumbnail(r, f) ==
    /\ file[f].state = "ready"
    /\ file[f].thumb # "no"
    /\ ~(file[f].thumb = "yes" /\ preview[f])
    /\ Start(r, "thumbnail", "draw", f)
    /\ UNCHANGED <<file, object, preview, link, excused>>

\* Not a picture, or not one that can be decoded.  A preview that is there
\* all the same was drawn before a late chunk changed the file.
NoThumbnail(r) ==
    LET f == task[r].of
    IN  /\ Doing(r, "thumbnail", "draw")
        /\ \E i \in Index : object[f][i] \in Disguised
        /\ file' = IF Found(f) THEN [file EXCEPT ![f].thumb = "no"] ELSE file
        /\ excused' = IF preview[f] THEN excused \cup {f} ELSE excused
        /\ Turn(r, NoTask)
        /\ UNCHANGED <<object, preview, link>>

(* Mutation: the flag is set and then the preview is stored. *)
FlagFirst(r) ==
    LET f == task[r].of
    IN  /\ Doing(r, "thumbnail", "draw")
        /\ file' = IF Found(f) THEN [file EXCEPT ![f].thumb = "yes"] ELSE file
        /\ excused' = IF file[f].state = "deleted" \/ Deleting(f)
                      THEN excused \cup {f} ELSE excused
        /\ Turn(r, [task[r] EXCEPT !.pc = "flag"])
        /\ UNCHANGED <<object, preview, link>>

StoreThumbnail(r) ==
    LET f == task[r].of
    IN  /\ Doing(r, "thumbnail", "draw")
        /\ \A i \in Index : object[f][i] \notin Disguised \cup {Missing}
        /\ preview' = [preview EXCEPT ![f] = TRUE]
        /\ excused' = IF file[f].state = "deleted" \/ Deleting(f)
                      THEN excused \cup {f} ELSE excused
        /\ Turn(r, [task[r] EXCEPT !.pc = "flag"])
        /\ UNCHANGED <<file, object, link>>

FlagThumbnail(r) ==
    LET f == task[r].of
    IN  /\ Doing(r, "thumbnail", "flag")
        /\ file' = IF Found(f) THEN [file EXCEPT ![f].thumb = "yes"] ELSE file
        /\ excused' = IF file[f].state = "deleted" \/ Deleting(f) THEN excused \cup {f} ELSE excused
        /\ Turn(r, NoTask)
        /\ UNCHANGED <<object, preview, link>>

(***************************************************************************)
(* sync_attachments: what the transaction carries becomes what was sent.   *)
(***************************************************************************)
AskAttach(r, f) ==
    /\ Found(f)
    /\ Start(r, "attach", "attach", f)
    /\ UNCHANGED <<file, object, preview, link, excused>>

CommitAttach(r, c) ==
    /\ Doing(r, "attach", "attach")
    /\ link' = {l \in link : l[1] # c} \cup {<<c, task[r].of>>}
    /\ Turn(r, NoTask)
    /\ UNCHANGED <<file, object, preview, excused>>

DetachAll(c) ==
    /\ link' = {l \in link : l[1] # c}
    /\ UNCHANGED <<file, object, preview, task, excused>>

\* An error, a refusal or a crash: what is committed or stored stays.
StopTask(r) ==
    /\ task[r].pc # "idle"
    /\ excused' = IF task[r].pc \in {"erase", "flag"} THEN excused \cup {task[r].of} ELSE excused
    /\ Turn(r, NoTask)
    /\ UNCHANGED <<file, object, preview, link>>

VaultNext ==
    \/ \E f \in Files : Begin(f)
    \/ \E c \in Carriers : DetachAll(c)
    \/ \E r \in VaultRequests :
          \/ \E f \in Files :
                \/ \E i \in Index, d \in Contents : AskPut(r, f, i, d)
                \/ AskComplete(r, f) \/ AskDeleteFile(r, f) \/ AskThumbnail(r, f) \/ AskAttach(r, f)
          \/ Put(r) \/ ReadChunk(r) \/ VerifyType(r) \/ MarkReady(r)
          \/ DetachEverywhere(r) \/ CommitDiscard(r) \/ ErasePreview(r)
          \/ \E fails \in BOOLEAN : EraseChunk(r, fails)
          \/ NoThumbnail(r) \/ StoreThumbnail(r) \/ FlagThumbnail(r)
          \/ \E c \in Carriers : CommitAttach(r, c)
          \/ StopTask(r)

VaultSpec == VaultInit /\ [][VaultNext]_vaultVars

(***************************************************************************)
(* Properties.                                                             *)
(***************************************************************************)
\* Rows, objects and requests hold what their declarations say; what was
\* hashed is a whole file that begins as its type says.
VaultTypeOK ==
    /\ \A f \in Files :
          /\ file[f].state \in {"none", "pending", "ready", "deleted"}
          /\ file[f].thumb \in {"unknown", "yes", "no"}
          /\ object[f] \in [Index -> Contents \cup {Missing}]
          /\ file[f].hash # <<>> => Len(file[f].hash) = Chunks /\ file[f].hash[1] \notin Disguised
          /\ file[f].state = "ready" => file[f].hash # <<>>
    /\ link \subseteq Carriers \X Files
    /\ \A r \in VaultRequests : task[r].at \in 0 .. Chunks

\* A deletion lets go of every transaction that carried the file when it
\* looked: one that carries a deleted file was written meanwhile.
DeletedFileLetsGo ==
    [][\A f \in Files :
          Found(f) /\ file'[f].state = "deleted" =>
             \E r \in VaultRequests :
                task[r].pc = "remove" /\ task[r].of = f /\ task[r].saw \cap link' = {}]_vaultVars

\* The bytes go with the file: once nothing works on a deleted file, no chunk
\* and no preview is left, unless storage failed, the process stopped, or an
\* upload or a preview that had passed its check wrote after the deletion.
BytesGoWithFile ==
    \A f \in Files :
       /\ file[f].state = "deleted"
       /\ \A r \in VaultRequests : task[r].of = f => task[r].pc = "idle"
       /\ f \notin excused
       => /\ \A i \in Index : object[f][i] = Missing
          /\ ~preview[f]

\* A file flagged as having a preview has one, until its deletion takes it.
FlaggedIsStored ==
    \A f \in Files : file[f].state = "ready" /\ file[f].thumb = "yes" => preview[f]

\* Not kept.  What require_pending is for: the bytes of a finished upload are
\* the bytes that were hashed.
ReadyBytesMatchHash ==
    \A f \in Files :
       file[f].state = "ready" => \A i \in Index : object[f][i] = file[f].hash[i + 1]
=============================================================================
