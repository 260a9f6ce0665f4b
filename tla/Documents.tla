----------------------------- MODULE Documents -----------------------------
(***************************************************************************)
(* DocumentsService and the uploads of assets and dynamic-module records:  *)
(* files in an object store, rows in the database that point at them, and  *)
(* nothing that keeps the two together but the order of the calls.         *)
(***************************************************************************)
EXTENDS Handlers

CONSTANTS
  Docs,    \* ids of documents
  Owners,  \* assets and records with a custom field that holds a file
  Files,   \* keys in the object store, each generated once
  MaxBatch \* bound on the files of one batch

VARIABLES
  stored,     \* the keys that hold an object
  document,   \* id -> its row
  versions,   \* id -> the files of its document_versions rows
  attachment, \* owner -> the file its field value points at, or None
  pointedAt   \* history: id -> every file its row has pointed at

documents == <<stored, document, versions, attachment, pointedAt>>

DocumentsInit ==
  /\ stored = {}
  /\ document = [d \in Docs |-> [state |-> "absent", file |-> None]]
  /\ versions = [d \in Docs |-> {}]
  /\ attachment = [o \in Owners |-> None]
  /\ pointedAt = [d \in Docs |-> {}]

(* buildKey: the id, the time in milliseconds and the name of the file,    *)
(* which is taken for a key that nobody else has built.                    *)
NewKey(k) == k \notin stored /\ \A p \in Procs : frame[p] # None => frame[p].file # k

Upload(p, label) ==
  /\ stored' = stored \cup {frame[p].file}
  /\ Goto(p, label)
  /\ UNCHANGED <<document, versions, attachment, pointedAt>>

Point(d, state, k) ==
  /\ document' = [document EXCEPT ![d] = [state |-> state, file |-> k]]
  /\ pointedAt' = [pointedAt EXCEPT ![d] = @ \cup {k}]
  /\ UNCHANGED <<stored, versions, attachment>>

-----------------------------------------------------------------------------
(* create and createBatch: for each of n files, upload it and insert a row. *)

CreateBatch(p, n) ==
  /\ \E k \in Files :
       NewKey(k) /\ Enter(p, "batch.upload", [left |-> n, file |-> k, uses |-> {}])
  /\ UNCHANGED documents

UploadBatch(p) == At(p, "batch.upload") /\ Upload(p, "batch.insert")

InsertDocument(p) ==
  /\ At(p, "batch.insert")
  /\ \E d \in Docs : document[d].state = "absent" /\ Point(d, "live", frame[p].file)
  /\ IF frame[p].left = 1 THEN Finish(p)
     ELSE \E k \in Files : NewKey(k) /\
            Proceed(p, "batch.upload", [frame[p] EXCEPT !.left = @ - 1, !.file = k])

-----------------------------------------------------------------------------
(* replaceFile: read, snapshot the present file, upload, update by id. *)

ReplaceFile(p, d) ==
  /\ document[d].state = "live"
  /\ \E k \in Files :
       NewKey(k) /\ Enter(p, "replace.version",
                          [id |-> d, was |-> document[d].file, file |-> k, uses |-> {d}])
  /\ UNCHANGED documents

(* Mutant: the new file is snapshotted in place of the superseded one. *)
SnapshotVersion_NewFile(p) ==
  /\ At(p, "replace.version")
  /\ versions' = [versions EXCEPT ![frame[p].id] = @ \cup {frame[p].file}]
  /\ Goto(p, "replace.upload")
  /\ UNCHANGED <<stored, document, attachment, pointedAt>>

SnapshotVersion(p) ==
  /\ At(p, "replace.version")
  /\ versions' = [versions EXCEPT ![frame[p].id] = @ \cup {frame[p].was}]
  /\ Goto(p, "replace.upload")
  /\ UNCHANGED <<stored, document, attachment, pointedAt>>

UploadReplacement(p) == At(p, "replace.upload") /\ Upload(p, "replace.write")

WriteReplacement(p) ==
  /\ At(p, "replace.write")
  /\ Point(frame[p].id, document[frame[p].id].state, frame[p].file)
  /\ Finish(p)

(* Nothing is removed from the store. *)
DeleteDocument(p, d) ==
  /\ AtOnce(p)
  /\ document[d].state = "live"
  /\ document' = [document EXCEPT ![d].state = "deleted"]
  /\ UNCHANGED <<stored, versions, attachment, pointedAt>>

RestoreDocument(p, d) ==
  /\ AtOnce(p)
  /\ document[d].state = "deleted"
  /\ document' = [document EXCEPT ![d].state = "live"]
  /\ UNCHANGED <<stored, versions, attachment, pointedAt>>

-----------------------------------------------------------------------------
(* AssetsService.uploadDocument and uploadCustomFieldFile of the records:  *)
(* upload, then set the value of the field. The file before is forgotten.  *)

Attach(p, o) ==
  /\ \E k \in Files : NewKey(k) /\ Enter(p, "attach.upload", [id |-> o, file |-> k, uses |-> {}])
  /\ UNCHANGED documents

UploadAttachment(p) == At(p, "attach.upload") /\ Upload(p, "attach.value")

SetFileValue(p) ==
  /\ At(p, "attach.value")
  /\ attachment' = [attachment EXCEPT ![frame[p].id] = frame[p].file]
  /\ Finish(p)
  /\ UNCHANGED <<stored, document, versions, pointedAt>>

DocumentRoutes(p) ==
  \/ \E n \in 1..MaxBatch : CreateBatch(p, n)
  \/ \E d \in Docs : ReplaceFile(p, d) \/ DeleteDocument(p, d) \/ RestoreDocument(p, d)
  \/ \E o \in Owners : Attach(p, o)

ContinueDocuments(p) ==
  \/ UploadBatch(p) \/ InsertDocument(p)
  \/ SnapshotVersion(p) \/ UploadReplacement(p) \/ WriteReplacement(p)
  \/ UploadAttachment(p) \/ SetFileValue(p)
  \/ (Fail(p) /\ UNCHANGED documents)

DocumentsChanged == ChangedIn(document, document')

DocumentsNext ==
  /\ \E p \in Procs : DocumentRoutes(p) \/ ContinueDocuments(p)
  /\ Watch(DocumentsChanged)

DocumentsSpec == HandlersInit /\ DocumentsInit /\ [][DocumentsNext]_<<pc, frame, stale, documents>>

-----------------------------------------------------------------------------
(* Properties *)

(* "an append-only history of every file a Document has ever pointed at":  *)
(* each of them is the present file or has a version row, whatever died    *)
(* half-way, unless the document changed under a replacement; and every    *)
(* file that a row, a version or a field value names is in the store.      *)
FilesAreKept ==
  /\ \A d \in Docs :
       Fresh({d}) => pointedAt[d] \subseteq versions[d] \cup {document[d].file}
  /\ \A d \in Docs : (versions[d] \cup {document[d].file}) \ {None} \subseteq stored
  /\ \A o \in Owners : attachment[o] \in stored \cup {None}
=============================================================================
