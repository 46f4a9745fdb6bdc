---------------------------- MODULE BlobStorage ----------------------------
(***************************************************************************)
(* Where the bytes of one uploaded file are: in the object store, in the   *)
(* directory of an installation that began with the filesystem backend, in *)
(* both, or in neither.  Downloads look in the first and fall back to the  *)
(* second, deletions empty both, and the backfill command copies what is   *)
(* only in the directory: at a start that is told to, before the server    *)
(* listens, or by hand beside it.  Nothing keeps the command and a deletion *)
(* apart, a put or an unlink may fail, and any process may die between two *)
(* calls.                                                                  *)
(*                                                                         *)
(* Two deletions of one file do not overlap between their DELETE and their *)
(* commit, as the first holds the row (Attachments).  A file is all there  *)
(* or cut short; the store shows an object when its upload is complete, the *)
(* directory at once.                                                      *)
(***************************************************************************)

CONSTANTS
    ByHand,      \* whether the backfill may also run while the server does
    MayMiscopy   \* whether a copy may come out short

VARIABLES
    backend,   \* ATTACHMENTS_STORAGE_BACKEND
    server,    \* the container: down, in its startup, or serving
    hasRow,       \* whether the Attachment row is there
    object,    \* the object in the store
    legacy,    \* the file in the directory
    used,      \* the storage key has been given out
    op,        \* the request that uploads or deletes, and how far it is
    job,       \* the backfill, and how far it is with this file
    download,  \* the download, and how far it is
    unchecked, \* a copy was given up before its size was compared
    spared,    \* the last deletion met a copy under way, or failed to unlink
    vanished   \* the file was not all there, or was being deleted, at some
               \* time during the download

bvars  == <<backend, server, hasRow, object, legacy, used, op, job, download,
            unchecked, spared, vanished>>
places == <<object, legacy>>

Contents  == {"none", "whole", "short"}
OpSteps   == {"idle", "writing", "record", "erase", "eraseLegacy", "forget"}
JobSteps  == {"none", "exists", "source", "upload", "measure", "undo"}
Downloads == {"idle", "object", "legacy", "opening", "served", "missing", "failed"}

(* open_attachment_for_download, if nothing changed meanwhile. *)
Content == IF backend = "s3" /\ object # "none" THEN object ELSE legacy

BeingErased == op \in {"erase", "eraseLegacy", "forget"}
Copying  == job # "none"

StorageTypeOK ==
    /\ backend \in {"filesystem", "s3"}
    /\ server \in {"down", "startup", "up"}
    /\ hasRow \in BOOLEAN /\ used \in BOOLEAN
    /\ object \in Contents /\ legacy \in Contents
    /\ op \in OpSteps /\ job \in JobSteps /\ download \in Downloads
    /\ unchecked \in BOOLEAN /\ spared \in BOOLEAN /\ vanished \in BOOLEAN

(* A new installation, or an old one whose directory may have lost a file.  *)
StorageInit ==
    /\ backend = "filesystem"
    /\ server = "down"
    /\ hasRow \in BOOLEAN
    /\ used = hasRow
    /\ object = "none"
    /\ legacy \in Contents
    /\ ~hasRow => legacy = "none"
    /\ op = "idle" /\ job = "none" /\ download = "idle"
    /\ unchecked = FALSE /\ spared = FALSE /\ vanished = FALSE

----------------------------------------------------------------------------
(* The container: config.startup, then the server.                          *)

Start ==
    /\ server = "down"
    /\ \E b \in {"filesystem", "s3"} :
          /\ backend = "s3" => b = "s3"
          /\ backend' = b
          /\ server' = IF b = "s3" THEN "startup" ELSE "up"
          /\ job' \in IF b = "s3" /\ hasRow THEN {"exists", "none"} ELSE {"none"}
    /\ spared' = FALSE
    /\ UNCHANGED <<hasRow, places, used, op, download, unchecked, vanished>>

Serve ==
    /\ server = "startup"
    /\ job = "none"
    /\ server' = "up"
    /\ UNCHANGED <<backend, hasRow, places, used, op, job, download, unchecked, spared, vanished>>

(* Requests and the backfill stop where they are; transactions roll back.   *)
Stop ==
    /\ server # "down"
    /\ server' = "down"
    /\ op' = "idle" /\ job' = "none" /\ download' = "idle"
    /\ unchecked' = (unchecked \/ job = "measure" \/ job = "undo")
    /\ vanished' = FALSE
    /\ UNCHANGED <<backend, hasRow, places, used, spared>>

----------------------------------------------------------------------------
(* create_attachment: the bytes, then the row.                              *)

Up == server = "up"

MayStore(b) == Up /\ op = "idle" /\ ~used /\ backend = b

UploadObject ==
    /\ MayStore("s3")
    /\ used' = TRUE
    /\ object' = "whole"
    /\ op' = "record"
    /\ UNCHANGED <<backend, server, hasRow, legacy, job, download, unchecked, spared, vanished>>

UploadFile ==
    /\ MayStore("filesystem")
    /\ used' = TRUE
    /\ legacy' = "short"
    /\ op' = "writing"
    /\ UNCHANGED <<backend, server, hasRow, object, job, download, unchecked, spared, vanished>>

UploadFileEnds ==
    /\ op = "writing"
    /\ legacy' = "whole"
    /\ op' = "record"
    /\ UNCHANGED <<backend, server, hasRow, object, used, job, download, unchecked, spared, vanished>>

(* The put raises, and what it has stored stays where it is.                *)
PutFails ==
    /\ \/ MayStore("s3") /\ object' \in {"none", "whole"} /\ used' = TRUE
       \/ op = "writing" /\ UNCHANGED <<object, used>>
    /\ op' = "idle"
    /\ UNCHANGED <<backend, server, hasRow, legacy, job, download, unchecked, spared, vanished>>

Record ==
    /\ op = "record"
    /\ hasRow' = TRUE
    /\ op' = "idle"
    /\ UNCHANGED <<backend, server, places, used, job, download, unchecked, spared, vanished>>

(* The INSERT raises; the handler deletes what it has stored.               *)
RecordFails ==
    /\ op = "record"
    /\ op' = "erase"
    /\ UNCHANGED <<backend, server, hasRow, places, used, job, download, unchecked, spared, vanished>>

(* The row's deletion, whose signal deletes the bytes.                      *)
DeleteBlob ==
    /\ Up /\ op = "idle" /\ hasRow
    /\ op' = "erase"
    /\ spared' = Copying
    /\ vanished' = (download # "idle")
    /\ UNCHANGED <<backend, server, hasRow, places, used, job, download, unchecked>>

(* An upload takes back what it has put, and is done.                       *)
Then(step) == op' = IF hasRow THEN step ELSE "idle"

(* LocalFilesystemAttachmentStorage.delete says nothing of an OSError.      *)
UnlinkLegacy ==
    \/ legacy' = "none" /\ UNCHANGED spared
    \/ legacy # "none" /\ UNCHANGED legacy /\ spared' = TRUE

(* Broken variant: what the old installation left is not looked after.      *)
EraseBackendOnly ==
    /\ op = "erase"
    /\ IF backend = "s3"
          THEN object' = "none" /\ UNCHANGED <<legacy, spared>>
          ELSE UnlinkLegacy /\ UNCHANGED object
    /\ Then("forget")
    /\ UNCHANGED <<backend, server, hasRow, used, job, download, unchecked, vanished>>

(* delete_attachment_from_storage: the backend's place, then the other one. *)
Erase ==
    /\ op = "erase"
    /\ IF backend = "s3"
          THEN object' = "none" /\ Then("eraseLegacy") /\ UNCHANGED <<legacy, spared>>
          ELSE UnlinkLegacy /\ Then("forget") /\ UNCHANGED object
    /\ UNCHANGED <<backend, server, hasRow, used, job, download, unchecked, vanished>>

EraseLegacy ==
    /\ op = "eraseLegacy"
    /\ UnlinkLegacy
    /\ op' = "forget"
    /\ UNCHANGED <<backend, server, hasRow, object, used, job, download, unchecked, vanished>>

Forget ==
    /\ op = "forget"
    /\ hasRow' = FALSE
    /\ op' = "idle"
    /\ UNCHANGED <<backend, server, places, used, job, download, unchecked, spared, vanished>>

(* The store does not answer, or the transaction fails after the signal.    *)
EraseFails ==
    /\ BeingErased
    /\ op' = "idle"
    /\ UNCHANGED <<backend, server, hasRow, places, used, job, download, unchecked, spared, vanished>>

----------------------------------------------------------------------------
(* backfill_attachments_to_object_storage, for the one file.                *)

Backfilled == job' = "none"

BackfillByHand ==
    /\ ByHand /\ Up /\ backend = "s3"
    /\ hasRow /\ job = "none"
    /\ job' = "exists"
    /\ spared' = BeingErased
    /\ UNCHANGED <<backend, server, hasRow, places, used, op, download, unchecked, vanished>>

SkipExisting ==
    /\ job = "exists"
    /\ IF object # "none" THEN Backfilled ELSE job' = "source"
    /\ UNCHANGED <<backend, server, hasRow, places, used, op, download, unchecked, spared, vanished>>

(* Missing, of another size than the row says, or a dry run.                *)
SkipSource ==
    /\ job = "source"
    /\ IF legacy # "whole" THEN Backfilled ELSE Backfilled \/ job' = "upload"
    /\ UNCHANGED <<backend, server, hasRow, places, used, op, download, unchecked, spared, vanished>>

(* The source is open by now: who deletes it does not stop the copy.        *)
Copy ==
    /\ job = "upload"
    /\ \/ object' = "whole" /\ job' = "measure"
       \/ MayMiscopy /\ object' = "short" /\ job' = "measure"
       \/ Backfilled /\ UNCHANGED object
    /\ UNCHANGED <<backend, server, hasRow, legacy, used, op, download, unchecked, spared>>
    /\ vanished' = (vanished \/ Content' # "whole")

(* Broken variant: the file is moved.                                       *)
MeasureAndMove ==
    /\ job = "measure"
    /\ IF object = "short"
          THEN job' = "undo" /\ UNCHANGED legacy
          ELSE Backfilled /\ legacy' = "none"
    /\ UNCHANGED <<backend, server, hasRow, object, used, op, download, unchecked, spared, vanished>>

(* An object that is gone again has no size: the copy has failed.           *)
Measure ==
    /\ job = "measure"
    /\ IF object = "short" THEN job' = "undo" ELSE Backfilled
    /\ UNCHANGED <<backend, server, hasRow, places, used, op, download, unchecked, spared, vanished>>

(* The size cannot be had, or the object not deleted: it stays as it is.    *)
MeasureFails ==
    /\ job \in {"measure", "undo"}
    /\ Backfilled
    /\ unchecked' = TRUE
    /\ UNCHANGED <<backend, server, hasRow, places, used, op, download, spared, vanished>>

(* Broken variant: a short copy is reported, not deleted.                   *)
UndoNothing ==
    /\ job = "undo"
    /\ Backfilled
    /\ UNCHANGED <<backend, server, hasRow, places, used, op, download, unchecked, spared, vanished>>

Undo ==
    /\ job = "undo"
    /\ object' = "none"
    /\ Backfilled
    /\ UNCHANGED <<backend, server, hasRow, legacy, used, op, download, unchecked, spared, vanished>>

----------------------------------------------------------------------------
(* AttachmentDownloadView, for a file that has its row.                     *)

Download ==
    /\ Up /\ hasRow /\ download = "idle"
    /\ download' = IF backend = "s3" THEN "object" ELSE "legacy"
    /\ vanished' = (Content # "whole" \/ BeingErased)
    /\ UNCHANGED <<backend, server, hasRow, places, used, op, job, unchecked, spared>>

OpenObject ==
    /\ download = "object"
    /\ download' = IF object = "none" THEN "legacy" ELSE "served"
    /\ UNCHANGED <<backend, server, hasRow, places, used, op, job, unchecked, spared, vanished>>

(* A look whether there is a file, and then its opening, which fails with a *)
(* 500 if there is none any more.                                           *)
FindLegacy ==
    /\ download = "legacy"
    /\ download' = IF legacy = "none" THEN "missing" ELSE "opening"
    /\ UNCHANGED <<backend, server, hasRow, places, used, op, job, unchecked, spared, vanished>>

OpenLegacy ==
    /\ download = "opening"
    /\ download' = IF legacy = "none" THEN "failed" ELSE "served"
    /\ UNCHANGED <<backend, server, hasRow, places, used, op, job, unchecked, spared, vanished>>

Downloaded ==
    /\ download \in {"served", "missing", "failed"}
    /\ download' = "idle"
    /\ vanished' = FALSE
    /\ UNCHANGED <<backend, server, hasRow, places, used, op, job, unchecked, spared>>

Storing ==
    UploadObject \/ UploadFile \/ UploadFileEnds \/ PutFails \/ Record \/ RecordFails

Erasing == DeleteBlob \/ Erase \/ EraseLegacy \/ Forget \/ EraseFails

Backfilling ==
    \/ BackfillByHand \/ SkipExisting \/ SkipSource
    \/ Copy \/ Measure \/ MeasureFails \/ Undo

Downloading == Download \/ OpenObject \/ FindLegacy \/ OpenLegacy \/ Downloaded

StorageNext ==
    \/ Start \/ Serve \/ Stop
    \/ Storing \/ Erasing \/ Backfilling \/ Downloading

StorageSpec == StorageInit /\ [][StorageNext]_bvars

----------------------------------------------------------------------------

(* The two places, the fallback and the backfill with its restarts are one  *)
(* place to whoever downloads: a row comes with its bytes and goes after    *)
(* them, and between the two nothing but a deletion takes them away.  Bytes *)
(* outlive their row, or come back before it goes, only where the deletion  *)
(* was spared them: it met a copy under way, or could not unlink the file.  *)
Promise == INSTANCE BlobPromise WITH
    row <- hasRow, content <- Content, deleting <- BeingErased, copying <- Copying,
    spared <- spared

KeepsThePromise == Promise!Spec

(* A download that finds nothing was right to: the file was not all there,  *)
(* or was being deleted, at some time while the download looked in one place *)
(* and then in the other.  A copy that appears in the one while it looks in *)
(* the other does not hide the file from it.                                *)
DownloadsFindTheFile == download \in {"missing", "failed"} => vanished

(* A short object shadows the whole file in the directory for good.  There  *)
(* is one only while the backfill is about to find out, or after it was     *)
(* kept from finding out.                                                   *)
ShortCopiesAreUndone ==
    object = "short" => unchecked \/ job \in {"measure", "undo"}

============================================================================
