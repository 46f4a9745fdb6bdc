---------------------------- MODULE Attachments ----------------------------
(***************************************************************************)
(* One uploaded file, kept in two places that no transaction spans: the    *)
(* Attachment row in the database and the blob in the storage.  It is      *)
(* uploaded, bound to a message, and deleted alone, with its message, with *)
(* its room or with its uploader's account, by requests that overlap under *)
(* READ COMMITTED.                                                         *)
(*                                                                         *)
(* The rows change for the others when a request commits, its last step.   *)
(* The blob changes at once: create_attachment writes it before it inserts *)
(* the row, and a post_delete signal removes it right after the DELETE     *)
(* statement, before anybody knows whether the transaction will commit.    *)
(* The storage may fail too: a put that breaks off leaves what it has      *)
(* written, and an unlink that fails is passed over in silence.            *)
(*                                                                         *)
(* Foreign keys are checked at the commit (Django declares them DEFERRABLE *)
(* INITIALLY DEFERRED).                                                    *)
(***************************************************************************)
EXTENDS Naturals, FiniteSets

CONSTANTS
    Requests,    \* the requests, each served once
    Messages,    \* the messages that may be posted with the file
    Foreign,     \* those of them posted to a room of another owner, one room
    Ops,         \* the operations the requests may ask for
    MayInterrupt \* whether requests may be given up half way

AllOps == {"upload", "post", "delete", "delete_message", "delete_room", "delete_account"}

ASSUME AttachmentAssumption ==
    Foreign \subseteq Messages /\ Ops \subseteq AllOps /\ MayInterrupt \in BOOLEAN

VARIABLES
    row,         \* the Attachment row: absent, or its binding_type
    blob,        \* what the storage holds of the file
    messages,    \* the messages that exist
    bindings,    \* those with a row that binds the file to them
    req,         \* each request: what it does, how far it is, what it read
    mishap       \* an upload ended half way or an unlink failed, and left bytes

avars == <<row, blob, messages, bindings, req, mishap>>
tables == <<row, messages, bindings>>

(* "bound" for ROOM_MESSAGE and DIALOG_MESSAGE alike. *)
Rows  == {"none", "unbound", "bound"}
Blobs == {"none", "part", "whole"}
Steps == {"idle", "put", "check", "lock", "bare", "clear", "delete", "commit",
          "done", "refused"}

Answered == {"done", "refused"}

Idle == [op |-> "none", step |-> "idle", message |-> {}, clears |-> {}]

AttachmentTypeOK ==
    /\ row \in Rows
    /\ blob \in Blobs
    /\ messages \subseteq Messages
    /\ bindings \subseteq messages
    /\ req \in [Requests -> [op : AllOps \cup {"none"}, step : Steps,
                             message : SUBSET Messages, clears : SUBSET Messages]]
    /\ mishap \in BOOLEAN

Init ==
    /\ row = "none"
    /\ blob = "none"
    /\ messages = {}
    /\ bindings = {}
    /\ req = [r \in Requests |-> Idle]
    /\ mishap = FALSE

----------------------------------------------------------------------------

At(r, op, step) == req[r].op = op /\ req[r].step = step

InFlight(r) == req[r].step \notin Answered \cup {"idle"}

Goto(r, step) == req' = [req EXCEPT ![r].step = step]

Begin(r, op, m, step) ==
    /\ op \in Ops
    /\ req[r].step = "idle"
    /\ req' = [req EXCEPT ![r] = [Idle EXCEPT !.op = op, !.message = m, !.step = step]]

(* Who has the Attachment row locked or deleted, until the commit.          *)
HoldsRow(r) == req[r].op # "upload" /\ req[r].step = "commit" /\ req[r].op # "none"

(* Broken variant: _lock_owned_unbound_attachments without select_for_update.*)
RowNeverHeld(r) == TRUE

RowFree(r) == \A q \in Requests \ {r} : ~HoldsRow(q)

(* delete_room_message and the like lock the message first.                 *)
MessageFree(r, m) ==
    \A q \in Requests \ {r} :
        ~(req[q].op = "delete_message" /\ InFlight(q) /\ req[q].message = {m}
            /\ req[q].step # "check")

----------------------------------------------------------------------------
(* create_attachment: the key is fresh, so the file is uploaded once.       *)

Upload(r) ==
    /\ \A q \in Requests : req[q].op # "upload"
    /\ Begin(r, "upload", {}, "put")
    /\ UNCHANGED <<tables, blob, mishap>>

UploadPut(r) ==
    /\ At(r, "upload", "put")
    /\ blob' = "whole"
    /\ Goto(r, "commit")
    /\ UNCHANGED <<tables, mishap>>

(* The put raises, and nobody removes what it has written; an object may    *)
(* have arrived although the answer did not.                                *)
UploadPutFails(r) ==
    /\ At(r, "upload", "put")
    /\ blob' \in Blobs
    /\ mishap' = (mishap \/ blob' # "none")
    /\ Goto(r, "refused")
    /\ UNCHANGED tables

UploadCommit(r) ==
    /\ At(r, "upload", "commit")
    /\ row' = "unbound"
    /\ Goto(r, "done")
    /\ UNCHANGED <<blob, messages, bindings, mishap>>

(* storage.delete.  Where the storage is a directory a failure is swallowed; *)
(* where it is a bucket it ends the request, as Interrupt does.             *)
Unlink ==
    \/ blob' = "none" /\ UNCHANGED mishap
    \/ blob # "none" /\ UNCHANGED blob /\ mishap' = TRUE

(* The INSERT raises: the handler takes the file back.                      *)
UploadFails(r) ==
    /\ At(r, "upload", "commit")
    /\ Unlink
    /\ Goto(r, "refused")
    /\ UNCHANGED tables

----------------------------------------------------------------------------
(* The room refuses messages once it is gone: the INSERT's foreign key fails.*)
MayBePosted(ms) ==
    ms \cap Foreign # {} => \A q \in Requests : ~At(q, "delete_room", "done")

(* create_room_message, create_dialog_message: the row is locked, must be   *)
(* there and unbound, and is bound to the new message.                      *)

Post(r, m) ==
    /\ MayBePosted({m})
    /\ \A q \in Requests : ~(req[q].op = "post" /\ req[q].message = {m})
    /\ Begin(r, "post", {m}, "lock")
    /\ UNCHANGED <<tables, blob, mishap>>

PostLock(r) ==
    /\ At(r, "post", "lock")
    /\ RowFree(r)
    /\ Goto(r, IF row = "unbound" THEN "commit" ELSE "refused")
    /\ UNCHANGED <<tables, blob, mishap>>

PostToNoRoom(r) ==
    /\ At(r, "post", "commit")
    /\ ~MayBePosted(req[r].message)
    /\ Goto(r, "refused")
    /\ UNCHANGED <<tables, blob, mishap>>

PostCommit(r) ==
    /\ At(r, "post", "commit")
    /\ MayBePosted(req[r].message)
    /\ row' = "bound"
    /\ messages' = messages \cup req[r].message
    /\ bindings' = bindings \cup req[r].message
    /\ Goto(r, "done")
    /\ UNCHANGED <<blob, mishap>>

----------------------------------------------------------------------------
(* Attachment.delete() and QuerySet.delete(): the rows that bind it first,  *)
(* then the row itself (which waits for whoever holds it), then the signal; *)
(* the commit fails if somebody has bound the file meanwhile.               *)

ClearBindings(r) ==
    /\ req[r].step = "clear"
    /\ req' = [req EXCEPT ![r].clears = bindings, ![r].step = "delete"]
    /\ UNCHANGED <<tables, blob, mishap>>

(* Broken variant: a deletion in bulk that sends no signal.                 *)
DeleteRowSilently(r) ==
    /\ req[r].step = "delete"
    /\ RowFree(r)
    /\ Goto(r, "commit")
    /\ UNCHANGED <<tables, blob, mishap>>

DeleteRow(r) ==
    /\ req[r].step = "delete"
    /\ RowFree(r)
    /\ Unlink
    /\ Goto(r, "commit")
    /\ UNCHANGED tables

(* The messages deleted along take their own bindings with them.            *)
Unreferenced(r, gone) == bindings \subseteq req[r].clears \cup gone

CommitDeletion(r, gone) ==
    /\ req[r].step = "commit"
    /\ IF Unreferenced(r, gone)
          THEN /\ row' = "none"
               /\ messages' = messages \ gone
               /\ bindings' = bindings \ (req[r].clears \cup gone)
               /\ Goto(r, "done")
          ELSE Goto(r, "refused") /\ UNCHANGED tables
    /\ UNCHANGED <<blob, mishap>>

(* delete_unbound_attachment: binding_type is as old as the view's SELECT.  *)
Delete(r) ==
    /\ row = "unbound"
    /\ Begin(r, "delete", {}, "clear")
    /\ UNCHANGED <<tables, blob, mishap>>

DeleteCommit(r) == req[r].op = "delete" /\ CommitDeletion(r, {})

(* delete_room_message, delete_dialog_message: the message is locked, its   *)
(* attachments are deleted and so is it.                                    *)
DeleteMessage(r, m) ==
    /\ m \in messages
    /\ Begin(r, "delete_message", {m}, "check")
    /\ UNCHANGED <<tables, blob, mishap>>

DeleteMessageCheck(r) ==
    /\ At(r, "delete_message", "check")
    /\ \A m \in req[r].message : MessageFree(r, m)
    /\ Goto(r, IF ~(req[r].message \subseteq messages) THEN "refused"
               ELSE IF req[r].message \subseteq bindings THEN "clear"
               ELSE "bare")
    /\ UNCHANGED <<tables, blob, mishap>>

(* Messages without an attachment, as far as the request knows.             *)
CommitBare(r, gone) ==
    /\ req[r].step = "bare"
    /\ messages' = messages \ gone
    /\ bindings' = bindings \ gone
    /\ Goto(r, "done")
    /\ UNCHANGED <<row, blob, mishap>>

DeleteBareMessage(r) ==
    req[r].op = "delete_message" /\ CommitBare(r, req[r].message)

DeleteMessageCommit(r) ==
    req[r].op = "delete_message" /\ CommitDeletion(r, req[r].message)

(* delete_room: the attachments its messages have when it looks, then the   *)
(* room with all the messages it has by then.                               *)
DeleteRoom(r) ==
    /\ MayBePosted(Foreign)
    /\ Begin(r, "delete_room", {}, IF bindings \cap Foreign = {} THEN "bare" ELSE "clear")
    /\ UNCHANGED <<tables, blob, mishap>>

DeleteBareRoom(r) ==
    req[r].op = "delete_room" /\ CommitBare(r, messages \cap Foreign)

DeleteRoomCommit(r) ==
    req[r].op = "delete_room" /\ CommitDeletion(r, messages \cap Foreign)

(* delete_account: the uploads first, then the rooms and dialogs with their *)
(* messages, then the user, whom a message in somebody else's room RESTRICTs.*)
DeleteAccount(r) ==
    /\ row # "none"
    /\ Begin(r, "delete_account", {}, "clear")
    /\ UNCHANGED <<tables, blob, mishap>>

DeleteAccountCommit(r) ==
    /\ req[r].op = "delete_account"
    /\ messages \cap Foreign = {}
    /\ CommitDeletion(r, messages)

DeleteAccountRestricted(r) ==
    /\ At(r, "delete_account", "commit")
    /\ messages \cap Foreign # {}
    /\ Goto(r, "refused")
    /\ UNCHANGED <<tables, blob, mishap>>

----------------------------------------------------------------------------

(* The process dies, the object store does not answer or the database gives *)
(* the transaction up: the rows are as before, the storage is not.          *)
Interrupt(r) ==
    /\ MayInterrupt
    /\ InFlight(r)
    /\ Goto(r, "refused")
    /\ IF At(r, "upload", "put") THEN blob' \in Blobs ELSE UNCHANGED blob
    /\ mishap' = (mishap \/ (req[r].op = "upload" /\ blob' # "none"))
    /\ UNCHANGED tables

Quiet == \A r \in Requests : ~InFlight(r)

Rest == Quiet /\ UNCHANGED avars

Uploading(r) ==
    Upload(r) \/ UploadPut(r) \/ UploadPutFails(r) \/ UploadCommit(r) \/ UploadFails(r)

Posting(r) == PostLock(r) \/ PostCommit(r) \/ PostToNoRoom(r) \/ \E m \in Messages : Post(r, m)

Deleting(r) ==
    \/ ClearBindings(r)
    \/ DeleteRow(r)
    \/ Delete(r)
    \/ DeleteCommit(r)
    \/ \E m \in Messages : DeleteMessage(r, m)
    \/ DeleteMessageCheck(r)
    \/ DeleteBareMessage(r)
    \/ DeleteMessageCommit(r)
    \/ DeleteRoom(r)
    \/ DeleteBareRoom(r)
    \/ DeleteRoomCommit(r)
    \/ DeleteAccount(r)
    \/ DeleteAccountCommit(r)
    \/ DeleteAccountRestricted(r)

Next ==
    \/ \E r \in Requests : Uploading(r) \/ Posting(r) \/ Deleting(r) \/ Interrupt(r)
    \/ Rest

Spec == Init /\ [][Next]_avars

----------------------------------------------------------------------------

(* Two messages never share the file, and a bound file is never taken for   *)
(* an unbound one (access, posting and deletion go by that column): the lock *)
(* of a post lasts until its commit, and a deletion that overlooked a binding*)
(* cannot commit.  The unique constraints do not see a room message and a   *)
(* dialog message together.  The converse fails: a room that is deleted     *)
(* while a file is posted leaves a bound row without a message.             *)
BoundToOneMessage ==
    /\ Cardinality(bindings) <= 1
    /\ bindings # {} => row = "bound"

(* Two stores and no transaction over both: once the requests are through,  *)
(* the storage holds nothing without a row, unless an upload ended before   *)
(* its commit and left what it had stored, or an unlink failed.  However    *)
(* deletions overlap, with each other and with posts, and whichever of them *)
(* roll back, none forgets the file.  Nor is a row ever about half a file.  *)
OnlyMishapsLeak ==
    /\ Quiet /\ row = "none" /\ ~mishap => blob = "none"
    /\ blob = "part" => row = "none"

(* A message keeps its attachment, and the attachment its file, for as long *)
(* as the message is there: bound attachments are deleted through their     *)
(* message only, and a request that fails deletes nothing.                  *)
MessagesKeepTheirFile ==
    Quiet => \A m \in messages : m \in bindings /\ blob = "whole"

============================================================================
