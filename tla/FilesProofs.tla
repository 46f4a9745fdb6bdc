----------------------------- MODULE FilesProofs -----------------------------
(***************************************************************************)
(* What is proved of a file, in its three views: the row and the blob of   *)
(* Attachments, the two places of BlobStorage, and the bytes of Download.  *)
(* The three share no variable; each has a part of this module.            *)
(***************************************************************************)
EXTENDS Attachments, BlobStorage, Download, FiniteSetTheorems, TLAPS

----------------------------------------------------------------------------
(***************************************************************************)
(* That an attachment is bound to one message at most and that the storage *)
(* keeps no file nobody knows of, for any number of requests and messages. *)
(*                                                                         *)
(* The invariant is about who holds the row: one request at a time, after  *)
(* the upload, and what it has found or left there holds until it commits. *)
(***************************************************************************)

RequestFields == [op : AllOps \cup {"none"}, step : Steps,
                  message : SUBSET Messages, clears : SUBSET Messages]

Uploads(r) == req[r].op = "upload"

Pending(r) == Uploads(r) /\ req[r].step \in {"put", "commit"}

(* Who has seen the row or what depends on it.                              *)
Touches(r) ==
    ~Uploads(r) /\ req[r].step \in {"check", "clear", "delete", "commit"}

(* The file is uploaded once, before anything else happens to it.           *)
UploadedOnce ==
    /\ \A r, q \in Requests : Uploads(r) /\ Uploads(q) => r = q
    /\ row # "none" \/ messages # {} \/ (\E r \in Requests : Touches(r)) =>
          /\ \E r \in Requests : Uploads(r)
          /\ \A r \in Requests : ~Pending(r)
    /\ blob # "none" => \E r \in Requests : Uploads(r) /\ req[r].step # "put"

(* The row is held by one request; a post has found it unbound, a deletion  *)
(* has removed the file, or failed to.                                      *)
HeldByOne ==
    /\ \A r, q \in Requests : HoldsRow(r) /\ HoldsRow(q) => r = q
    /\ \A r \in Requests :
          /\ req[r].step = "idle" <=> req[r].op = "none"
          /\ req[r].op \in {"upload", "post"} =>
                req[r].step \in {"put", "lock", "commit", "done", "refused"}
          /\ \A m, n \in req[r].message : m = n
          /\ At(r, "post", "commit") => row = "unbound"
          /\ HoldsRow(r) /\ req[r].op # "post" => blob = "none" \/ mishap

OneBinding ==
    /\ \A m, n \in bindings : m = n
    /\ bindings # {} => row = "bound"

(* A file without a row is one that is being uploaded, or one that a mishap *)
(* has left; an upload has stored all of it before it has a row.            *)
FilesHaveRows ==
    /\ blob # "none" /\ ~mishap /\ row = "none" =>
          \E r \in Requests : At(r, "upload", "commit")
    /\ blob = "part" => row = "none"
    /\ \A r \in Requests : At(r, "upload", "commit") => blob = "whole"

AttachmentInv ==
    AttachmentTypeOK /\ UploadedOnce /\ HeldByOne /\ OneBinding /\ FilesHaveRows

----------------------------------------------------------------------------

(* A request goes on to one of some steps; what it is about stays.          *)
Moved(r, steps) ==
    /\ req' \in [Requests -> RequestFields]
    /\ req'[r].step \in steps
    /\ \A q \in Requests :
          /\ q # r => req'[q] = req[q]
          /\ req'[q].op = req[q].op /\ req'[q].message = req[q].message

(* Goto moves a request, and nothing else. *)
LEMMA GotoMoves ==
  ASSUME req \in [Requests -> RequestFields], NEW r \in Requests, NEW step \in Steps, Goto(r, step)
  PROVE  Moved(r, {step})
  BY DEF Goto, RequestFields, Moved

IsDeletion(r) == req[r].op \in {"delete", "delete_message", "delete_room", "delete_account"}

(* Until the upload is there nobody touches the row, so it stays uploaded   *)
(* once whatever a request that does not upload goes on to do.              *)
LEMMA UploadedOnceStays ==
  ASSUME AttachmentInv, NEW r \in Requests, NEW steps, Moved(r, steps),
         ~Uploads(r), row' = row \/ row' = "none" \/ row # "none",
         messages' \subseteq messages \/ row # "none", blob' = blob \/ blob' = "none",
         Touches(r) \/ row # "none" \/ req'[r].step \in {"bare", "done", "refused"}
  PROVE  UploadedOnce'
<1>1. UploadedOnce
  BY DEF AttachmentInv
<1>2. \A q \in Requests : /\ Uploads(q)' <=> Uploads(q)
                          /\ Pending(q)' <=> Pending(q)
                          /\ Uploads(q) => req'[q] = req[q]
  BY DEF Moved, Uploads, Pending
<1>3. ASSUME NEW q \in Requests, Touches(q)' PROVE row # "none" \/ \E t \in Requests : Touches(t)
  <2>1. CASE q = r
    BY <1>3, <2>1 DEF Touches, Moved
  <2>2. CASE q # r
    BY <1>3, <2>2 DEF Moved, Uploads, Touches
  <2> QED
    BY <2>1, <2>2
<1>4. (\A t, q \in Requests : Uploads(t) /\ Uploads(q) => t = q)'
  BY <1>1, <1>2 DEF UploadedOnce
<1>5. row' # "none" \/ messages' # {} \/ (\E t \in Requests : Touches(t))'
        => row # "none" \/ messages # {} \/ \E t \in Requests : Touches(t)
  BY <1>3
<1>6. (row # "none" \/ messages # {} \/ (\E t \in Requests : Touches(t)) =>
          /\ \E t \in Requests : Uploads(t)
          /\ \A t \in Requests : ~Pending(t))'
  BY <1>1, <1>2, <1>5 DEF UploadedOnce
<1>7. (blob # "none" => \E t \in Requests : Uploads(t) /\ req[t].step # "put")'
  BY <1>1, <1>2 DEF UploadedOnce
<1> QED
  BY <1>4, <1>6, <1>7 DEF UploadedOnce

(* Nor does it change who has uploaded when the upload itself goes on.       *)
LEMMA UploaderGoesOn ==
  ASSUME AttachmentInv, NEW r \in Requests, NEW steps, Moved(r, steps), Uploads(r),
         UNCHANGED messages, row' = row \/ ~Pending(r)', Pending(r)' => Pending(r),
         req'[r].step # "put"
  PROVE  UploadedOnce'
<1>1. UploadedOnce
  BY DEF AttachmentInv
<1>2. \A q \in Requests : /\ Uploads(q)' <=> Uploads(q)
                          /\ Touches(q)' <=> Touches(q)
                          /\ q # r => (Pending(q)' <=> Pending(q))
  BY DEF Moved, Uploads, Pending, Touches
<1>3. (\A t, q \in Requests : Uploads(t) /\ Uploads(q) => t = q)'
  BY <1>1, <1>2 DEF UploadedOnce
<1>4. \A q \in Requests : Pending(q)' => q = r /\ row' = row /\ Pending(r)
  BY <1>1, <1>2 DEF UploadedOnce, Pending
<1>5. (row # "none" \/ messages # {} \/ (\E t \in Requests : Touches(t)) =>
          /\ \E t \in Requests : Uploads(t)
          /\ \A t \in Requests : ~Pending(t))'
  BY <1>1, <1>2, <1>4 DEF UploadedOnce
<1>6. (blob # "none" => \E t \in Requests : Uploads(t) /\ req[t].step # "put")'
  BY <1>2
<1> QED
  BY <1>3, <1>5, <1>6 DEF UploadedOnce

(* The file and then its row, or neither. *)
LEMMA UploadingKeepsInv ==
  ASSUME AttachmentInv, NEW r \in Requests, 
         UploadPut(r) \/ UploadPutFails(r) \/ UploadCommit(r) \/ UploadFails(r)
  PROVE  AttachmentInv'
<1>1. /\ AttachmentTypeOK /\ UploadedOnce /\ HeldByOne /\ OneBinding /\ FilesHaveRows
      /\ req \in [Requests -> RequestFields] /\ req[r] \in RequestFields
  BY DEF AttachmentInv, AttachmentTypeOK, RequestFields
<1> USE <1>1 DEF RequestFields, tables, At, HoldsRow
<1>2. CASE UploadPut(r)
  <2>1. Moved(r, {"commit"})
    BY <1>2, GotoMoves DEF UploadPut, Moved, Steps
  <2>2. AttachmentTypeOK'
    BY <1>2, <2>1 DEF UploadPut, Moved, AttachmentTypeOK, Rows, Blobs
  <2>3. UploadedOnce'
    BY <1>2, <2>1, UploaderGoesOn DEF UploadPut, Moved, Uploads, Pending
  <2>4. HeldByOne'
    BY <1>2, <2>1 DEF UploadPut, Moved, HeldByOne, UploadedOnce, Touches, Uploads, Pending
  <2>5. OneBinding'
    BY <1>2, <2>1 DEF UploadPut, Moved, OneBinding, HeldByOne, UploadedOnce, Touches, Uploads, Pending
  <2>6. FilesHaveRows'
    BY <1>2, <2>1 DEF UploadPut, Moved, FilesHaveRows, HeldByOne, UploadedOnce, Touches, Uploads, Pending
  <2> QED
    BY <2>2, <2>3, <2>4, <2>5, <2>6 DEF AttachmentInv
<1>3. CASE UploadCommit(r)
  <2>1. Moved(r, {"done"})
    BY <1>3, GotoMoves DEF UploadCommit, Moved, Steps
  <2>2. AttachmentTypeOK'
    BY <1>3, <2>1 DEF UploadCommit, Moved, AttachmentTypeOK, Rows, Blobs
  <2>3. UploadedOnce'
    BY <1>3, <2>1, UploaderGoesOn DEF UploadCommit, Moved, Uploads, Pending
  <2>4. HeldByOne'
    BY <1>3, <2>1 DEF UploadCommit, Moved, HeldByOne, UploadedOnce, Touches, Uploads, Pending
  <2>5. OneBinding'
    BY <1>3, <2>1 DEF UploadCommit, Moved, OneBinding, HeldByOne, UploadedOnce, Touches, Uploads, Pending
  <2>6. FilesHaveRows'
    BY <1>3, <2>1 DEF UploadCommit, Moved, FilesHaveRows, HeldByOne, UploadedOnce, Touches, Uploads, Pending
  <2> QED
    BY <2>2, <2>3, <2>4, <2>5, <2>6 DEF AttachmentInv
<1>4. CASE UploadFails(r)
  <2>1. Moved(r, {"refused"})
    BY <1>4, GotoMoves DEF UploadFails, Unlink, Moved, Steps
  <2>2. AttachmentTypeOK'
    BY <1>4, <2>1 DEF UploadFails, Unlink, Moved, AttachmentTypeOK, Rows, Blobs
  <2>3. UploadedOnce'
    BY <1>4, <2>1, UploaderGoesOn DEF UploadFails, Unlink, Moved, Uploads, Pending
  <2>4. HeldByOne'
    BY <1>4, <2>1 DEF UploadFails, Unlink, Moved, HeldByOne, UploadedOnce, Touches, Uploads, Pending
  <2>5. OneBinding'
    BY <1>4, <2>1 DEF UploadFails, Unlink, Moved, OneBinding, HeldByOne, UploadedOnce, Touches, Uploads, Pending
  <2>6. FilesHaveRows'
    BY <1>4, <2>1 DEF UploadFails, Unlink, Moved, FilesHaveRows, HeldByOne, UploadedOnce, Touches, Uploads, Pending
  <2> QED
    BY <2>2, <2>3, <2>4, <2>5, <2>6 DEF AttachmentInv
<1>5. CASE UploadPutFails(r)
  <2>1. Moved(r, {"refused"})
    BY <1>5, GotoMoves DEF UploadPutFails, Moved, Steps
  <2>2. AttachmentTypeOK'
    BY <1>5, <2>1 DEF UploadPutFails, Moved, AttachmentTypeOK, Rows, Blobs
  <2>3. UploadedOnce'
    BY <1>5, <2>1, UploaderGoesOn DEF UploadPutFails, Moved, Uploads, Pending
  <2>4. HeldByOne'
    BY <1>5, <2>1 DEF UploadPutFails, Moved, HeldByOne, UploadedOnce, Touches, Uploads, Pending
  <2>5. OneBinding'
    BY <1>5, <2>1 DEF UploadPutFails, Moved, OneBinding, HeldByOne, UploadedOnce, Touches, Uploads, Pending
  <2>6. FilesHaveRows'
    BY <1>5, <2>1 DEF UploadPutFails, Moved, FilesHaveRows, HeldByOne, UploadedOnce, Touches, Uploads, Pending
  <2> QED
    BY <2>2, <2>3, <2>4, <2>5, <2>6 DEF AttachmentInv
<1> QED
  BY <1>2, <1>3, <1>4, <1>5

(* The row is locked while it is unbound, and bound. *)
LEMMA PostingKeepsInv ==
  ASSUME AttachmentInv, NEW r \in Requests, PostLock(r) \/ PostToNoRoom(r) \/ PostCommit(r) PROVE AttachmentInv'
<1>1. /\ AttachmentTypeOK /\ UploadedOnce /\ HeldByOne /\ OneBinding /\ FilesHaveRows
      /\ req \in [Requests -> RequestFields] /\ req[r] \in RequestFields
  BY DEF AttachmentInv, AttachmentTypeOK, RequestFields
<1> USE <1>1 DEF RequestFields, tables, At, HoldsRow
<1>2. CASE PostLock(r)
  <2>1. Moved(r, {"commit", "refused"})
    BY <1>2, GotoMoves DEF PostLock, Moved, Steps
  <2>2. AttachmentTypeOK'
    BY <1>2, <2>1 DEF PostLock, Moved, AttachmentTypeOK, Rows, Blobs
  <2>3. UploadedOnce'
    <3>1. ~Uploads(r) /\ (Touches(r) \/ row # "none" \/ req'[r].step \in {"bare", "done", "refused"})
      BY <1>2, <2>1 DEF PostLock, HeldByOne, Uploads, Touches, IsDeletion, Moved, Goto
    <3>2. /\ row' = row \/ row' = "none" \/ row # "none"
          /\ messages' \subseteq messages \/ row # "none"
      BY <1>2 DEF PostLock, HeldByOne
    <3>3. blob' = blob \/ blob' = "none"
      BY <1>2 DEF PostLock
    <3> QED
      BY <2>1, <3>1, <3>2, <3>3, UploadedOnceStays
  <2>4. HeldByOne'
    <3>1. \A q \in Requests : q # r => ~HoldsRow(q)
      BY <1>2 DEF PostLock, RowFree
    <3>2. UNCHANGED <<row, blob>> /\ req[r].op = "post"
      BY <1>2 DEF PostLock
    <3>3. req'[r].step = "commit" => row = "unbound"
      BY <1>2 DEF PostLock, Goto
    <3>4. (\A t, q \in Requests : HoldsRow(t) /\ HoldsRow(q) => t = q)'
      BY <2>1, <3>1 DEF Moved
    <3>5. ASSUME NEW q \in Requests
          PROVE  /\ req'[q].step = "idle" <=> req'[q].op = "none"
                 /\ req'[q].op \in {"upload", "post"} =>
                       req'[q].step \in {"put", "lock", "commit", "done", "refused"}
                 /\ \A m, n \in req'[q].message : m = n
                 /\ At(q, "post", "commit")' => row' = "unbound"
                 /\ HoldsRow(q)' /\ req'[q].op # "post" => blob' = "none" \/ mishap'
      <4>1. CASE q = r
        BY <2>1, <3>2, <3>3, <4>1 DEF HeldByOne, Moved
      <4>2. CASE q # r
        BY <2>1, <3>1, <3>2, <4>2 DEF HeldByOne, Moved
      <4> QED
        BY <4>1, <4>2
    <3> QED
      BY <3>4, <3>5 DEF HeldByOne
  <2>5. OneBinding'
    BY <1>2, <2>1 DEF PostLock, Moved, OneBinding, HeldByOne, UploadedOnce, Touches, Uploads, Pending
  <2>6. FilesHaveRows'
    BY <1>2, <2>1 DEF PostLock, Moved, FilesHaveRows, HeldByOne, UploadedOnce, Touches, Uploads, Pending
  <2> QED
    BY <2>2, <2>3, <2>4, <2>5, <2>6 DEF AttachmentInv
<1>3. CASE PostToNoRoom(r)
  <2>1. Moved(r, {"refused"})
    BY <1>3, GotoMoves DEF PostToNoRoom, Moved, Steps
  <2>2. AttachmentTypeOK'
    BY <1>3, <2>1 DEF PostToNoRoom, Moved, AttachmentTypeOK, Rows, Blobs
  <2>3. UploadedOnce'
    <3>1. ~Uploads(r) /\ (Touches(r) \/ row # "none" \/ req'[r].step \in {"bare", "done", "refused"})
      BY <1>3, <2>1 DEF PostToNoRoom, HeldByOne, Uploads, Touches, IsDeletion, Moved, Goto
    <3>2. /\ row' = row \/ row' = "none" \/ row # "none"
          /\ messages' \subseteq messages \/ row # "none"
      BY <1>3 DEF PostToNoRoom, HeldByOne
    <3>3. blob' = blob \/ blob' = "none"
      BY <1>3 DEF PostToNoRoom
    <3> QED
      BY <2>1, <3>1, <3>2, <3>3, UploadedOnceStays
  <2>4. HeldByOne'
    BY <1>3, <2>1 DEF PostToNoRoom, Moved, HeldByOne, UploadedOnce, Touches, Uploads, Pending
  <2>5. OneBinding'
    BY <1>3, <2>1 DEF PostToNoRoom, Moved, OneBinding, HeldByOne, UploadedOnce, Touches, Uploads, Pending
  <2>6. FilesHaveRows'
    BY <1>3, <2>1 DEF PostToNoRoom, Moved, FilesHaveRows, HeldByOne, UploadedOnce, Touches, Uploads, Pending
  <2> QED
    BY <2>2, <2>3, <2>4, <2>5, <2>6 DEF AttachmentInv
<1>4. CASE PostCommit(r)
  <2>1. Moved(r, {"done"})
    BY <1>4, GotoMoves DEF PostCommit, Moved, Steps
  <2>2. AttachmentTypeOK'
    BY <1>4, <2>1 DEF PostCommit, Moved, AttachmentTypeOK, Rows, Blobs
  <2>3. UploadedOnce'
    <3>1. ~Uploads(r) /\ (Touches(r) \/ row # "none" \/ req'[r].step \in {"bare", "done", "refused"})
      BY <1>4, <2>1 DEF PostCommit, HeldByOne, Uploads, Touches, IsDeletion, Moved, Goto
    <3>2. /\ row' = row \/ row' = "none" \/ row # "none"
          /\ messages' \subseteq messages \/ row # "none"
      BY <1>4 DEF PostCommit, HeldByOne
    <3>3. blob' = blob \/ blob' = "none"
      BY <1>4 DEF PostCommit
    <3> QED
      BY <2>1, <3>1, <3>2, <3>3, UploadedOnceStays
  <2>4. HeldByOne'
    BY <1>4, <2>1 DEF PostCommit, Moved, HeldByOne, UploadedOnce, Touches, Uploads, Pending
  <2>5. OneBinding'
    <3>1. row = "unbound" /\ bindings = {}
      BY <1>4 DEF PostCommit, HeldByOne, OneBinding
    <3>2. row' = "bound" /\ bindings' = req[r].message
      BY <1>4, <3>1 DEF PostCommit
    <3> QED
      BY <3>2 DEF HeldByOne, OneBinding
  <2>6. FilesHaveRows'
    BY <1>4, <2>1 DEF PostCommit, Moved, FilesHaveRows, HeldByOne, UploadedOnce, Touches, Uploads, Pending
  <2> QED
    BY <2>2, <2>3, <2>4, <2>5, <2>6 DEF AttachmentInv
<1> QED
  BY <1>2, <1>3, <1>4

(* The file goes before the row, and both with the messages. *)
LEMMA DeletingKeepsInv ==
  ASSUME AttachmentInv, NEW r \in Requests,
         \/ DeleteRow(r) \/ DeleteMessageCheck(r) \/ DeleteAccountRestricted(r) \/ Interrupt(r)
         \/ \E gone \in SUBSET Messages :
               IsDeletion(r) /\ (CommitDeletion(r, gone) \/ CommitBare(r, gone))
  PROVE AttachmentInv'
<1>1. /\ AttachmentTypeOK /\ UploadedOnce /\ HeldByOne /\ OneBinding /\ FilesHaveRows
      /\ req \in [Requests -> RequestFields] /\ req[r] \in RequestFields
  BY DEF AttachmentInv, AttachmentTypeOK, RequestFields
<1> USE <1>1 DEF RequestFields, tables, At, HoldsRow
<1>2. CASE DeleteRow(r)
  <2>1. Moved(r, {"commit"})
    BY <1>2, GotoMoves DEF DeleteRow, Unlink, Moved, Steps
  <2>2. AttachmentTypeOK'
    BY <1>2, <2>1 DEF DeleteRow, Unlink, Moved, AttachmentTypeOK, Rows, Blobs
  <2>3. UploadedOnce'
    <3>1. ~Uploads(r) /\ (Touches(r) \/ row # "none" \/ req'[r].step \in {"bare", "done", "refused"})
      BY <1>2, <2>1 DEF DeleteRow, Unlink, HeldByOne, Uploads, Touches, IsDeletion, Moved, Goto
    <3>2. /\ row' = row \/ row' = "none" \/ row # "none"
          /\ messages' \subseteq messages \/ row # "none"
      BY <1>2 DEF DeleteRow, Unlink, HeldByOne
    <3>3. blob' = blob \/ blob' = "none"
      BY <1>2 DEF DeleteRow, Unlink
    <3> QED
      BY <2>1, <3>1, <3>2, <3>3, UploadedOnceStays
  <2>4. HeldByOne'
    <3>1. \A q \in Requests : q # r => ~HoldsRow(q)
      BY <1>2 DEF DeleteRow, Unlink, RowFree
    <3>2. UNCHANGED row /\ (blob' = "none" \/ mishap') /\ req[r].step = "delete" /\ req'[r].step = "commit"
      BY <1>2, <2>1 DEF DeleteRow, Unlink, Moved
    <3>3. (\A t, q \in Requests : HoldsRow(t) /\ HoldsRow(q) => t = q)'
      BY <2>1, <3>1 DEF Moved
    <3> QED
      BY <2>1, <3>1, <3>2, <3>3 DEF HeldByOne, Moved
  <2>5. OneBinding'
    BY <1>2, <2>1 DEF DeleteRow, Unlink, Moved, OneBinding, HeldByOne, UploadedOnce, Touches, Uploads, Pending
  <2>6. FilesHaveRows'
    BY <1>2, <2>1 DEF DeleteRow, Unlink, Moved, FilesHaveRows, HeldByOne, UploadedOnce, Touches, Uploads, Pending
  <2> QED
    BY <2>2, <2>3, <2>4, <2>5, <2>6 DEF AttachmentInv
<1>3. CASE DeleteMessageCheck(r)
  <2>1. Moved(r, {"refused","clear","bare"})
    BY <1>3, GotoMoves DEF DeleteMessageCheck, Moved, Steps
  <2>2. AttachmentTypeOK'
    BY <1>3, <2>1 DEF DeleteMessageCheck, Moved, AttachmentTypeOK, Rows, Blobs
  <2>3. UploadedOnce'
    <3>1. ~Uploads(r) /\ (Touches(r) \/ row # "none" \/ req'[r].step \in {"bare", "done", "refused"})
      BY <1>3, <2>1 DEF DeleteMessageCheck, HeldByOne, Uploads, Touches, IsDeletion, Moved, Goto
    <3>2. /\ row' = row \/ row' = "none" \/ row # "none"
          /\ messages' \subseteq messages \/ row # "none"
      BY <1>3 DEF DeleteMessageCheck, HeldByOne
    <3>3. blob' = blob \/ blob' = "none"
      BY <1>3 DEF DeleteMessageCheck
    <3> QED
      BY <2>1, <3>1, <3>2, <3>3, UploadedOnceStays
  <2>4. HeldByOne'
    BY <1>3, <2>1 DEF DeleteMessageCheck, Moved, HeldByOne, UploadedOnce, Touches, Uploads, Pending
  <2>5. OneBinding'
    BY <1>3, <2>1 DEF DeleteMessageCheck, Moved, OneBinding, HeldByOne, UploadedOnce, Touches, Uploads, Pending
  <2>6. FilesHaveRows'
    BY <1>3, <2>1 DEF DeleteMessageCheck, Moved, FilesHaveRows, HeldByOne, UploadedOnce, Touches, Uploads, Pending
  <2> QED
    BY <2>2, <2>3, <2>4, <2>5, <2>6 DEF AttachmentInv
<1>4. ASSUME NEW gone \in SUBSET Messages, IsDeletion(r), CommitDeletion(r, gone) PROVE AttachmentInv'
  <2>1. Moved(r, {"done","refused"})
    BY <1>4, GotoMoves DEF CommitDeletion, Unreferenced, Moved, Steps
  <2>2. AttachmentTypeOK'
    BY <1>4, <2>1 DEF CommitDeletion, Unreferenced, Moved, AttachmentTypeOK, Rows, Blobs
  <2>3. UploadedOnce'
    <3>1. req[r].step = "commit" /\ UNCHANGED blob
      BY <1>4 DEF CommitDeletion
    <3>2. ~Uploads(r) /\ Touches(r)
      BY <1>4, <3>1 DEF IsDeletion, Uploads, Touches
    <3>3. (row' = row \/ row' = "none") /\ messages' \subseteq messages
      BY <1>4 DEF CommitDeletion
    <3> QED
      BY <2>1, <3>1, <3>2, <3>3, UploadedOnceStays
  <2>4. HeldByOne'
    BY <1>4, <2>1 DEF CommitDeletion, Unreferenced, Moved, HeldByOne, UploadedOnce, Touches, Uploads, Pending
  <2>5. OneBinding'
    BY <1>4, <2>1 DEF CommitDeletion, Unreferenced, Moved, OneBinding, HeldByOne, UploadedOnce, Touches, Uploads, Pending
  <2>6. FilesHaveRows'
    <3>1. req[r].step = "commit" /\ UNCHANGED blob
      BY <1>4 DEF CommitDeletion
    <3>2. UNCHANGED mishap /\ (blob = "none" \/ mishap) /\ (row' = row \/ row' = "none")
      BY <1>4, <3>1 DEF CommitDeletion, IsDeletion, HeldByOne
    <3>3. \A q \in Requests : At(q, "upload", "commit")' => At(q, "upload", "commit")
      BY <2>1 DEF Moved
    <3> QED
      BY <3>1, <3>2, <3>3 DEF FilesHaveRows
  <2> QED
    BY <2>2, <2>3, <2>4, <2>5, <2>6 DEF AttachmentInv
<1>5. ASSUME NEW gone \in SUBSET Messages, IsDeletion(r), CommitBare(r, gone) PROVE AttachmentInv'
  <2>1. Moved(r, {"done"})
    BY <1>5, GotoMoves DEF CommitBare, Moved, Steps
  <2>2. AttachmentTypeOK'
    BY <1>5, <2>1 DEF CommitBare, Moved, AttachmentTypeOK, Rows, Blobs
  <2>3. UploadedOnce'
    <3>1. ~Uploads(r) /\ (Touches(r) \/ row # "none" \/ req'[r].step \in {"bare", "done", "refused"})
      BY <1>5, <2>1 DEF CommitBare, HeldByOne, Uploads, Touches, IsDeletion, Moved, Goto
    <3>2. /\ row' = row \/ row' = "none" \/ row # "none"
          /\ messages' \subseteq messages \/ row # "none"
      BY <1>5 DEF CommitBare, HeldByOne
    <3>3. blob' = blob \/ blob' = "none"
      BY <1>5 DEF CommitBare
    <3> QED
      BY <2>1, <3>1, <3>2, <3>3, UploadedOnceStays
  <2>4. HeldByOne'
    BY <1>5, <2>1 DEF CommitBare, Moved, HeldByOne, UploadedOnce, Touches, Uploads, Pending
  <2>5. OneBinding'
    BY <1>5, <2>1 DEF CommitBare, Moved, OneBinding, HeldByOne, UploadedOnce, Touches, Uploads, Pending
  <2>6. FilesHaveRows'
    BY <1>5, <2>1 DEF CommitBare, Moved, FilesHaveRows, HeldByOne, UploadedOnce, Touches, Uploads, Pending
  <2> QED
    BY <2>2, <2>3, <2>4, <2>5, <2>6 DEF AttachmentInv
<1>6. CASE DeleteAccountRestricted(r)
  <2>1. Moved(r, {"refused"})
    BY <1>6, GotoMoves DEF DeleteAccountRestricted, Moved, Steps
  <2>2. AttachmentTypeOK'
    BY <1>6, <2>1 DEF DeleteAccountRestricted, Moved, AttachmentTypeOK, Rows, Blobs
  <2>3. UploadedOnce'
    <3>1. ~Uploads(r) /\ (Touches(r) \/ row # "none" \/ req'[r].step \in {"bare", "done", "refused"})
      BY <1>6, <2>1 DEF DeleteAccountRestricted, HeldByOne, Uploads, Touches, IsDeletion, Moved, Goto
    <3>2. /\ row' = row \/ row' = "none" \/ row # "none"
          /\ messages' \subseteq messages \/ row # "none"
      BY <1>6 DEF DeleteAccountRestricted, HeldByOne
    <3>3. blob' = blob \/ blob' = "none"
      BY <1>6 DEF DeleteAccountRestricted
    <3> QED
      BY <2>1, <3>1, <3>2, <3>3, UploadedOnceStays
  <2>4. HeldByOne'
    BY <1>6, <2>1 DEF DeleteAccountRestricted, Moved, HeldByOne, UploadedOnce, Touches, Uploads, Pending
  <2>5. OneBinding'
    BY <1>6, <2>1 DEF DeleteAccountRestricted, Moved, OneBinding, HeldByOne, UploadedOnce, Touches, Uploads, Pending
  <2>6. FilesHaveRows'
    BY <1>6, <2>1 DEF DeleteAccountRestricted, Moved, FilesHaveRows, HeldByOne, UploadedOnce, Touches, Uploads, Pending
  <2> QED
    BY <2>2, <2>3, <2>4, <2>5, <2>6 DEF AttachmentInv
<1>7. CASE Interrupt(r)
  <2>1. Moved(r, {"refused"})
    BY <1>7, GotoMoves DEF Interrupt, Moved, Steps
  <2>2. /\ UNCHANGED <<row, messages, bindings>>
        /\ req'[r].step = "refused" /\ req[r].step # "idle"
        /\ blob' \in Blobs
        /\ ~At(r, "upload", "put") => blob' = blob
    BY <1>7, <2>1 DEF Interrupt, Moved, InFlight, AttachmentTypeOK
  <2>3. mishap' \in BOOLEAN /\ (mishap => mishap') /\ (Uploads(r) /\ blob' # "none" => mishap')
    BY <1>7, Zenon DEF Interrupt, Uploads
  <2>4. AttachmentTypeOK'
    BY <2>1, <2>2, <2>3 DEF Moved, AttachmentTypeOK
  <2>5. UploadedOnce'
    <3>1. CASE Uploads(r)
      BY <2>1, <2>2, <3>1, UploaderGoesOn DEF Pending
    <3>2. CASE ~Uploads(r)
      BY <2>1, <2>2, <3>2, UploadedOnceStays DEF Uploads
    <3> QED
      BY <3>1, <3>2
  <2>6. At(r, "upload", "put") => row = "none" /\ \A q \in Requests : ~Touches(q)
    BY DEF UploadedOnce, Uploads, Pending
  <2>7. HeldByOne'
    <3>1. \A q \in Requests : HoldsRow(q)' => HoldsRow(q) /\ req'[q] = req[q]
      BY <2>1, <2>2 DEF Moved
    <3>2. \A q \in Requests : HoldsRow(q)' /\ req[q].op # "post" => blob' = "none" \/ mishap'
      BY <2>2, <2>3, <2>6, <3>1 DEF HeldByOne, Touches, Uploads
    <3>3. \A q \in Requests : q # r => req'[q] = req[q]
      BY <2>1 DEF Moved
    <3> QED
      BY <2>1, <2>2, <3>1, <3>2, <3>3 DEF HeldByOne, Moved
  <2>8. OneBinding'
    BY <2>2 DEF OneBinding
  <2>9. FilesHaveRows'
    <3>1. \A q \in Requests : At(q, "upload", "commit")' <=> q # r /\ At(q, "upload", "commit")
      BY <2>1, <2>2 DEF Moved
    <3>2. At(r, "upload", "commit") => Uploads(r) /\ blob' = blob
      BY <2>2 DEF Uploads
    <3>3. At(r, "upload", "put") => \A q \in Requests : ~At(q, "upload", "commit")'
      BY <3>1 DEF UploadedOnce, Uploads
    <3>4. CASE At(r, "upload", "put")
      BY <2>2, <2>3, <2>6, <3>3, <3>4 DEF FilesHaveRows, Uploads
    <3>5. CASE ~At(r, "upload", "put")
      BY <2>2, <2>3, <3>1, <3>2, <3>5 DEF FilesHaveRows
    <3> QED
      BY <3>4, <3>5
  <2> QED
    BY <2>9, <2>4, <2>5, <2>7, <2>8 DEF AttachmentInv
<1> QED
  BY <1>2, <1>3, <1>4, <1>5, <1>6, <1>7

(* A request arrives that does not upload.                                  *)
LEMMA ArrivingKeepsInv ==
  ASSUME AttachmentInv, NEW r \in Requests, NEW kind \in AllOps \ {"upload"},
         NEW ms \in SUBSET Messages, \A m, n \in ms : m = n, NEW step \in {"lock", "bare", "clear", "check"},
         Begin(r, kind, ms, step), UNCHANGED <<tables, blob, mishap>>,
         kind = "post" => step = "lock",
         step \in {"clear", "check"} => row # "none" \/ messages # {}
  PROVE  AttachmentInv'
<1>1. /\ AttachmentTypeOK /\ UploadedOnce /\ HeldByOne /\ OneBinding /\ FilesHaveRows
  BY DEF AttachmentInv
<1>2. /\ req[r].step = "idle" /\ req[r].op = "none"
      /\ req' \in [Requests -> RequestFields]
      /\ req'[r].op = kind /\ req'[r].step = step /\ req'[r].message = ms
      /\ \A q \in Requests : q # r => req'[q] = req[q]
  BY <1>1 DEF Begin, Idle, AttachmentTypeOK, RequestFields, HeldByOne, Steps
<1>3. AttachmentTypeOK'
  BY <1>1, <1>2 DEF AttachmentTypeOK, RequestFields, tables
<1>4. \A q \in Requests : /\ Uploads(q)' <=> Uploads(q)
                          /\ Pending(q)' <=> Pending(q)
                          /\ Uploads(q) => req'[q] = req[q]
                          /\ HoldsRow(q)' => HoldsRow(q) /\ q # r
                          /\ Touches(q)' => Touches(q) \/ row # "none" \/ messages # {}
  BY <1>2 DEF Uploads, Pending, HoldsRow, Touches
<1>5. UploadedOnce'
  <2>1. (\A t, q \in Requests : Uploads(t) /\ Uploads(q) => t = q)'
    BY <1>1, <1>4 DEF UploadedOnce
  <2>2. (row # "none" \/ messages # {} \/ (\E t \in Requests : Touches(t)) =>
          /\ \E t \in Requests : Uploads(t)
          /\ \A t \in Requests : ~Pending(t))'
    BY <1>1, <1>4 DEF UploadedOnce, tables
  <2>3. (blob # "none" => \E t \in Requests : Uploads(t) /\ req[t].step # "put")'
    BY <1>1, <1>4 DEF UploadedOnce
  <2> QED
    BY <2>1, <2>2, <2>3 DEF UploadedOnce
<1>6. HeldByOne'
  <2>1. (\A t, q \in Requests : HoldsRow(t) /\ HoldsRow(q) => t = q)'
    BY <1>1, <1>4 DEF HeldByOne
  <2>2. ASSUME NEW q \in Requests
        PROVE  /\ req'[q].step = "idle" <=> req'[q].op = "none"
               /\ req'[q].op \in {"upload", "post"} =>
                     req'[q].step \in {"put", "lock", "commit", "done", "refused"}
               /\ \A m, n \in req'[q].message : m = n
               /\ At(q, "post", "commit")' => row = "unbound"
               /\ HoldsRow(q)' /\ req'[q].op # "post" => blob = "none" \/ mishap
    <3>1. CASE q = r
      BY <1>2, <1>4, <3>1 DEF At, AllOps
    <3>2. CASE q # r
      BY <1>1, <1>2, <1>4, <3>2 DEF HeldByOne, At
    <3> QED
      BY <3>1, <3>2
  <2>3. UNCHANGED <<row, blob>>
    BY DEF tables
  <2> QED
    BY <2>1, <2>2, <2>3 DEF HeldByOne, At
<1>7. OneBinding'
  BY <1>1 DEF OneBinding, tables
<1>8. FilesHaveRows'
  BY <1>1, <1>2, Zenon DEF FilesHaveRows, At, tables
<1> QED
  BY <1>3, <1>5, <1>6, <1>7, <1>8 DEF AttachmentInv

(* The one upload begins.                                                   *)
LEMMA UploadKeepsInv ==
  ASSUME AttachmentInv, NEW r \in Requests, Upload(r) PROVE AttachmentInv'
<1>1. /\ AttachmentTypeOK /\ UploadedOnce /\ HeldByOne /\ OneBinding /\ FilesHaveRows
  BY DEF AttachmentInv
<1>2. /\ req[r].step = "idle" /\ \A q \in Requests : ~Uploads(q)
      /\ req' \in [Requests -> RequestFields]
      /\ req'[r].op = "upload" /\ req'[r].step = "put" /\ req'[r].message = {}
      /\ \A q \in Requests : q # r => req'[q] = req[q]
  BY <1>1 DEF Upload, Begin, Idle, AttachmentTypeOK, RequestFields, Steps, AllOps, Uploads
<1>3. UNCHANGED <<tables, blob, mishap>>
  BY DEF Upload
<1>4. /\ row = "none" /\ messages = {} /\ \A q \in Requests : ~Touches(q)
      /\ blob = "none"
  BY <1>1, <1>2 DEF UploadedOnce
<1>5. AttachmentTypeOK'
  BY <1>1, <1>2, <1>3 DEF AttachmentTypeOK, RequestFields, tables
<1>6. \A q \in Requests : /\ HoldsRow(q)' => HoldsRow(q) /\ q # r
                          /\ ~Touches(q)'
  BY <1>2, <1>4 DEF HoldsRow, Touches, Uploads
<1>7. UploadedOnce'
  BY <1>2, <1>3, <1>4, <1>6 DEF UploadedOnce, Uploads, tables
<1>8. HeldByOne'
  BY <1>1, <1>2, <1>3, <1>6 DEF HeldByOne, At, tables
<1>9. OneBinding' /\ FilesHaveRows'
  BY <1>1, <1>2, <1>3, <1>4 DEF OneBinding, FilesHaveRows, Uploads, At, tables
<1> QED
  BY <1>5, <1>7, <1>8, <1>9 DEF AttachmentInv

(* A deletion looks which bindings it is to take along.                     *)
LEMMA ClearingKeepsInv ==
  ASSUME AttachmentInv, NEW r \in Requests, ClearBindings(r) PROVE AttachmentInv'
<1>1. /\ AttachmentTypeOK /\ UploadedOnce /\ HeldByOne /\ OneBinding /\ FilesHaveRows
      /\ req \in [Requests -> RequestFields] /\ req[r] \in RequestFields
  BY DEF AttachmentInv, AttachmentTypeOK, RequestFields
<1> USE <1>1 DEF RequestFields, tables, At, HoldsRow
<1>2. Moved(r, {"delete"})
  BY DEF ClearBindings, Moved, Steps, AttachmentTypeOK
<1>3. UNCHANGED <<row, messages, bindings, blob, mishap>> /\ req[r].step = "clear"
  BY DEF ClearBindings
<1>4. AttachmentTypeOK'
  BY <1>2, <1>3 DEF AttachmentTypeOK, Moved
<1>5. UploadedOnce'
  <2>1. ~Uploads(r) /\ Touches(r)
    BY <1>3 DEF HeldByOne, Uploads, Touches
  <2> QED
    BY <1>2, <1>3, <2>1, UploadedOnceStays
<1>6. HeldByOne'
  BY <1>2, <1>3 DEF HeldByOne, Moved
<1>7. OneBinding' /\ FilesHaveRows'
  BY <1>2, <1>3 DEF OneBinding, FilesHaveRows, Moved
<1> QED
  BY <1>4, <1>5, <1>6, <1>7 DEF AttachmentInv

(* Nothing is uploaded yet in the initial state.                            *)
LEMMA InitEstablishesAttachmentInv == Init => AttachmentInv
<1> SUFFICES ASSUME Init PROVE AttachmentInv
  OBVIOUS
<1>1. \A r \in Requests : /\ req[r] = Idle /\ Idle.op = "none" /\ Idle.step = "idle"
                          /\ Idle.message = {} /\ Idle.clears = {}
  BY DEF Init, Idle
<1>2. AttachmentTypeOK
  BY DEF Init, AttachmentTypeOK, Idle, Rows, Blobs, Steps
<1>3. row = "none" /\ blob = "none" /\ messages = {} /\ bindings = {}
  BY DEF Init
<1>4. UploadedOnce /\ HeldByOne
  BY <1>1, <1>3 DEF UploadedOnce, HeldByOne, Uploads, Pending, Touches, HoldsRow, At
<1> QED
  BY <1>1, <1>2, <1>3, <1>4 DEF AttachmentInv, OneBinding, FilesHaveRows, At

(* Every step keeps the invariant.                                          *)
LEMMA NextKeepsAttachmentInv == AttachmentInv /\ [Next]_avars => AttachmentInv'
<1> SUFFICES ASSUME AttachmentInv, [Next]_avars PROVE AttachmentInv'
  OBVIOUS
<1>1. /\ AttachmentTypeOK /\ OneBinding /\ HeldByOne
      /\ bindings \subseteq messages /\ messages \subseteq Messages
      /\ \A r \in Requests : req[r].message \subseteq Messages
  BY DEF AttachmentInv, AttachmentTypeOK
<1>2. ASSUME NEW r \in Requests, Uploading(r) \/ Posting(r) \/ Deleting(r) \/ Interrupt(r)
      PROVE  AttachmentInv'
  <2>1. CASE Uploading(r)
    BY <2>1, UploadKeepsInv, UploadingKeepsInv DEF Uploading
  <2>2. ASSUME NEW m \in Messages, Post(r, m) PROVE AttachmentInv'
    BY <2>2, ArrivingKeepsInv DEF Post, AllOps
  <2>3. CASE Posting(r)
    BY <2>2, <2>3, PostingKeepsInv DEF Posting
  <2>4. CASE Delete(r)
    BY <2>4, ArrivingKeepsInv DEF Delete, AllOps
  <2>5. ASSUME NEW m \in Messages, DeleteMessage(r, m) PROVE AttachmentInv'
    BY <2>5, ArrivingKeepsInv DEF DeleteMessage, AllOps
  <2>6. CASE DeleteRoom(r)
    <3>1. CASE bindings \cap Foreign = {}
      BY <2>6, <3>1, ArrivingKeepsInv DEF DeleteRoom, AllOps
    <3>2. CASE bindings \cap Foreign # {}
      <4>1. row # "none"
        BY <1>1, <3>2 DEF OneBinding
      <4> QED
        BY <2>6, <3>2, <4>1, ArrivingKeepsInv DEF DeleteRoom, AllOps
    <3> QED
      BY <3>1, <3>2
  <2>7. CASE DeleteAccount(r)
    BY <2>7, ArrivingKeepsInv DEF DeleteAccount, AllOps
  <2>8. CASE DeleteCommit(r) \/ DeleteMessageCommit(r) \/ DeleteRoomCommit(r) \/ DeleteAccountCommit(r)
    <3>1. IsDeletion(r) /\ \E gone \in SUBSET Messages : CommitDeletion(r, gone)
      BY <1>1, <2>8 DEF DeleteCommit, DeleteMessageCommit, DeleteRoomCommit, DeleteAccountCommit, IsDeletion
    <3> QED
      BY <3>1, DeletingKeepsInv
  <2>9. CASE DeleteBareMessage(r) \/ DeleteBareRoom(r)
    <3>1. IsDeletion(r) /\ \E gone \in SUBSET Messages : CommitBare(r, gone)
      BY <1>1, <2>9 DEF DeleteBareMessage, DeleteBareRoom, IsDeletion
    <3> QED
      BY <3>1, DeletingKeepsInv
  <2>10. CASE Deleting(r)
    BY <1>1, <2>4, <2>5, <2>6, <2>7, <2>8, <2>9, <2>10, ClearingKeepsInv, DeletingKeepsInv DEF Deleting
  <2> QED
    BY <1>2, <2>1, <2>3, <2>10, DeletingKeepsInv
<1>3. CASE UNCHANGED avars
  BY <1>3 DEF avars, tables, AttachmentInv, AttachmentTypeOK, UploadedOnce, HeldByOne, OneBinding,
     FilesHaveRows, Uploads, Pending, Touches, HoldsRow, At
<1> QED
  BY <1>2, <1>3 DEF Next, Rest

(* The invariant holds of every reachable state. *)
THEOREM AttachmentInvariant == Spec => []AttachmentInv
  BY InitEstablishesAttachmentInv, NextKeepsAttachmentInv, PTL DEF Spec

(* A file belongs to one message at most, and then its row says so. *)
THEOREM BindingsAreExclusive == Spec => []BoundToOneMessage
<1>1. OneBinding => BoundToOneMessage
  <2> SUFFICES ASSUME OneBinding PROVE BoundToOneMessage
    OBVIOUS
  <2>1. CASE bindings = {}
    BY <2>1, FS_EmptySet DEF OneBinding, BoundToOneMessage
  <2>2. CASE bindings # {}
    <3>1. PICK m \in bindings : bindings = {m}
      BY <2>2 DEF OneBinding
    <3>2. Cardinality({m}) = 1
      BY FS_Singleton
    <3>3. Cardinality(bindings) = 1
      BY <3>1, <3>2
    <3> QED
      BY <2>2, <3>3 DEF OneBinding, BoundToOneMessage
  <2> QED
    BY <2>1, <2>2
<1> QED
  BY <1>1, AttachmentInvariant, PTL DEF AttachmentInv

(* Once all requests are through, a file without a row is one that an       *)
(* upload left that ended before its commit, or an unlink that failed; and  *)
(* no row is about half a file.                                             *)
THEOREM NoOtherLeaks == Spec => []OnlyMishapsLeak
<1>1. FilesHaveRows => OnlyMishapsLeak
  BY DEF FilesHaveRows, OnlyMishapsLeak, Quiet, InFlight, At, Answered
<1> QED
  BY <1>1, AttachmentInvariant, PTL DEF AttachmentInv

----------------------------------------------------------------------------
(***************************************************************************)
(* That the two storages, the fallback and the restarting backfill keep    *)
(* the promise of one storage, with and without a backfill by hand and     *)
(* with copies that may come out short or not.                             *)
(*                                                                         *)
(* The refinement needs to know what the places hold at every step of the  *)
(* requests: that whoever copies has found the whole file in the directory *)
(* and nothing in the store, and that it is still so unless a deletion has  *)
(* come between, which is then marked as spared.                           *)
(***************************************************************************)

(* Who runs: nobody in a container that is down, and no upload beside the   *)
(* backfill.                                                                *)
Exclusion ==
    /\ server = "down" => op = "idle" /\ job = "none" /\ download = "idle"
    /\ hasRow => used
    /\ op \in {"writing", "record"} => ~hasRow /\ used
    /\ op \in {"writing", "record"} \/ (op = "erase" /\ ~hasRow) => download = "idle" /\ job = "none"
    /\ op \in {"eraseLegacy", "forget"} => hasRow
    /\ job # "none" => used /\ backend = "s3"
    /\ job # "none" /\ BeingErased => spared
    /\ download # "idle" => used
    /\ download = "object" => backend = "s3"

(* What the places hold at each step of an upload or a deletion.            *)
PlacesOfRequests ==
    /\ backend = "filesystem" => object = "none"
    /\ op = "writing" => backend = "filesystem"
    /\ ~used => object = "none" /\ legacy = "none"
    /\ op = "record" => Content = "whole" /\ (object # "none" => legacy = "none")
    /\ op = "eraseLegacy" => backend = "s3" /\ (object = "none" \/ spared)
    /\ op = "forget" => spared \/ (object = "none" /\ legacy = "none")
    /\ hasRow /\ object # "none" => legacy # "short"

(* What they hold at each step of the backfill.                             *)
PlacesOfBackfill ==
    /\ job \in {"source", "upload"} => object = "none"
    /\ job \in {"upload", "measure", "undo"} => legacy = "whole" \/ (spared /\ legacy = "none")
    /\ job = "measure" => object # "none" \/ spared
    /\ job = "undo" => object = "short" \/ (spared /\ object = "none")
    /\ ShortCopiesAreUndone

(* What a download may rely on until the file has not been all there.       *)
DownloadSees ==
    /\ download # "idle" /\ ~vanished => Content = "whole" /\ ~BeingErased
    /\ download \in {"legacy", "opening"} /\ ~vanished => legacy = "whole"
    /\ DownloadsFindTheFile

StorageInv ==
    StorageTypeOK /\ Exclusion /\ PlacesOfRequests /\ PlacesOfBackfill /\ DownloadSees

(* A new or an old installation satisfies it. *)
LEMMA InitEstablishesStorageInv == StorageInit => StorageInv
<1> SUFFICES ASSUME StorageInit PROVE StorageInv
  OBVIOUS
<1>1. StorageTypeOK /\ (hasRow => used)
  BY ZenonT(30) DEF StorageInit, StorageTypeOK, Contents, OpSteps, JobSteps, Downloads
<1> QED
  BY <1>1 DEF StorageInit, StorageInv, Exclusion, PlacesOfRequests, PlacesOfBackfill,
     DownloadSees, ShortCopiesAreUndone, DownloadsFindTheFile, Content, Contents, BeingErased

(* A stop forgets who was at work, and remembers a copy that was not checked. *)
LEMMA StopPreservesStorageInv == StorageInv /\ Stop => StorageInv'
<1> SUFFICES ASSUME StorageInv, Stop PROVE StorageInv'
  OBVIOUS
<1>1. unchecked' \in BOOLEAN
  BY ZenonT(30) DEF Stop, StorageInv, StorageTypeOK
<1>2. job = "measure" \/ job = "undo" \/ unchecked => unchecked'
  BY Zenon DEF Stop
<1>3. /\ server' = "down" /\ op' = "idle" /\ job' = "none" /\ download' = "idle"
      /\ vanished' = FALSE
      /\ UNCHANGED <<backend, hasRow, places, used, spared>>
  BY DEF Stop
<1>4. ShortCopiesAreUndone'
  BY <1>2, <1>3, Zenon DEF StorageInv, PlacesOfBackfill, ShortCopiesAreUndone, places
<1>5. StorageTypeOK'
  BY <1>1, <1>3 DEF StorageInv, StorageTypeOK, Contents, OpSteps, JobSteps, Downloads, places
<1>6. Exclusion' /\ PlacesOfRequests' /\ DownloadSees'
  BY <1>3 DEF StorageInv, StorageTypeOK, Exclusion, PlacesOfRequests, DownloadSees,
     DownloadsFindTheFile, Content, Contents, BeingErased, places
<1>7. PlacesOfBackfill'
  BY <1>3, <1>4 DEF StorageInv, PlacesOfBackfill, places
<1> QED
  BY <1>5, <1>6, <1>7 DEF StorageInv

(* The row is recorded over a file that is all there. *)
LEMMA RecordPreservesStorageInv == StorageInv /\ Record => StorageInv'
<1> SUFFICES ASSUME StorageInv, Record PROVE StorageInv'
  OBVIOUS
<1>1. hasRow' /\ hasRow' \in BOOLEAN
  BY Zenon DEF Record
<1>2. /\ op = "record" /\ op' = "idle"
      /\ UNCHANGED <<backend, server, object, legacy, used, job, download, unchecked, spared, vanished>>
  BY DEF Record, places
<1>3. Content' = Content
  BY <1>2 DEF Content
<1>4. StorageTypeOK'
  BY <1>1, <1>2 DEF StorageInv, StorageTypeOK, Contents, OpSteps, JobSteps, Downloads
<1>5. /\ used /\ job = "none" /\ Content = "whole"
      /\ backend = "filesystem" => object = "none"
      /\ object # "none" => legacy = "none"
  BY <1>2 DEF StorageInv, StorageTypeOK, Exclusion, PlacesOfRequests
<1>6. download = "idle"
  BY <1>2 DEF StorageInv, Exclusion
<1>7. Exclusion' /\ PlacesOfRequests'
  BY <1>1, <1>2, <1>5, <1>6 DEF StorageInv, Exclusion, PlacesOfRequests, Content, BeingErased
<1>8. PlacesOfBackfill'
  BY <1>2, <1>5 DEF StorageInv, PlacesOfBackfill, ShortCopiesAreUndone
<1>9. DownloadSees'
  BY <1>2, <1>3 DEF StorageInv, DownloadSees, DownloadsFindTheFile, BeingErased
<1> QED
  BY <1>4, <1>7, <1>8, <1>9 DEF StorageInv

(* A deletion begins, beside a copy or not. *)
LEMMA DeleteBlobPreservesStorageInv == StorageInv /\ DeleteBlob => StorageInv'
<1> SUFFICES ASSUME StorageInv, DeleteBlob PROVE StorageInv'
  OBVIOUS
<1>1. (job # "none" <=> spared') /\ spared' \in BOOLEAN
  BY Zenon DEF DeleteBlob, Copying
<1>2. (download # "idle" <=> vanished') /\ vanished' \in BOOLEAN
  BY Zenon DEF DeleteBlob
<1>3. /\ op = "idle" /\ op' = "erase" /\ hasRow /\ server = "up"
      /\ UNCHANGED <<backend, server, hasRow, object, legacy, used, job, download, unchecked>>
  BY DEF DeleteBlob, places, Up
<1>4. StorageTypeOK'
  BY <1>1, <1>2, <1>3 DEF StorageInv, StorageTypeOK, OpSteps
<1>5. Exclusion' /\ PlacesOfRequests'
  BY <1>1, <1>3 DEF StorageInv, Exclusion, PlacesOfRequests, BeingErased
<1>6. PlacesOfBackfill'
  BY <1>1, <1>3 DEF StorageInv, PlacesOfBackfill, ShortCopiesAreUndone
<1>7. DownloadSees'
  BY <1>2, <1>3 DEF StorageInv, DownloadSees, DownloadsFindTheFile
<1> QED
  BY <1>4, <1>5, <1>6, <1>7 DEF StorageInv

(* An erasure takes from one place, and moves on or is done. *)
LEMMA ErasePreservesStorageInv == StorageInv /\ (Erase \/ EraseLegacy) => StorageInv'
<1> SUFFICES ASSUME StorageInv, Erase \/ EraseLegacy PROVE StorageInv'
  OBVIOUS
<1>1. /\ op \in {"erase", "eraseLegacy"} /\ BeingErased
      /\ UNCHANGED <<backend, server, hasRow, used, job, download, unchecked, vanished>>
  BY DEF Erase, EraseLegacy, BeingErased
<1>2. /\ spared \in BOOLEAN /\ spared' \in BOOLEAN /\ (spared => spared')
      /\ legacy' = legacy \/ legacy' = "none"
  BY DEF Erase, EraseLegacy, UnlinkLegacy, StorageInv, StorageTypeOK
<1>3. CASE op = "erase" /\ backend = "s3"
  <2>1. /\ object' = "none" /\ UNCHANGED legacy
        /\ op' = IF hasRow THEN "eraseLegacy" ELSE "idle"
    BY <1>3 DEF Erase, EraseLegacy, Then
  <2>2. StorageTypeOK' /\ Exclusion'
    BY <1>1, <1>2, <2>1 DEF StorageInv, StorageTypeOK, Exclusion, BeingErased, OpSteps, Contents
  <2>3. PlacesOfRequests' /\ PlacesOfBackfill'
    BY <1>1, <1>2, <1>3, <2>1 DEF StorageInv, PlacesOfRequests, PlacesOfBackfill, Exclusion,
       ShortCopiesAreUndone
  <2>4. DownloadSees'
    BY <1>1, <2>1 DEF StorageInv, DownloadSees, DownloadsFindTheFile, Exclusion
  <2> QED
    BY <2>2, <2>3, <2>4 DEF StorageInv
<1>4. CASE op = "eraseLegacy" \/ backend = "filesystem"
  <2>1. /\ UNCHANGED object
        /\ op' = IF hasRow THEN "forget" ELSE "idle"
        /\ legacy' = "none" \/ spared'
    BY <1>1, <1>4 DEF Erase, EraseLegacy, Then, UnlinkLegacy, StorageInv, Exclusion
  <2>2. StorageTypeOK' /\ Exclusion'
    BY <1>1, <1>2, <2>1 DEF StorageInv, StorageTypeOK, Exclusion, BeingErased, OpSteps, Contents
  <2>3. PlacesOfRequests'
    BY <1>1, <1>2, <1>4, <2>1 DEF StorageInv, PlacesOfRequests, Exclusion
  <2>4. PlacesOfBackfill'
    BY <1>1, <1>2, <2>1 DEF StorageInv, PlacesOfBackfill, Exclusion, ShortCopiesAreUndone
  <2>5. DownloadSees'
    BY <1>1, <2>1 DEF StorageInv, DownloadSees, DownloadsFindTheFile, Exclusion
  <2> QED
    BY <2>2, <2>3, <2>4, <2>5 DEF StorageInv
<1> QED
  BY <1>1, <1>3, <1>4 DEF StorageInv, StorageTypeOK

(* The row goes; what the deletion was spared stays. *)
LEMMA ForgetPreservesStorageInv == StorageInv /\ Forget => StorageInv'
<1> SUFFICES ASSUME StorageInv, Forget PROVE StorageInv'
  OBVIOUS
<1>1. ~hasRow' /\ hasRow' \in BOOLEAN
  BY Zenon DEF Forget
<1>2. /\ op = "forget" /\ op' = "idle" /\ BeingErased /\ hasRow
      /\ UNCHANGED <<backend, server, object, legacy, used, job, download, unchecked, spared, vanished>>
  BY DEF Forget, places, BeingErased, StorageInv, Exclusion
<1>3. StorageTypeOK' /\ Exclusion'
  BY <1>1, <1>2 DEF StorageInv, StorageTypeOK, Exclusion, BeingErased, OpSteps
<1>4. PlacesOfRequests' /\ PlacesOfBackfill'
  BY <1>1, <1>2 DEF StorageInv, PlacesOfRequests, PlacesOfBackfill, ShortCopiesAreUndone
<1>5. DownloadSees'
  BY <1>2 DEF StorageInv, DownloadSees, DownloadsFindTheFile
<1> QED
  BY <1>3, <1>4, <1>5 DEF StorageInv

(* A copy by hand begins, beside a deletion or not. *)
LEMMA ByHandPreservesStorageInv == StorageInv /\ BackfillByHand => StorageInv'
<1> SUFFICES ASSUME StorageInv, BackfillByHand PROVE StorageInv'
  OBVIOUS
<1>1. (BeingErased <=> spared') /\ spared' \in BOOLEAN
  <2>1. BeingErased \in BOOLEAN
    BY DEF BeingErased
  <2>2. spared' = BeingErased
    BY Zenon DEF BackfillByHand
  <2> QED
    BY <2>1, <2>2, Zenon
<1>2. /\ job = "none" /\ job' = "exists" /\ hasRow /\ server = "up" /\ backend = "s3"
      /\ UNCHANGED <<backend, server, hasRow, object, legacy, used, op, download, unchecked, vanished>>
  BY DEF BackfillByHand, places, Up
<1>3. StorageTypeOK' /\ Exclusion'
  BY <1>1, <1>2 DEF StorageInv, StorageTypeOK, Exclusion, BeingErased, JobSteps
<1>4. PlacesOfRequests'
  <2>1. op \in {"eraseLegacy", "forget"} => spared'
    BY <1>1 DEF BeingErased
  <2> QED
    BY <1>2, <2>1 DEF StorageInv, PlacesOfRequests, Content
<1>5. PlacesOfBackfill'
  BY <1>2 DEF StorageInv, PlacesOfBackfill, ShortCopiesAreUndone
<1>6. DownloadSees'
  BY <1>2 DEF StorageInv, DownloadSees, DownloadsFindTheFile, Content, BeingErased
<1> QED
  BY <1>3, <1>4, <1>5, <1>6 DEF StorageInv

(* An object appears, whole or short, whatever has become of the source. *)
LEMMA CopyPreservesStorageInv == StorageInv /\ Copy => StorageInv'
<1> SUFFICES ASSUME StorageInv, Copy PROVE StorageInv'
  OBVIOUS
<1>1. (vanished \/ Content' # "whole" <=> vanished') /\ vanished' \in BOOLEAN
  BY Zenon DEF Copy
<1>2. /\ job = "upload" /\ object = "none" /\ legacy # "short" /\ backend = "s3" /\ used
      /\ UNCHANGED <<backend, server, hasRow, legacy, used, op, download, unchecked, spared>>
      /\ \/ object' \in {"whole", "short"} /\ job' = "measure"
         \/ object' = object /\ job' = "none"
  BY DEF Copy, StorageInv, Exclusion, PlacesOfBackfill, Backfilled
<1>3. /\ op \notin {"writing", "record"} /\ (op = "erase" => hasRow)
      /\ BeingErased => spared
      /\ legacy = "whole" \/ spared
  BY <1>2 DEF StorageInv, Exclusion, PlacesOfBackfill
<1>4. StorageTypeOK'
  BY <1>1, <1>2 DEF StorageInv, StorageTypeOK, Contents, JobSteps
<1>5. Exclusion'
  BY <1>2, <1>3 DEF StorageInv, Exclusion, BeingErased
<1>6. PlacesOfRequests'
  <2>1. op \in {"eraseLegacy", "forget"} => spared
    BY <1>3 DEF BeingErased
  <2> QED
    BY <1>2, <1>3, <2>1 DEF StorageInv, PlacesOfRequests
<1>7. PlacesOfBackfill'
  BY <1>2 DEF StorageInv, PlacesOfBackfill, ShortCopiesAreUndone
<1>8. DownloadSees'
  BY <1>1, <1>2 DEF StorageInv, DownloadSees, DownloadsFindTheFile, BeingErased
<1> QED
  BY <1>4, <1>5, <1>6, <1>7, <1>8 DEF StorageInv

(* A download begins while the file is all there and nobody deletes it, or  *)
(* it is marked; it ends, and the mark with it.                             *)
LEMMA DownloadPreservesStorageInv == StorageInv /\ (Download \/ Downloaded) => StorageInv'
<1> SUFFICES ASSUME StorageInv, Download \/ Downloaded PROVE StorageInv'
  OBVIOUS
<1>1. vanished' \in BOOLEAN
  BY Zenon DEF Download, Downloaded
<1>2. UNCHANGED <<backend, server, hasRow, object, legacy, used, op, job, unchecked, spared>>
  BY DEF Download, Downloaded, places
<1>3. CASE Download
  <2>1. Content # "whole" \/ BeingErased => vanished'
    BY <1>3, Zenon DEF Download
  <2>2. /\ hasRow /\ server = "up"
        /\ download' = IF backend = "s3" THEN "object" ELSE "legacy"
    BY <1>3 DEF Download, Up
  <2>3. StorageTypeOK' /\ Exclusion'
    BY <1>1, <1>2, <2>2 DEF StorageInv, StorageTypeOK, Exclusion, BeingErased, Downloads
  <2>4. PlacesOfRequests' /\ PlacesOfBackfill'
    BY <1>2 DEF StorageInv, PlacesOfRequests, PlacesOfBackfill, ShortCopiesAreUndone, Content
  <2>5. DownloadSees'
    BY <1>2, <2>1, <2>2 DEF StorageInv, DownloadSees, DownloadsFindTheFile, Content, BeingErased
  <2> QED
    BY <2>3, <2>4, <2>5 DEF StorageInv
<1>4. CASE Downloaded
  <2>1. download' = "idle"
    BY <1>4 DEF Downloaded
  <2>2. StorageTypeOK' /\ Exclusion'
    BY <1>1, <1>2, <2>1 DEF StorageInv, StorageTypeOK, Exclusion, BeingErased, Downloads
  <2>3. PlacesOfRequests' /\ PlacesOfBackfill'
    BY <1>2 DEF StorageInv, PlacesOfRequests, PlacesOfBackfill, ShortCopiesAreUndone, Content
  <2> QED
    BY <2>1, <2>2, <2>3 DEF StorageInv, DownloadSees, DownloadsFindTheFile
<1> QED
  BY <1>3, <1>4

(* Starts, stops, requests, the backfill and downloads preserve it. *)
LEMMA NextPreservesStorageInv == StorageInv /\ [StorageNext]_bvars => StorageInv'
<1> SUFFICES ASSUME StorageInv, [StorageNext]_bvars PROVE StorageInv'
  OBVIOUS
<1> USE DEF StorageInv, StorageTypeOK, Exclusion, PlacesOfRequests, PlacesOfBackfill,
         DownloadSees, ShortCopiesAreUndone, DownloadsFindTheFile, Content, Contents,
         OpSteps, JobSteps, Downloads, places, BeingErased, Copying, Backfilled, Up, MayStore,
         Then, UnlinkLegacy
<1>1. CASE Start
  BY <1>1 DEF Start
<1>2. CASE Serve
  BY <1>2 DEF Serve
<1>3. CASE Stop
  BY <1>3, StopPreservesStorageInv
<1>4. CASE Storing
  <2>1. CASE UploadObject
    BY <2>1 DEF UploadObject
  <2>2. CASE UploadFile
    BY <2>2 DEF UploadFile
  <2>3. CASE UploadFileEnds
    BY <2>3 DEF UploadFileEnds
  <2>4. CASE Record
    BY <2>4, RecordPreservesStorageInv
  <2>5. CASE RecordFails
    BY <2>5 DEF RecordFails
  <2>6. CASE PutFails
    BY <2>6 DEF PutFails
  <2> QED
    BY <1>4, <2>5, <2>6, <2>1, <2>2, <2>3, <2>4 DEF Storing
<1>5. CASE Erasing
  <2>1. CASE DeleteBlob
    BY <2>1, DeleteBlobPreservesStorageInv
  <2>2. CASE Erase
    BY <2>2, ErasePreservesStorageInv
  <2>3. CASE EraseLegacy
    BY <2>3, ErasePreservesStorageInv
  <2>4. CASE Forget
    BY <2>4, ForgetPreservesStorageInv
  <2>5. CASE EraseFails
    BY <2>5 DEF EraseFails
  <2> QED
    BY <1>5, <2>5, <2>1, <2>2, <2>3, <2>4 DEF Erasing
<1>6. CASE Backfilling
  <2>1. CASE BackfillByHand
    BY <2>1, ByHandPreservesStorageInv
  <2>2. CASE SkipExisting
    BY <2>2 DEF SkipExisting
  <2>3. CASE SkipSource
    BY <2>3 DEF SkipSource
  <2>4. CASE Copy
    BY <2>4, CopyPreservesStorageInv
  <2>5. CASE Measure
    BY <2>5 DEF Measure
  <2>6. CASE MeasureFails
    BY <2>6 DEF MeasureFails
  <2>7. CASE Undo
    BY <2>7 DEF Undo
  <2> QED
    BY <1>6, <2>5, <2>6, <2>7, <2>1, <2>2, <2>3, <2>4 DEF Backfilling
<1>7. CASE Downloading
  <2>1. CASE Download
    BY <2>1, DownloadPreservesStorageInv
  <2>2. CASE OpenObject
    BY <2>2 DEF OpenObject
  <2>3. CASE OpenLegacy
    BY <2>3 DEF OpenLegacy
  <2>4. CASE Downloaded
    BY <2>4, DownloadPreservesStorageInv
  <2>5. CASE FindLegacy
    BY <2>5 DEF FindLegacy
  <2> QED
    BY <1>7, <2>5, <2>1, <2>2, <2>3, <2>4 DEF Downloading
<1>8. CASE UNCHANGED bvars
  BY <1>8 DEF bvars
<1> QED
  BY <1>1, <1>2, <1>3, <1>4, <1>5, <1>6, <1>7, <1>8 DEF StorageNext

(* The invariant holds of every reachable state. *)
THEOREM StorageInvariant == StorageSpec => []StorageInv
  BY InitEstablishesStorageInv, NextPreservesStorageInv, PTL DEF StorageSpec

(* A short object in the store is one that is about to be found out, or one *)
(* whose check was given up.                                                *)
THEOREM NoOtherShortCopies == StorageSpec => []ShortCopiesAreUndone
<1>1. StorageInv => ShortCopiesAreUndone
  BY DEF StorageInv, PlacesOfBackfill
<1> QED
  BY <1>1, StorageInvariant, PTL

(* Looking in two places one after the other misses no file that was there  *)
(* all the time and that nobody was deleting.                               *)
THEOREM FallbackMissesNothing == StorageSpec => []DownloadsFindTheFile
<1>1. StorageInv => DownloadsFindTheFile
  BY DEF StorageInv, DownloadSees
<1> QED
  BY <1>1, StorageInvariant, PTL

----------------------------------------------------------------------------

(* Only a deletion is ever spared anything. *)
LEMMA OnlyDeletionsAreSpared ==
  StorageInv /\ [StorageNext]_bvars =>
     spared' \in BOOLEAN /\ (spared' => spared \/ BeingErased \/ BeingErased')
<1> SUFFICES ASSUME StorageInv, [StorageNext]_bvars
             PROVE  spared' \in BOOLEAN /\ (spared' => spared \/ BeingErased \/ BeingErased')
  OBVIOUS
<1>1. spared' \in BOOLEAN
  BY NextPreservesStorageInv DEF StorageInv, StorageTypeOK
<1>2. CASE Start
  BY <1>1, <1>2, Zenon DEF Start
<1>3. CASE DeleteBlob
  BY <1>1, <1>3 DEF DeleteBlob, BeingErased
<1>4. CASE BackfillByHand
  BY <1>1, <1>4, Zenon DEF BackfillByHand
<1>5. CASE Erase \/ EraseLegacy
  BY <1>1, <1>5 DEF Erase, EraseLegacy, BeingErased
<1>6. CASE UNCHANGED spared
  BY <1>1, <1>6
<1>7. Start \/ DeleteBlob \/ BackfillByHand \/ Erase \/ EraseLegacy \/ UNCHANGED spared
  BY Zenon DEF StorageNext, Storing, Erasing, Backfilling, Downloading, Serve, Stop, UploadObject,
     UploadFile, UploadFileEnds, PutFails, Record, RecordFails, Forget, EraseFails, SkipExisting,
     SkipSource, Copy, Measure, MeasureFails, Undo, Download, OpenObject, FindLegacy, OpenLegacy,
     Downloaded, bvars
<1> QED
  BY <1>2, <1>3, <1>4, <1>5, <1>6, <1>7

(* Every step is a step of the one storage, or changes nothing of it. *)
LEMMA StepsKeepThePromise ==
  StorageInv /\ [StorageNext]_bvars => [Promise!Next]_(Promise!pvars)
<1> SUFFICES ASSUME StorageInv, [StorageNext]_bvars PROVE Promise!Next
  BY Zenon
<1> DEFINE Kept == Content' = Content /\ hasRow' = hasRow
           Moves == Promise!Prepare \/ Promise!Record \/ Promise!Take \/ Promise!Forget
                       \/ Promise!Spoil \/ Promise!Mend \/ Promise!Race \/ Promise!Keep
<1>1. Kept => Moves
  BY DEF Promise!Keep
<1>2. SUFFICES Moves
  <2>1. BeingErased' \in BOOLEAN /\ Copying' \in BOOLEAN
    BY DEF BeingErased, Copying
  <2> QED
    BY <1>2, <2>1, OnlyDeletionsAreSpared DEF Promise!Next
<1> USE DEF StorageInv, StorageTypeOK, Exclusion, PlacesOfRequests, PlacesOfBackfill,
         Content, Contents, OpSteps, JobSteps, places, BeingErased, Copying, Backfilled,
         Up, MayStore, Then, UnlinkLegacy, Promise!Contents
<1>3. CASE Start \/ Serve \/ Stop
  <2>1. Kept
    BY <1>3 DEF Start, Serve, Stop
  <2> QED
    BY <1>1, <2>1
<1>4. CASE Storing
  <2>1. CASE UploadObject \/ UploadFile \/ UploadFileEnds \/ PutFails
    <3>1. Promise!Prepare
      BY <2>1 DEF UploadObject, UploadFile, UploadFileEnds, PutFails, Promise!Prepare
    <3> QED
      BY <3>1
  <2>2. CASE Record
    <3>1. Promise!Record
      BY <2>2 DEF Record, Promise!Record
    <3> QED
      BY <3>1
  <2>3. CASE RecordFails
    BY <1>1, <2>3 DEF RecordFails
  <2> QED
    BY <1>4, <2>1, <2>2, <2>3 DEF Storing
<1>5. CASE Erasing
  <2>1. CASE DeleteBlob
    BY <1>1, <2>1 DEF DeleteBlob
  <2>2. CASE EraseFails
    BY <1>1, <2>2 DEF EraseFails
  <2>3. CASE Erase \/ EraseLegacy
    <3>1. BeingErased /\ UNCHANGED <<backend, hasRow>>
          /\ object' \in {"none", object} /\ legacy' \in {"none", legacy}
      BY <2>3 DEF Erase, EraseLegacy
    <3>2. ~hasRow => Promise!Prepare
      BY <3>1 DEF Promise!Prepare
    <3>3. hasRow => Promise!Take \/ Kept
      BY <3>1 DEF Promise!Take
    <3> QED
      BY <1>1, <3>2, <3>3
  <2>4. CASE Forget
    <3>1. Promise!Forget
      BY <2>4 DEF Forget, Promise!Forget
    <3> QED
      BY <3>1
  <2> QED
    BY <1>5, <2>1, <2>2, <2>3, <2>4 DEF Erasing
<1>6. CASE Backfilling
  <2>1. CASE BackfillByHand \/ SkipExisting \/ SkipSource \/ Measure \/ MeasureFails
    <3>1. Kept
      BY <2>1 DEF BackfillByHand, SkipExisting, SkipSource, Measure, MeasureFails
    <3> QED
      BY <1>1, <3>1
  <2>2. CASE Copy
    <3>1. Promise!Prepare \/ Promise!Spoil \/ Promise!Race \/ Kept
      BY <2>2 DEF Copy, Promise!Prepare, Promise!Spoil, Promise!Race
    <3> QED
      BY <1>1, <3>1
  <2>3. CASE Undo
    <3>1. Promise!Prepare \/ Promise!Mend \/ Promise!Race
      BY <2>3 DEF Undo, Promise!Prepare, Promise!Mend, Promise!Race
    <3> QED
      BY <3>1
  <2> QED
    BY <1>6, <2>1, <2>2, <2>3 DEF Backfilling
<1>7. CASE Downloading
  <2>1. Kept
    BY <1>7 DEF Downloading, Download, OpenObject, FindLegacy, OpenLegacy, Downloaded
  <2> QED
    BY <1>1, <2>1
<1>8. CASE UNCHANGED bvars
  BY <1>1, <1>8 DEF bvars
<1> QED
  BY <1>3, <1>4, <1>5, <1>6, <1>7, <1>8 DEF StorageNext

(* Whoever downloads sees one storage that keeps its promise. *)
THEOREM StorageImplementsPromise == StorageSpec => KeepsThePromise
<1>1. StorageInit => Promise!Init
  BY DEF StorageInit, Promise!Init, Content, BeingErased, Copying, Contents, Promise!Contents
<1> QED
  BY <1>1, StepsKeepThePromise, StorageInvariant, PTL DEF StorageSpec, KeepsThePromise, Promise!Spec

----------------------------------------------------------------------------
(***************************************************************************)
(* That a download sends the bytes the Range header asks for, whatever the *)
(* sizes of the file, of what is stored of it and of the chunks.           *)
(***************************************************************************)

(* The range the response was given, once the header has been looked at.    *)
Opened == stage \in {"opening", "streaming", "done", "failed"}

RangeIsTheHeaders ==
    /\ stage = "asked" => status = 0
    /\ stage = "refused" => status = 416 /\ Unsatisfiable
    /\ Opened =>
          /\ ~Unsatisfiable
          /\ first = ByteRange.start
          /\ length = ByteRange.end - ByteRange.start + 1
          /\ status = IF stage = "failed" THEN 500 ELSE IF ByteRange.partial THEN 206 ELSE 200

(* The handle has moved by what was sent, which is no more than was promised *)
(* and stays in front of what it can give.                                  *)
HandleFollows ==
    /\ stage \in {"asked", "opening"} => sent = 0
    /\ stage \in {"streaming", "done"} =>
          /\ handle.from = first + sent
          /\ sent <= length
          /\ sent > 0 => handle.from <= handle.upTo
          /\ handle.upTo <= stored
          /\ handle.upTo = stored \/ handle.upTo >= first + length
    /\ stage = "done" => sent = length \/ handle.from >= handle.upTo

TransferInv == DownloadTypeOK /\ RangeIsTheHeaders /\ HandleFollows

(* The range that the view reads in the header is the one that RFC 9110 reads *)
(* there, or the whole file where there is none.                            *)
LEMMA ByteRangeIsAsked ==
  ASSUME DownloadTypeOK, ~Unsatisfiable
  PROVE  /\ ByteRange.start \in File /\ ByteRange.end \in File
         /\ ByteRange.start <= ByteRange.end
         /\ ByteRange.partial \in BOOLEAN
         /\ ByteRange.partial <=> IsRange
         /\ (IF IsRange THEN Asked ELSE File)
               = {b \in File : ByteRange.start <= b /\ b <= ByteRange.end}
<1>1. size \in Nat /\ size > 0 /\ header.start \in Nat /\ header.end \in Nat
  <2>1. size \in Nat /\ size > 0 /\ Positions \subseteq Nat /\ header \in Headers
    BY DownloadAssumption DEF DownloadTypeOK, DownloadAssumption
  <2>2. header.start \in Positions \cup {0} /\ header.end \in Positions \cup {0}
    BY <2>1 DEF Headers
  <2>3. Positions \cup {0} \subseteq Nat
    BY <2>1
  <2>4. header.start \in Nat /\ header.end \in Nat
    BY <2>2, <2>3
  <2> QED
    BY <2>1, <2>4
<1>2. header.kind \in {"none", "span", "open", "suffix"}
  BY DEF DownloadTypeOK, Headers
<1>3. CASE header.kind = "none"
  <2>1. ByteRange = [partial |-> FALSE, start |-> 0, end |-> size - 1]
    BY <1>3 DEF ByteRange, Whole
  <2>2. ~IsRange
    BY <1>3 DEF IsRange
  <2> QED
    BY <1>1, <2>1, <2>2 DEF File
<1>4. CASE header.kind = "open"
  <2>1. ByteRange = [partial |-> TRUE, start |-> header.start, end |-> size - 1]
    BY <1>4 DEF ByteRange
  <2>2. IsRange /\ Asked = {b \in File : header.start <= b} /\ header.start < size
    BY <1>1, <1>4 DEF IsRange, Asked, Unsatisfiable
  <2> QED
    BY <1>1, <2>1, <2>2 DEF File
<1>5. CASE header.kind = "span"
  BY <1>1, <1>5 DEF ByteRange, Whole, File, IsRange, Asked, Unsatisfiable, Least
<1>6. CASE header.kind = "suffix"
  BY <1>1, <1>6 DEF ByteRange, Suffix, Whole, File, IsRange, Asked
<1> QED
  BY <1>2, <1>3, <1>4, <1>5, <1>6

(* A download begins with nothing sent. *)
LEMMA InitEstablishesTransferInv == TransferInit => TransferInv
  BY DownloadAssumption DEF TransferInit, TransferInv, DownloadTypeOK, RangeIsTheHeaders,
     HandleFollows, Opened, Stages, Statuses, DownloadAssumption

(* Every step of it keeps to the range. *)
LEMMA NextKeepsTransferInv == TransferInv /\ [TransferNext]_dvars => TransferInv'
<1> SUFFICES ASSUME TransferInv, [TransferNext]_dvars PROVE TransferInv'
  OBVIOUS
<1>1. /\ DownloadTypeOK /\ RangeIsTheHeaders /\ HandleFollows
      /\ size \in Nat /\ size > 0 /\ stored \in Nat /\ 0 < stored /\ stored <= size
      /\ ChunkSize \in Nat /\ ChunkSize > 0
  BY DownloadAssumption DEF TransferInv, DownloadTypeOK, DownloadAssumption
<1>2. CASE Refuse
  <2>1. UNCHANGED <<request, first, length, handle, sent>> /\ stage' = "refused" /\ status' = 416
        /\ Unsatisfiable /\ stage = "asked"
    BY <1>2 DEF Refuse
  <2>2. DownloadTypeOK'
    BY <1>1, <2>1 DEF DownloadTypeOK, request, Stages, Statuses
  <2> QED
    BY <1>1, <2>1, <2>2 DEF TransferInv, RangeIsTheHeaders, HandleFollows, Opened, Unsatisfiable, request
<1>3. CASE Answer
  <2>1. UNCHANGED <<request, handle, sent>> /\ stage' = "opening" /\ stage = "asked" /\ ~Unsatisfiable
        /\ first' = ByteRange.start /\ length' = ByteRange.end - ByteRange.start + 1
        /\ status' = IF ByteRange.partial THEN 206 ELSE 200
    BY <1>3 DEF Answer
  <2>2. ByteRange' = ByteRange /\ ~Unsatisfiable'
    BY <2>1 DEF ByteRange, Whole, Suffix, Unsatisfiable, request
  <2>3. first' \in Nat /\ length' \in Nat /\ status' \in Statuses
    BY <1>1, <2>1, ByteRangeIsAsked DEF File, Statuses
  <2>4. DownloadTypeOK'
    BY <1>1, <2>1, <2>3 DEF DownloadTypeOK, request, Stages
  <2> QED
    BY <1>1, <2>1, <2>2, <2>4 DEF TransferInv, RangeIsTheHeaders, HandleFollows, Opened
<1>4. ASSUME UNCHANGED <<request, promised>>, Opened, stage # "failed",
             stage' \in {"streaming", "done"}
      PROVE  RangeIsTheHeaders'
  BY <1>1, <1>4 DEF RangeIsTheHeaders, Opened, ByteRange, Whole, Suffix, Unsatisfiable,
     request, promised
<1>5. CASE OpenFile
  <2>1. UNCHANGED <<request, promised, sent>> /\ stage = "opening" /\ stage' = "streaming"
        /\ handle' = [from |-> first, upTo |-> stored]
    BY <1>5 DEF OpenFile
  <2>2. DownloadTypeOK'
    BY <1>1, <2>1 DEF DownloadTypeOK, request, promised, Stages
  <2>3. RangeIsTheHeaders'
    BY <1>4, <2>1 DEF Opened
  <2>4. HandleFollows'
    BY <1>1, <2>1 DEF HandleFollows, DownloadTypeOK, request, promised
  <2> QED
    BY <2>2, <2>3, <2>4 DEF TransferInv
<1>6. CASE OpenRange
  <2>1. UNCHANGED <<request, first, length, sent>> /\ stage = "opening"
    BY <1>6 DEF OpenRange
  <2>2. first + length \in Nat /\ 0 <= length /\ first <= first + length
        /\ (status = 200 => first = 0 /\ first < stored)
    <3>1. ~ByteRange.partial => ByteRange.start = 0
      BY <1>1, <2>1 DEF ByteRange, Whole, Suffix, RangeIsTheHeaders, Opened, DownloadTypeOK, Headers
    <3> QED
      BY <1>1, <2>1, <3>1 DEF RangeIsTheHeaders, Opened, DownloadTypeOK
  <2>3. CASE status = 206 /\ first >= stored
    <3>1. stage' = "failed" /\ status' = 500 /\ UNCHANGED handle
      BY <1>6, <2>3 DEF OpenRange
    <3>2. DownloadTypeOK'
      BY <1>1, <2>1, <3>1 DEF DownloadTypeOK, request, Stages, Statuses
    <3>3. RangeIsTheHeaders'
      BY <1>1, <2>1, <3>1 DEF RangeIsTheHeaders, Opened, ByteRange, Whole, Suffix, Unsatisfiable, request
    <3> QED
      BY <1>1, <2>1, <3>1, <3>2, <3>3 DEF TransferInv, HandleFollows
  <2>4. CASE ~(status = 206 /\ first >= stored)
    <3>1. stage' = "streaming" /\ UNCHANGED <<request, promised, sent>>
          /\ handle' = [from |-> first, upTo |-> Least(first + length, stored)]
      BY <1>6, <2>1, <2>4 DEF OpenRange, promised
    <3>2. Least(first + length, stored) \in Nat /\ Least(first + length, stored) <= stored
          /\ (Least(first + length, stored) = stored \/ Least(first + length, stored) >= first + length)
      BY <1>1, <2>2 DEF Least
    <3>3. DownloadTypeOK'
      BY <1>1, <3>1, <3>2 DEF DownloadTypeOK, request, promised, Stages
    <3>4. RangeIsTheHeaders'
      BY <1>4, <2>1, <3>1 DEF Opened
    <3>5. HandleFollows'
      BY <1>1, <2>1, <2>2, <3>1, <3>2 DEF HandleFollows, DownloadTypeOK, request, promised
    <3> QED
      BY <3>3, <3>4, <3>5 DEF TransferInv
  <2> QED
    BY <2>3, <2>4
<1>7. CASE Send
  <2>1. UNCHANGED <<request, stage, promised>> /\ stage = "streaming"
    BY <1>7 DEF Send
  <2>2. PICK n \in 1..Least(ChunkSize, Remaining) :
             /\ handle.from + n <= handle.upTo
             /\ handle' = [handle EXCEPT !.from = @ + n]
             /\ sent' = sent + n
    BY <1>7 DEF Send
  <2>3. n \in Nat /\ n >= 1 /\ sent + n <= length
    BY <1>1, <2>2 DEF Least, Remaining, DownloadTypeOK
  <2>4. handle'.from = handle.from + n /\ handle'.upTo = handle.upTo
        /\ handle' \in [from : Nat, upTo : Nat]
    BY <1>1, <2>2, <2>3 DEF DownloadTypeOK
  <2>5. DownloadTypeOK'
    BY <1>1, <2>1, <2>2, <2>3, <2>4 DEF DownloadTypeOK, request, promised
  <2>6. RangeIsTheHeaders'
    BY <1>4, <2>1 DEF Opened
  <2>7. HandleFollows'
    BY <1>1, <2>1, <2>2, <2>3, <2>4 DEF HandleFollows, DownloadTypeOK, request, promised
  <2> QED
    BY <2>5, <2>6, <2>7 DEF TransferInv
<1>8. CASE End
  <2>1. UNCHANGED <<request, promised, handle, sent>> /\ stage = "streaming" /\ stage' = "done"
        /\ (Remaining <= 0 \/ handle.from >= handle.upTo)
    BY <1>8 DEF End
  <2>2. DownloadTypeOK'
    BY <1>1, <2>1 DEF DownloadTypeOK, request, promised, Stages
  <2>3. RangeIsTheHeaders'
    BY <1>4, <2>1 DEF Opened
  <2>4. HandleFollows'
    BY <1>1, <2>1 DEF HandleFollows, DownloadTypeOK, request, promised, Remaining
  <2> QED
    BY <2>2, <2>3, <2>4 DEF TransferInv
<1>9. CASE UNCHANGED dvars
  <2>1. UNCHANGED <<size, stored, holder, header, stage, status, first, length, handle, sent>>
    BY <1>9 DEF dvars, request, promised
  <2>2. DownloadTypeOK'
    BY <1>1, <2>1 DEF DownloadTypeOK
  <2>3. RangeIsTheHeaders'
    BY <1>1, <2>1 DEF RangeIsTheHeaders, Opened, ByteRange, Whole, Suffix, Unsatisfiable
  <2>4. HandleFollows'
    BY <1>1, <2>1 DEF HandleFollows, Remaining
  <2> QED
    BY <2>2, <2>3, <2>4 DEF TransferInv
<1> QED
  BY <1>2, <1>3, <1>5, <1>6, <1>7, <1>8, <1>9 DEF TransferNext, Ended

(* The invariant holds at every step of every download. *)
THEOREM TransferInvariant == TransferSpec => []TransferInv
  BY InitEstablishesTransferInv, NextKeepsTransferInv, PTL DEF TransferSpec

(* A finished download has sent what was asked for and is stored, and       *)
(* nothing else.                                                            *)
THEOREM DownloadsAreRight == TransferSpec => []DownloadsSendWhatIsAsked
<1>1. ASSUME TransferInv PROVE DownloadsSendWhatIsAsked
  <2>1. /\ DownloadTypeOK /\ RangeIsTheHeaders /\ HandleFollows
        /\ size \in Nat /\ size > 0 /\ stored \in Nat /\ 0 < stored /\ stored <= size
    BY <1>1, DownloadAssumption DEF TransferInv, DownloadTypeOK, DownloadAssumption
  <2>2. stage = "done" => Sent = {b \in (IF IsRange THEN Asked ELSE File) : b < stored}
    <3>1. SUFFICES ASSUME stage = "done"
                   PROVE  Sent = {b \in (IF IsRange THEN Asked ELSE File) : b < stored}
      OBVIOUS
    <3>2. /\ first \in File /\ length \in Nat /\ length >= 1 /\ first + length <= size
          /\ (IF IsRange THEN Asked ELSE File) = {b \in File : first <= b /\ b <= first + length - 1}
      BY <2>1, <3>1, ByteRangeIsAsked DEF RangeIsTheHeaders, Opened, File, DownloadTypeOK
    <3>3. ASSUME NEW b \in File
          PROVE  (handle.from - sent <= b /\ b < handle.from)
                    <=> (first <= b /\ b <= first + length - 1 /\ b < stored)
      BY <2>1, <3>1, <3>2 DEF HandleFollows, DownloadTypeOK, File
    <3> QED
      BY <3>2, <3>3 DEF Sent
  <2>3. stage = "done" => (status = 206 <=> IsRange)
    BY <2>1, ByteRangeIsAsked DEF RangeIsTheHeaders, Opened
  <2>4. stage = "refused" <=> status = 416
    BY <2>1, ByteRangeIsAsked DEF RangeIsTheHeaders, Opened, DownloadTypeOK, Stages
  <2>5. stage = "refused" => Asked = {}
    <3>1. stage = "refused" => /\ header.kind \in {"open", "span"} /\ header.start >= size
                               /\ header.start \in Positions
      BY <2>1 DEF RangeIsTheHeaders, Unsatisfiable, DownloadTypeOK, Headers
    <3>2. ASSUME stage = "refused", NEW b \in File PROVE ~(header.start <= b)
      <4>1. header.start \in Nat /\ header.start >= size
        BY <3>1, <3>2, DownloadAssumption DEF DownloadAssumption
      <4>2. b \in Int /\ b < size
        BY <2>1 DEF File
      <4> QED
        BY <2>1, <4>1, <4>2
    <3>3. CASE header.kind = "open"
      BY <3>2, <3>3 DEF Asked
    <3>4. CASE header.kind = "span"
      BY <3>2, <3>4 DEF Asked
    <3> QED
      BY <3>1, <3>3, <3>4
  <2>6. stage \notin {"asked", "refused"} /\ IsRange => Asked # {}
    BY <2>1, ByteRangeIsAsked DEF RangeIsTheHeaders, Opened, DownloadTypeOK, Stages
  <2> QED
    BY <2>2, <2>3, <2>4, <2>5, <2>6 DEF DownloadsSendWhatIsAsked
<1> QED
  BY <1>1, TransferInvariant, PTL

=============================================================================
