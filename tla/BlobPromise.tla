----------------------------- MODULE BlobPromise -----------------------------
(***************************************************************************)
(* What the storage of one uploaded file promises to whoever has its row,  *)
(* wherever the bytes are: a download gets the bytes that were uploaded,   *)
(* or nothing once they are being deleted.  A copy from one storage to     *)
(* another shows nothing of itself, but that it may come out short.  What  *)
(* a deletion is spared may stay behind, or come back.                     *)
(***************************************************************************)

VARIABLES
    row,      \* whether the Attachment row is there
    content,  \* what a download would get: nothing, the file, too little of it
    deleting, \* a request is deleting the file
    copying,  \* somebody is copying the file to another storage
    spared    \* the last deletion could not take everything away for good

pvars == <<row, content, deleting, copying, spared>>

Contents == {"none", "whole", "short"}

Init ==
    /\ row \in BOOLEAN
    /\ content \in Contents
    /\ ~row => content = "none"
    /\ ~deleting /\ ~copying /\ ~spared

(* Before there is a row anything may happen to the file.                   *)
Prepare == ~row /\ content' \in Contents /\ UNCHANGED row

Record == ~row /\ content = "whole" /\ row' /\ UNCHANGED content

(* Deleting takes place by place away; the row goes when nothing is left.   *)
Take   == row /\ deleting /\ content' \in {"none", "whole"} /\ UNCHANGED row
Forget == row /\ deleting /\ (content = "none" \/ spared) /\ ~row' /\ UNCHANGED content

Spoil == row /\ copying /\ content = "whole" /\ content' = "short" /\ UNCHANGED row
Mend  == row /\ copying /\ content = "short" /\ content' = "whole" /\ UNCHANGED row

(* A copy that a deletion has overtaken puts back what it has read.         *)
Race == row /\ copying /\ spared /\ content' \in Contents /\ UNCHANGED row

Keep == UNCHANGED <<row, content>>

Next ==
    /\ Prepare \/ Record \/ Take \/ Forget \/ Spoil \/ Mend \/ Race \/ Keep
    /\ deleting' \in BOOLEAN /\ copying' \in BOOLEAN /\ spared' \in BOOLEAN
    /\ spared' => spared \/ deleting \/ deleting'

Spec == Init /\ [][Next]_pvars

============================================================================
