------------------------------ MODULE Download ------------------------------
(***************************************************************************)
(* One download: the Range header, the handle a storage backend opens for  *)
(* it, and the chunks the response is streamed in.  The filesystem gives a *)
(* file set to the start of the range, which goes on to its end; the       *)
(* object store gives the range and no more.  What is stored may be        *)
(* shorter than the row says (BlobStorage has how).                        *)
(***************************************************************************)

EXTENDS Integers

CONSTANTS
    Sizes,      \* the sizes of files
    Positions,  \* the numbers in Range headers
    ChunkSize   \* STREAM_CHUNK_SIZE

ASSUME DownloadAssumption ==
    /\ Sizes \subseteq Nat \ {0} /\ Positions \subseteq Nat /\ ChunkSize \in Nat \ {0}

VARIABLES
    size,     \* size_bytes of the row
    stored,   \* how much of it the storage has
    holder,   \* the backend that has it
    header,   \* the Range header
    stage,    \* asked, opening, streaming, done, refused or failed
    status,   \* the status of the response
    first,    \* the first byte of the response
    length,   \* its Content-Length
    handle,   \* the bytes the handle has still to give: from, and up to
    sent      \* how many bytes were sent

request  == <<size, stored, holder, header>>
promised == <<status, first, length>>
dvars    == <<request, stage, promised, handle, sent>>

(* No header, or one the view does not know: several ranges, another unit.  *)
Headers ==
    [kind : {"none"}, start : {0}, end : {0}]
      \cup [kind : {"span"}, start : Positions, end : Positions]
      \cup [kind : {"open"}, start : Positions, end : {0}]
      \cup [kind : {"suffix"}, start : {0}, end : Positions]

Stages   == {"asked", "opening", "streaming", "done", "refused", "failed"}
Statuses == {0, 200, 206, 416, 500}

DownloadTypeOK ==
    /\ size \in Sizes /\ stored \in 1..size
    /\ holder \in {"filesystem", "s3"}
    /\ header \in Headers
    /\ stage \in Stages /\ status \in Statuses
    /\ first \in Nat /\ length \in Nat /\ sent \in Nat
    /\ handle \in [from : Nat, upTo : Nat]

TransferInit ==
    /\ size \in Sizes
    /\ stored \in 1..size
    /\ holder \in {"filesystem", "s3"}
    /\ header \in Headers
    /\ stage = "asked" /\ status = 0
    /\ first = 0 /\ length = 0 /\ sent = 0
    /\ handle = [from |-> 0, upTo |-> 0]

----------------------------------------------------------------------------

Least(a, b) == IF a < b THEN a ELSE b

(* _parse_single_range_header: the whole file where it gives None.          *)
Whole == [partial |-> FALSE, start |-> 0, end |-> size - 1]

(* Broken variant: the byte before the suffix is sent too.                  *)
SuffixOneMore(n) ==
    CASE n = 0    -> Whole
      [] n >= size -> [partial |-> TRUE, start |-> 0, end |-> size - 1]
      [] OTHER     -> [partial |-> TRUE, start |-> size - n - 1, end |-> size - 1]

Suffix(n) ==
    CASE n = 0     -> Whole
      [] n >= size -> [partial |-> TRUE, start |-> 0, end |-> size - 1]
      [] OTHER     -> [partial |-> TRUE, start |-> size - n, end |-> size - 1]

ByteRange ==
    CASE header.kind = "none"   -> Whole
      [] header.kind = "suffix" -> Suffix(header.end)
      [] header.kind = "open"   -> [partial |-> TRUE, start |-> header.start, end |-> size - 1]
      [] header.kind = "span"   ->
            IF header.end < header.start
               THEN Whole
               ELSE [partial |-> TRUE, start |-> header.start, end |-> Least(header.end, size - 1)]

Unsatisfiable == header.kind \in {"open", "span"} /\ header.start >= size

Refuse ==
    /\ stage = "asked"
    /\ Unsatisfiable
    /\ stage' = "refused" /\ status' = 416
    /\ UNCHANGED <<request, first, length, handle, sent>>

Answer ==
    /\ stage = "asked"
    /\ ~Unsatisfiable
    /\ stage' = "opening"
    /\ status' = IF ByteRange.partial THEN 206 ELSE 200
    /\ first' = ByteRange.start
    /\ length' = ByteRange.end - ByteRange.start + 1
    /\ UNCHANGED <<request, handle, sent>>

OpenFile ==
    /\ stage = "opening" /\ holder = "filesystem"
    /\ handle' = [from |-> first, upTo |-> stored]
    /\ stage' = "streaming"
    /\ UNCHANGED <<request, promised, sent>>

(* get_object with a Range; one that starts behind the object's end is an   *)
(* error nobody handles.                                                    *)
OpenRange ==
    /\ stage = "opening" /\ holder = "s3"
    /\ IF status = 206 /\ first >= stored
          THEN /\ stage' = "failed" /\ status' = 500
               /\ UNCHANGED handle
          ELSE /\ stage' = "streaming"
               /\ handle' = [from |-> first, upTo |-> Least(first + length, stored)]
               /\ UNCHANGED status
    /\ UNCHANGED <<request, first, length, sent>>

Remaining == length - sent

(* _iter_attachment_chunks: a read gives at most what was asked for.        *)
Send ==
    /\ stage = "streaming" /\ Remaining > 0
    /\ \E n \in 1..Least(ChunkSize, Remaining) :
          /\ handle.from + n <= handle.upTo
          /\ handle' = [handle EXCEPT !.from = @ + n]
          /\ sent' = sent + n
    /\ UNCHANGED <<request, stage, promised>>

End ==
    /\ stage = "streaming"
    /\ Remaining <= 0 \/ handle.from >= handle.upTo
    /\ stage' = "done"
    /\ UNCHANGED <<request, promised, handle, sent>>

Ended == stage \in {"done", "refused", "failed"} /\ UNCHANGED dvars

TransferNext ==
    \/ Refuse \/ Answer \/ OpenFile \/ OpenRange \/ Send \/ End \/ Ended

TransferSpec == TransferInit /\ [][TransferNext]_dvars

----------------------------------------------------------------------------

(* What a range is, in RFC 9110, and whether the header has one.            *)
File == 0..(size - 1)
Asked ==
    CASE header.kind = "span"   -> {b \in File : header.start <= b /\ b <= header.end}
      [] header.kind = "open"   -> {b \in File : header.start <= b}
      [] header.kind = "suffix" -> {b \in File : b >= size - header.end}
      [] header.kind = "none"   -> File

IsRange ==
    \/ header.kind = "open"
    \/ header.kind = "span" /\ header.start <= header.end
    \/ header.kind = "suffix" /\ header.end > 0

(* The bytes that were sent: the handle has moved by them.                  *)
Sent == {b \in File : handle.from - sent <= b /\ b < handle.from}

(* A finished download has sent the bytes the header asks for, all of them  *)
(* that the storage has and no other, under a status that says so; a range  *)
(* of which the file has no byte is refused, and nothing else is.           *)
DownloadsSendWhatIsAsked ==
    /\ stage = "done" =>
          Sent = {b \in (IF IsRange THEN Asked ELSE File) : b < stored}
    /\ stage = "done" => (status = 206 <=> IsRange)
    /\ stage = "refused" <=> status = 416
    /\ stage = "refused" => Asked = {}
    /\ stage \notin {"asked", "refused"} /\ IsRange => Asked # {}

============================================================================
