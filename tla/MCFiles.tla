------------------------------ MODULE MCFiles ------------------------------
(* The three views of an uploaded file, which share no state: its rows and  *)
(* messages, the places its bytes are in, and one download of them.  A      *)
(* behaviour is one of the three, chosen at the start; the others rest.     *)
EXTENDS MCAttachments, BlobStorage, Download

VARIABLE part  \* the view that this behaviour is about

FilesInit ==
    /\ part \in {"rows", "storage", "transfer"}
    /\ Init /\ StorageInit /\ TransferInit
    /\ part # "storage" => ~hasRow
    /\ part # "transfer" =>
          /\ size = CHOOSE n \in Sizes : TRUE
          /\ stored = size /\ holder = "s3" /\ header.kind = "none"

RowsStep     == part = "rows" /\ Next /\ UNCHANGED <<bvars, dvars>>
StorageStep  == part = "storage" /\ StorageNext /\ UNCHANGED <<avars, dvars>>
TransferStep == part = "transfer" /\ TransferNext /\ UNCHANGED <<avars, bvars>>

FilesNext == UNCHANGED part /\ (RowsStep \/ StorageStep \/ TransferStep)

FilesSpec == FilesInit /\ [][FilesNext]_<<part, avars, bvars, dvars>>

============================================================================
