-------------------------------- MODULE Media --------------------------------
(***************************************************************************)
(* Product images: the upload and delete handlers of                       *)
(* internal/domain/catalog with internal/platform/storage.  An image is an *)
(* object in blob storage and a row in product_images; no transaction      *)
(* spans the two, and the two statements that make an image the primary    *)
(* one share no transaction either.  The images of one product are         *)
(* modelled: products share no image and are never deleted.  An upload and *)
(* the deletion of its image go by the image's key, which is fresh for     *)
(* each upload.                                                            *)
(***************************************************************************)
EXTENDS Naturals, FiniteSets

CONSTANTS
    Image,          \* storage keys, one for each upload
    MaxFaults       \* bound on crashes, failed calls and lost replies

ASSUME MediaAssumption == IsFiniteSet(Image) /\ MaxFaults \in Nat

VARIABLES
    blobs,      \* the objects in blob storage
    row,        \* product_images: none, plain or primary
    upload,     \* where each upload is
    purging,    \* images whose row was deleted by a request that goes on
    unacked,    \* rows whose INSERT was not acknowledged to their upload
    leaked,     \* objects left behind by a fault
    faults

imageVars == <<blobs, row, upload, purging, unacked, leaked, faults>>

At(i, pc) == upload[i].pc = pc
State(pc, primary) == [pc |-> pc, primary |-> primary]

MediaInit ==
    /\ blobs = {} /\ row = [i \in Image |-> "none"]
    /\ upload = [i \in Image |-> State("new", FALSE)]
    /\ purging = {} /\ unacked = {} /\ leaked = {} /\ faults = 0

Fault == faults < MaxFaults /\ faults' = faults + 1
Goto(i, pc) == upload' = [upload EXCEPT ![i] = State(pc, @.primary)]

-----------------------------------------------------------------------------
(* uploadProductImage *)

\* The product exists and the image is valid: the blob is stored first.
Put(i, primary) ==
    /\ At(i, "new")
    /\ blobs' = blobs \cup {i}
    /\ upload' = [upload EXCEPT ![i] = State(IF primary THEN "demote" ELSE "insert", primary)]
    /\ UNCHANGED <<row, purging, unacked, leaked, faults>>

\* Put returns an error, with the object stored or not; nothing deletes it.
PutFails(i) ==
    /\ At(i, "new") /\ Fault
    /\ Goto(i, "end")
    /\ \/ blobs' = blobs \cup {i} /\ leaked' = leaked \cup {i}
       \/ UNCHANGED <<blobs, leaked>>
    /\ UNCHANGED <<row, purging, unacked>>

\* UPDATE product_images SET is_primary = FALSE
Demote(i) ==
    /\ At(i, "demote")
    /\ row' = [j \in Image |-> IF row[j] = "primary" THEN "plain" ELSE row[j]]
    /\ Goto(i, "insert")
    /\ UNCHANGED <<blobs, purging, unacked, leaked, faults>>

\* The error of the UPDATE is ignored.
DemoteFails(i) ==
    /\ At(i, "demote") /\ Fault
    /\ Goto(i, "insert")
    /\ UNCHANGED <<blobs, row, purging, unacked, leaked>>

Inserted(i) == [row EXCEPT ![i] = IF upload[i].primary THEN "primary" ELSE "plain"]

AddProductImage(i) ==
    /\ At(i, "insert")
    /\ row' = Inserted(i)
    /\ Goto(i, "end")
    /\ UNCHANGED <<blobs, purging, unacked, leaked, faults>>

\* The product's check or the INSERT fails, or only the INSERT's reply is lost.
AddFails(i) ==
    /\ At(i, "insert") \/ At(i, "demote")
    /\ Fault
    /\ Goto(i, "undo")
    /\ \/ UNCHANGED <<row, unacked>>
       \/ /\ At(i, "insert")
          /\ row' = Inserted(i) /\ unacked' = unacked \cup {i}
    /\ UNCHANGED <<blobs, purging, leaked>>

\* Mutant: the blob is kept for another attempt.
UndoNothing(i) ==
    /\ At(i, "undo")
    /\ Goto(i, "end")
    /\ UNCHANGED <<blobs, row, purging, unacked, leaked, faults>>

\* The compensating Delete, on a context of its own.
Undo(i) ==
    /\ At(i, "undo")
    /\ blobs' = blobs \ {i}
    /\ Goto(i, "end")
    /\ UNCHANGED <<row, purging, unacked, leaked, faults>>

\* The process dies during the upload, or the compensating Delete fails.
UploadDies(i) ==
    /\ upload[i].pc \in {"demote", "insert", "undo"} /\ Fault
    /\ Goto(i, "end")
    /\ leaked' = leaked \cup {i}
    /\ UNCHANGED <<blobs, row, purging, unacked>>

uploadProductImage(i) ==
    \/ \E primary \in BOOLEAN : Put(i, primary)
    \/ PutFails(i)
    \/ Demote(i) \/ DemoteFails(i)
    \/ AddProductImage(i) \/ AddFails(i)
    \/ Undo(i) \/ UploadDies(i)

-----------------------------------------------------------------------------
(* deleteProductImage *)

\* Mutant: the blob goes before the row.
DeleteBlobFirst(i) ==
    /\ row[i] # "none" /\ i \in blobs
    /\ blobs' = blobs \ {i}
    /\ UNCHANGED <<row, upload, purging, unacked, leaked, faults>>

\* DELETE ... RETURNING: of two requests one gets the row, the other a 404.
DeleteProductImage(i) ==
    /\ row[i] # "none"
    /\ row' = [row EXCEPT ![i] = "none"]
    /\ purging' = purging \cup {i}
    /\ UNCHANGED <<blobs, upload, unacked, leaked, faults>>

Purge(i) ==
    /\ i \in purging
    /\ purging' = purging \ {i}
    /\ blobs' = blobs \ {i}
    /\ UNCHANGED <<row, upload, unacked, leaked, faults>>

\* The storage fails, the client goes away or the process dies: a warning at most.
PurgeFails(i) ==
    /\ i \in purging /\ Fault
    /\ purging' = purging \ {i}
    /\ leaked' = leaked \cup {i}
    /\ UNCHANGED <<blobs, row, upload, unacked>>

deleteProductImage(i) == DeleteProductImage(i) \/ Purge(i) \/ PurgeFails(i)

MediaNext == \E i \in Image : uploadProductImage(i) \/ deleteProductImage(i)

MediaSpec == MediaInit /\ [][MediaNext]_imageVars

-----------------------------------------------------------------------------
(* Properties *)

\* The state has its type, and an image's row appears only after its blob was
\* stored.
MediaTypeOK ==
    /\ blobs \subseteq Image /\ purging \subseteq Image
    /\ unacked \subseteq Image /\ leaked \subseteq Image
    /\ row \in [Image -> {"none", "plain", "primary"}]
    /\ upload \in [Image -> [pc : {"new", "demote", "insert", "undo", "end"},
                            primary : BOOLEAN]]
    /\ \A i \in Image : At(i, "new") => row[i] = "none" /\ i \notin blobs
    /\ faults \in 0..MaxFaults

\* The state has its type, and a customer who is shown an image gets it: a row has
\* its blob.  The one exception
\* is an upload that compensates because it did not learn that its INSERT was
\* committed.
RowHasBlob ==
    /\ MediaTypeOK
    /\ \A i \in Image : row[i] # "none" => i \in blobs \/ i \in unacked

\* A blob without a row belongs to an upload or a deletion that goes on, or a fault
\* left it behind: a failed upload takes its blob back, and a deletion purges it.
OrphansExplained ==
    \A i \in blobs :
        \/ row[i] # "none"
        \/ upload[i].pc \in {"demote", "insert", "undo"}
        \/ i \in purging
        \/ i \in leaked

\* A product has one primary image at most.  Two uploads at the same time can both
\* clear the mark before either of them inserts its row.
PrimaryExclusive ==
    \A i, j \in Image : row[i] = "primary" /\ row[j] = "primary" => i = j
=============================================================================
