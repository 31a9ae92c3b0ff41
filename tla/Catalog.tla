------------------------------- MODULE Catalog ------------------------------
(***************************************************************************)
(* catalog-service: one product, from its creation to its deletion.  Its   *)
(* row is in PostgreSQL, its image in S3 under a fresh key, its card in    *)
(* Redis; every edit touches them one after the other, in the order of     *)
(* services/product.py, while other edits, reservations and readers do     *)
(* the same.  A request is made once.                                      *)
(***************************************************************************)
EXTENDS Integers, FiniteSets

CONSTANTS Request, Reader,
          Link,        \* an image that is not in the bucket
          Keep,        \* a column the request does not name
          Patch,       \* what sellers ask update_product for: [image, quantity]
          None, MaxStock, MaxFaults

Image == Request \cup {Link, None}
Row == [image : Image, quantity : 0..MaxStock]

ASSUME CatalogAssumption ==
    /\ MaxStock \in Nat /\ MaxFaults \in Nat
    /\ {Link, None, Keep} \cap Request = {} /\ None \notin Row
    /\ \A p \in Patch : p.image \in {Link, None, Keep} /\ p.quantity \in 0..MaxStock \cup {Keep}

VARIABLES row,       \* [image, quantity], or None
          objects,   \* the images in the bucket, named by the request that uploaded them
          req,       \* request -> where it is, and what it has loaded
          entry, reader, kept,   \* CacheAside: the product card
          owed,      \* the quantity the seller wrote last, with all that moved since
          overlaps,  \* commits that replaced another image than the one they had loaded
          doubted,   \* a commit succeeded and its handler was told that it failed
          faults

Cache == INSTANCE CacheAside

cached == <<entry, reader, kept>>
counted == <<owed, overlaps, doubted, faults>>
vars == <<row, objects, req, cached, counted>>

Idle == [pc |-> "new", kind |-> "none", loaded |-> None, image |-> Keep, quantity |-> Keep]

TypeOK ==
    /\ row \in Row \cup {None} /\ objects \subseteq Request
    /\ req \in [Request -> [pc : {"new", "put", "commit", "undo", "uncache", "drop", "done"},
                            kind : {"none", "update", "upload", "delete"},
                            loaded : Row \cup {None},
                            image : Image \cup {Keep}, quantity : 0..MaxStock \cup {Keep}]]
    /\ kept \in BOOLEAN /\ owed \in 0..MaxStock /\ overlaps \in 0..Cardinality(Request)
    /\ doubted \in BOOLEAN /\ faults \in 0..MaxFaults

Init ==
    /\ row = None /\ objects = {} /\ req = [r \in Request |-> Idle]
    /\ Cache!CacheInit
    /\ owed = 0 /\ overlaps = 0 /\ doubted = FALSE /\ faults = 0

IsS3Key(image) == image \in Request
Changed(loaded, named) == named \notin {Keep, loaded}
Replaces(r) == req[r].kind = "delete" \/ Changed(req[r].loaded.image, req[r].image)
Old(r) == IF req[r].kind # "none" /\ Replaces(r) /\ IsS3Key(req[r].loaded.image)
          THEN {req[r].loaded.image} ELSE {}

\* A request goes on, with what it still needs.
Goes(r, pc) ==
    req' = [req EXCEPT ![r] = IF pc = "done" \/ (pc = "uncache" /\ Old(r) = {})
                              THEN [Idle EXCEPT !.pc = pc] ELSE [@ EXCEPT !.pc = pc]]

-----------------------------------------------------------------------------
(* What a request asks for                                                 *)

\* create_product; the link of an image is all it can name.
Create(image, quantity) ==
    /\ \A r \in Request : req[r].pc = "new"
    /\ row = None
    /\ row' = [image |-> image, quantity |-> quantity]
    /\ owed' = quantity
    /\ UNCHANGED <<objects, req, cached, overlaps, doubted, faults>>

\* The product is read; a seller who is not its owner is refused and changes nothing.
Load(r, kind, pc, image, quantity) ==
    /\ req[r].pc = "new" /\ row # None
    /\ req' = [req EXCEPT ![r] = [pc |-> pc, kind |-> kind, loaded |-> row,
                                  image |-> image, quantity |-> quantity]]
    /\ UNCHANGED <<row, objects, cached, counted>>

UpdateProduct(r, image, quantity) == Load(r, "update", "commit", image, quantity)
UploadProductImage(r) == Load(r, "upload", "put", r, Keep)
DeleteProduct(r) == Load(r, "delete", "commit", Keep, Keep)

\* reserve_product and release_product: one conditional UPDATE and its commit.
Count(r, change) ==
    /\ req[r].pc = "new" /\ row # None /\ row.quantity + change \in 0..MaxStock
    /\ row' = [row EXCEPT !.quantity = @ + change]
    /\ owed' = owed + change
    /\ req' = [req EXCEPT ![r] = [Idle EXCEPT !.pc = "uncache"]]
    /\ Cache!Change
    /\ UNCHANGED <<objects, overlaps, doubted, faults>>

-----------------------------------------------------------------------------
(* The steps of an edit                                                    *)

\* _save_file_to_s3
PutReplacing(r) ==
    /\ req[r].pc = "put"
    /\ objects' = (objects \cup {r}) \ {req[r].loaded.image}
    /\ Goes(r, "commit")
    /\ UNCHANGED <<row, cached, counted>>
Put(r) ==
    /\ req[r].pc = "put"
    /\ objects' = objects \cup {r}
    /\ Goes(r, "commit")
    /\ UNCHANGED <<row, cached, counted>>

\* The session writes the columns whose loaded value the request has changed.
Writes(r) == \/ Changed(req[r].loaded.image, req[r].image)
             \/ Changed(req[r].loaded.quantity, req[r].quantity)
Column(loaded, named, current) == IF Changed(loaded, named) THEN named ELSE current
WrittenWhole(r) ==
    IF req[r].kind = "delete" THEN None
    ELSE [image |-> Column(req[r].loaded.image, req[r].image, row.image),
          quantity |-> Column(Keep, req[r].quantity, req[r].loaded.quantity)]
Written(r) ==
    IF req[r].kind = "delete" THEN None
    ELSE [image |-> Column(req[r].loaded.image, req[r].image, row.image),
          quantity |-> Column(req[r].loaded.quantity, req[r].quantity, row.quantity)]

Applied(r) ==
    /\ row' = Written(r)
    /\ overlaps' = IF Replaces(r) /\ row # None /\ row.image # req[r].loaded.image
                   THEN overlaps + 1 ELSE overlaps
    /\ owed' = IF req[r].kind = "update" /\ Changed(req[r].loaded.quantity, req[r].quantity)
               THEN req[r].quantity ELSE owed
Apply(r) == Applied(r) /\ IF row' # row THEN Cache!Change ELSE UNCHANGED cached

\* A row that is gone: DELETE finds nothing, an UPDATE of it is an error.
Found(r) == row # None \/ req[r].kind = "delete" \/ ~Writes(r)
Commit(r) ==
    /\ req[r].pc = "commit"
    /\ \/ /\ row # None
          /\ Apply(r)
          /\ Goes(r, "uncache")
       \/ /\ row = None /\ Found(r)
          /\ Goes(r, "uncache")
          /\ UNCHANGED <<row, cached, owed, overlaps>>
       \/ /\ row = None /\ ~Found(r)
          /\ Goes(r, IF req[r].kind = "upload" THEN "undo" ELSE "done")
          /\ UNCHANGED <<row, cached, owed, overlaps>>
    /\ UNCHANGED <<objects, doubted, faults>>

\* upload_product_image: rollback, and the new image is deleted again.
UndoKeeping(r) ==
    /\ req[r].pc = "undo"
    /\ Goes(r, "done")
    /\ UNCHANGED <<row, objects, cached, counted>>
Undo(r) ==
    /\ req[r].pc = "undo"
    /\ objects' = objects \ {r}
    /\ Goes(r, "done")
    /\ UNCHANGED <<row, cached, counted>>

\* _invalidate_product; then the replaced image, if it was in the bucket, is deleted.
UncacheReplaced(r) ==
    /\ req[r].pc = "uncache"
    /\ IF Old(r) = {} THEN UNCHANGED cached ELSE Cache!Delete
    /\ Goes(r, IF Old(r) = {} THEN "done" ELSE "drop")
    /\ UNCHANGED <<row, objects, counted>>
Uncache(r) ==
    /\ req[r].pc = "uncache"
    /\ Cache!Delete
    /\ Goes(r, IF Old(r) = {} THEN "done" ELSE "drop")
    /\ UNCHANGED <<row, objects, counted>>
DropOld(r) ==
    /\ req[r].pc = "drop"
    /\ objects' = objects \ Old(r)
    /\ Goes(r, "done")
    /\ UNCHANGED <<row, cached, counted>>

-----------------------------------------------------------------------------
(* get_product_by_id; a product that is gone is answered 404, not cached   *)

\* The card of the row, with the signed link of its image or with none.
Card(signed) == [product |-> row, signed |-> signed]
ReadProduct(g) == /\ row # None /\ Cache!Load(g, Card(TRUE))
                  /\ UNCHANGED <<row, objects, req, counted>>
FillCard(g) == Cache!Fill(g) /\ UNCHANGED <<row, objects, req, counted>>
DropRead(g) == Cache!NoFill(g) /\ UNCHANGED <<row, objects, req, counted>>
ExpireCard == Cache!Expire /\ UNCHANGED <<row, objects, req, counted>>

-----------------------------------------------------------------------------
(* What may fail                                                           *)

Fault == faults < MaxFaults /\ faults' = faults + 1

\* put_object fails, or its answer is lost: the handler raises either way.
PutFails(r) ==
    /\ Fault /\ req[r].pc = "put"
    /\ objects' \in {objects, objects \cup {r}}
    /\ Goes(r, "done")
    /\ UNCHANGED <<row, cached, owed, overlaps, doubted>>

\* The commit fails, or it succeeds and its answer is lost.
CommitFails(r) ==
    /\ Fault /\ req[r].pc = "commit"
    /\ Goes(r, IF req[r].kind = "upload" THEN "undo" ELSE "done")
    /\ \/ UNCHANGED <<row, cached, owed, overlaps, doubted>>
       \/ /\ row # None /\ Applied(r) /\ doubted' = TRUE
          /\ IF row' # row THEN Cache!ChangeKept ELSE UNCHANGED cached
    /\ UNCHANGED objects

\* The link of the image cannot be made: the card without it is cached all the same.
SignFails(g) ==
    /\ Fault /\ row # None /\ IsS3Key(row.image) /\ Cache!Load(g, Card(FALSE))
    /\ UNCHANGED <<row, objects, req, owed, overlaps, doubted>>

\* Redis does not answer the delete: a warning, and the edit goes on.
UncacheFails(r) ==
    /\ Fault /\ req[r].pc = "uncache"
    /\ Cache!LoseDelete
    /\ Goes(r, IF Old(r) = {} THEN "done" ELSE "drop")
    /\ UNCHANGED <<row, objects, owed, overlaps, doubted>>

\* delete_file swallows the errors of S3.
DeleteFails(r) ==
    /\ Fault /\ req[r].pc \in {"undo", "drop"}
    /\ Goes(r, "done")
    /\ UNCHANGED <<row, objects, cached, owed, overlaps, doubted>>

Die(r) ==
    /\ Fault /\ req[r].pc \in {"put", "commit", "undo", "uncache", "drop"}
    /\ Goes(r, "done")
    /\ IF req[r].pc = "uncache" THEN Cache!LoseDelete ELSE UNCHANGED cached
    /\ UNCHANGED <<row, objects, owed, overlaps, doubted>>

-----------------------------------------------------------------------------
Edit(r) == \/ \E p \in Patch : UpdateProduct(r, p.image, p.quantity)
           \/ UploadProductImage(r) \/ DeleteProduct(r)
           \/ \E change \in {-1, 1} : Count(r, change)
           \/ Put(r) \/ Commit(r) \/ Undo(r) \/ Uncache(r) \/ DropOld(r)
Fails(r) == PutFails(r) \/ CommitFails(r) \/ UncacheFails(r) \/ DeleteFails(r) \/ Die(r)
Read == ExpireCard \/ \E g \in Reader : ReadProduct(g) \/ FillCard(g) \/ DropRead(g)
                               \/ SignFails(g)

Next == \/ \E image \in {Link, None}, quantity \in 0..MaxStock : Create(image, quantity)
        \/ \E r \in Request : Edit(r) \/ Fails(r)
        \/ Read

Spec == Init /\ [][Next]_vars

-----------------------------------------------------------------------------
(* Properties                                                              *)

\* The image a product shows is in the bucket, whatever edits, failures and deaths
\* crossed one another: only a commit that was taken for failed may break it.  The
\* links are those _is_s3_key knows for links: ProductCreate also takes 'HTTP://...',
\* which _is_s3_key takes for a key of the bucket, and that no Link stands for.
ShownImageExists ==
    (row # None /\ IsS3Key(row.image)) => (row.image \in objects \/ doubted)

\* An object nobody refers to, and nobody is about to use or delete, was left by a
\* failure or by two edits that replaced the same image.
InUse(r) == CASE req[r].pc \in {"commit", "undo"} -> {r}
              [] req[r].pc \in {"uncache", "drop"} -> Old(r)
              [] OTHER -> {}
Orphans == objects \ ((IF row = None THEN {} ELSE {row.image}) \cup UNION {InUse(r) : r \in Request})
OrphanNeedsCause == Cardinality(Orphans) <= faults + overlaps

\* An edit that does not name the quantity undoes no reservation and no release.
EditsKeepReservations == row # None => row.quantity = owed

\* A cached card differs from the product only when its fill overlapped the change,
\* or the delete that follows the change is still to come or was lost.  (It may lack
\* the link of the image for as long as it is cached: SignFails.)
CachedCardStaleOnlyIfLate ==
    Cache!StaleOnlyIfLate(Card(entry # None /\ entry.value.signed),
                          \E r \in Request : req[r].pc = "uncache")
=============================================================================
