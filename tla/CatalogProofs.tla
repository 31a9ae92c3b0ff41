---------------------------- MODULE CatalogProofs ----------------------------
(***************************************************************************)
(* What TLAPS proves of Catalog, for any requests, readers, patches, stock *)
(* and faults: a product shows an image that is there, its quantity is     *)
(* what was written and moved, and its cached card is current or known to  *)
(* be late.                                                                *)
(***************************************************************************)
EXTENDS Catalog, FiniteSetTheorems, TLAPS

Pc == {"new", "put", "commit", "undo", "uncache", "drop", "done"}
Job == [pc : Pc, kind : {"none", "update", "upload", "delete"}, loaded : Row \cup {None},
        image : Image \cup {Keep}, quantity : 0..MaxStock \cup {Keep}]

Typed ==
    /\ row \in Row \cup {None} /\ objects \subseteq Request
    /\ req \in [Request -> Job] /\ doubted \in BOOLEAN /\ owed \in 0..MaxStock

(* What a request still has in hand is what it asked for.                  *)
Asked(r) ==
    /\ req[r].kind # "none" => req[r].loaded \in Row
    /\ req[r].kind = "update" => req[r].image \in {Link, None, Keep}
    /\ req[r].kind = "upload" => req[r].image = r /\ req[r].quantity = Keep
    /\ req[r].pc \in {"put", "undo"} => req[r].kind = "upload"
    /\ req[r].pc = "commit" => req[r].kind # "none"

(* A request that is past its commit writes the row no more.               *)
Past(r) == req[r].pc \in {"uncache", "drop", "done"}

ShownIsThere == (row # None /\ row.image \in Request) => row.image \in objects /\ Past(row.image)
LoadedIsPast(r) ==
    (req[r].kind # "none" /\ req[r].loaded.image \in Request) => Past(req[r].loaded.image)
OldIsHidden(r) ==
    req[r].pc \in {"uncache", "drop"} => \A x \in Old(r) : row = None \/ row.image # x
UploadIsThere(r) == (req[r].pc = "commit" /\ req[r].kind = "upload") => r \in objects

Safe ==
    /\ ShownIsThere
    /\ \A r \in Request : LoadedIsPast(r) /\ OldIsHidden(r) /\ UploadIsThere(r)

IInv == Typed /\ (\A r \in Request : Asked(r)) /\ (doubted \/ Safe) /\ EditsKeepReservations
-----------------------------------------------------------------------------
LEMMA IdleFits ==
    /\ Idle \in Job /\ Idle.pc = "new" /\ Idle.kind = "none"
    /\ \A pc \in Pc : /\ [Idle EXCEPT !.pc = pc] \in Job
                      /\ [Idle EXCEPT !.pc = pc].pc = pc
                      /\ [Idle EXCEPT !.pc = pc].kind = "none"
BY DEF Idle, Job, Pc

LEMMA InitIInv == Init => IInv
<1> SUFFICES ASSUME Init PROVE IInv
  OBVIOUS
<1>1. req \in [Request -> Job] /\ \A r \in Request : req[r].pc = "new" /\ req[r].kind = "none"
  BY IdleFits DEF Init
<1>4. Typed
  <2>1. row \in Row \cup {None} /\ objects \subseteq Request /\ doubted \in BOOLEAN
    BY DEF Init
  <2>2. owed \in 0..MaxStock
    BY CatalogAssumption DEF Init
  <2> QED BY <1>1, <2>1, <2>2 DEF Typed
<1>2. row = None
  BY DEF Init
<1>3. \A r \in Request : Asked(r) /\ LoadedIsPast(r) /\ OldIsHidden(r) /\ UploadIsThere(r)
  BY <1>1 DEF Asked, LoadedIsPast, OldIsHidden, UploadIsThere
<1> QED BY <1>2, <1>3, <1>4 DEF IInv, Safe, ShownIsThere, EditsKeepReservations

(* The next step of a request: it keeps what it has in hand, or drops it.  *)
LEMMA GoesFits ==
    ASSUME Typed, NEW r \in Request, Asked(r), NEW pc \in Pc, Goes(r, pc),
           pc \in {"put", "undo", "commit"} => req[r].kind = "upload"
    PROVE  /\ req' \in [Request -> Job] /\ req'[r].pc = pc /\ Asked(r)'
           /\ \A s \in Request : s # r => req'[s] = req[s]
           /\ \/ req'[r].kind = "none"
              \/ /\ req'[r].kind = req[r].kind /\ req'[r].loaded = req[r].loaded
                 /\ req'[r].image = req[r].image /\ req'[r].quantity = req[r].quantity
           /\ (pc = "uncache" /\ Old(r) = {}) => req'[r].kind = "none"
<1> DEFINE w == IF pc = "done" \/ (pc = "uncache" /\ Old(r) = {})
                THEN [Idle EXCEPT !.pc = pc] ELSE [req[r] EXCEPT !.pc = pc]
<1>1. req \in [Request -> Job] /\ req[r] \in Job /\ req' = [req EXCEPT ![r] = w]
  BY DEF Typed, Goes
<1>2. CASE pc = "done" \/ (pc = "uncache" /\ Old(r) = {})
  <2>1. w = [Idle EXCEPT !.pc = pc]
    BY <1>2
  <2>2. w \in Job /\ w.pc = pc /\ w.kind = "none"
    BY <2>1, IdleFits
  <2> HIDE DEF w
  <2> QED BY <1>1, <1>2, <2>2 DEF Asked
<1>3. CASE ~(pc = "done" \/ (pc = "uncache" /\ Old(r) = {}))
  <2>1. w = [req[r] EXCEPT !.pc = pc]
    BY <1>3
  <2>2. /\ w \in Job /\ w.pc = pc /\ w.kind = req[r].kind /\ w.loaded = req[r].loaded
        /\ w.image = req[r].image /\ w.quantity = req[r].quantity
    BY <1>1, <2>1 DEF Job
  <2> HIDE DEF w
  <2>3. req' \in [Request -> Job] /\ req'[r] = w /\ \A s \in Request : s # r => req'[s] = req[s]
    BY <1>1, <2>2
  <2>4. Asked(r)'
    BY <2>2, <2>3 DEF Asked
  <2> QED BY <1>3, <2>2, <2>3, <2>4
<1> QED BY <1>2, <1>3

(* What a request replaces depends on what it has in hand alone.           *)
LEMMA OldKept ==
    ASSUME NEW r \in Request,
           \/ req'[r].kind = "none"
           \/ /\ req'[r].kind = req[r].kind /\ req'[r].loaded = req[r].loaded
              /\ req'[r].image = req[r].image
    PROVE  Old(r)' \subseteq Old(r)
BY DEF Old, Replaces, Changed, IsS3Key

LEMMA OldIsLoaded ==
    ASSUME NEW r \in Request, NEW x \in Old(r)
    PROVE  req[r].kind # "none" /\ Replaces(r) /\ x = req[r].loaded.image /\ x \in Request
BY DEF Old, IsS3Key

(* A request moves on; the row and the bucket keep what is shown.          *)
LEMMA SafeMove ==
    ASSUME Typed, Safe, NEW r \in Request,
           \A s \in Request : s # r => req'[s] = req[s],
           Past(r) => Past(r)',
           LoadedIsPast(r)', OldIsHidden(r)', UploadIsThere(r)',
           row' = row,
           \A x \in Request : x \in objects /\ x \notin objects' =>
               /\ row # None => row.image # x
               /\ Past(x) \/ x = r
    PROVE  Safe'
<1>1. \A s \in Request : Past(s) => Past(s)'
  BY DEF Past
<1>2. ShownIsThere'
  BY <1>1 DEF Safe, ShownIsThere
<1>3. ASSUME NEW s \in Request, s # r
      PROVE  LoadedIsPast(s)' /\ OldIsHidden(s)' /\ UploadIsThere(s)'
  <2>1. req'[s] = req[s] /\ Old(s)' = Old(s)
    BY <1>3 DEF Old, Replaces, Changed, IsS3Key
  <2>2. LoadedIsPast(s)'
    BY <1>1, <2>1 DEF Safe, LoadedIsPast
  <2>3. OldIsHidden(s)'
    BY <2>1 DEF Safe, OldIsHidden
  <2>4. UploadIsThere(s)'
    BY <1>3, <2>1 DEF Safe, UploadIsThere, Past
  <2> QED BY <2>2, <2>3, <2>4
<1> QED BY <1>2, <1>3 DEF Safe

(* The row and what is owed stay; a request moves on.                      *)
LEMMA MoveStep ==
    ASSUME IInv, NEW r \in Request, NEW pc \in Pc, Goes(r, pc),
           pc \in {"put", "undo", "commit"} => req[r].kind = "upload",
           Past(r) => pc \in {"uncache", "drop", "done"},
           pc \in {"uncache", "drop"} => row = None \/ req[r].pc \in {"uncache", "drop"},
           pc = "commit" => r \in objects',
           UNCHANGED <<row, owed, doubted>>, objects' \subseteq Request,
           ~doubted => \A x \in Request : x \in objects /\ x \notin objects' =>
               /\ row # None => row.image # x
               /\ Past(x) \/ x = r
    PROVE  IInv'
<1>1. Typed /\ Asked(r)
  BY DEF IInv
<1>2. /\ req' \in [Request -> Job] /\ req'[r].pc = pc /\ Asked(r)'
      /\ \A s \in Request : s # r => req'[s] = req[s]
      /\ \/ req'[r].kind = "none"
         \/ /\ req'[r].kind = req[r].kind /\ req'[r].loaded = req[r].loaded
            /\ req'[r].image = req[r].image /\ req'[r].quantity = req[r].quantity
  BY <1>1, GoesFits
<1>3. Typed' /\ EditsKeepReservations'
  BY <1>2 DEF IInv, Typed, EditsKeepReservations
<1>4. \A s \in Request : Asked(s)'
  BY <1>2 DEF IInv, Asked
<1>5. ASSUME ~doubted PROVE Safe'
  <2>1. Safe
    BY <1>5 DEF IInv
  <2>2. \A s \in Request : Past(s) => Past(s)'
    BY <1>2 DEF Past
  <2>3. LoadedIsPast(r)'
    BY <1>2, <2>1, <2>2 DEF Safe, LoadedIsPast
  <2>4. OldIsHidden(r)'
    <3>1. Old(r)' \subseteq Old(r)
      BY <1>2, OldKept
    <3> QED BY <1>2, <2>1, <3>1 DEF Safe, OldIsHidden
  <2>5. UploadIsThere(r)'
    BY <1>2 DEF UploadIsThere
  <2>6. Past(r) => Past(r)'
    BY <2>2
  <2> QED BY <1>1, <1>2, <1>5, <2>1, <2>3, <2>4, <2>5, <2>6, SafeMove
<1> QED BY <1>3, <1>4, <1>5 DEF IInv

(* A request that has not begun does.                                      *)
LEMMA LoadStep ==
    ASSUME IInv, NEW r \in Request, NEW kind \in {"update", "upload", "delete"},
           NEW pc \in {"put", "commit"},
           NEW image \in Image \cup {Keep}, NEW quantity \in 0..MaxStock \cup {Keep},
           Load(r, kind, pc, image, quantity),
           kind = "update" => image \in {Link, None, Keep},
           kind = "upload" => image = r /\ quantity = Keep /\ pc = "put",
           pc = "put" => kind = "upload"
    PROVE  IInv'
<1> DEFINE w == [pc |-> pc, kind |-> kind, loaded |-> row, image |-> image, quantity |-> quantity]
<1>1. /\ req \in [Request -> Job] /\ row \in Row /\ req[r].pc = "new"
      /\ req' = [req EXCEPT ![r] = w] /\ UNCHANGED <<row, objects, owed, doubted>>
  BY DEF IInv, Typed, Load, counted
<1>2. /\ w \in Job /\ w.pc = pc /\ w.kind = kind /\ w.loaded = row
      /\ w.image = image /\ w.quantity = quantity
  BY <1>1 DEF Job, Pc
<1> HIDE DEF w
<1>3. req' \in [Request -> Job] /\ req'[r] = w /\ \A s \in Request : s # r => req'[s] = req[s]
  BY <1>1, <1>2
<1>4. Typed' /\ EditsKeepReservations'
  BY <1>1, <1>3 DEF IInv, Typed, EditsKeepReservations
<1>5. \A s \in Request : Asked(s)'
  BY <1>1, <1>2, <1>3 DEF IInv, Asked
<1>6. ASSUME ~doubted PROVE Safe'
  <2>1. Safe /\ Typed
    BY <1>6 DEF IInv
  <2>2. ~Past(r)
    BY <1>1 DEF Past
  <2>3. LoadedIsPast(r)'
    <3>1. row # None
      BY DEF Load
    <3>2. row.image \in Request => Past(row.image) /\ row.image # r
      BY <2>1, <2>2, <3>1 DEF Safe, ShownIsThere
    <3> QED BY <1>2, <1>3, <3>2 DEF LoadedIsPast, Past
  <2>4. OldIsHidden(r)' /\ UploadIsThere(r)'
    BY <1>2, <1>3 DEF OldIsHidden, UploadIsThere
  <2>5. row' = row /\ \A x \in Request : ~(x \in objects /\ x \notin objects')
    BY <1>1
  <2>6. \A s \in Request : s # r => req'[s] = req[s]
    BY <1>3
  <2>7. Past(r) => Past(r)'
    BY <2>2
  <2> QED BY <2>1, <2>3, <2>4, <2>5, <2>6, <2>7, SafeMove
<1> QED BY <1>1, <1>4, <1>5, <1>6 DEF IInv

LEMMA CreateStep ==
    ASSUME IInv, NEW image \in {Link, None}, NEW quantity \in 0..MaxStock, Create(image, quantity)
    PROVE  IInv'
<1> DEFINE w == [image |-> image, quantity |-> quantity]
<1>1. row' = w /\ owed' = quantity /\ UNCHANGED <<objects, req, doubted>>
  BY DEF Create
<1>2. w \in Row /\ w.image = image /\ w.quantity = quantity /\ image \notin Request
  BY CatalogAssumption DEF Row, Image
<1> HIDE DEF w
<1>3. Typed' /\ EditsKeepReservations'
  BY <1>1, <1>2 DEF IInv, Typed, EditsKeepReservations
<1>4. \A s \in Request : Asked(s)'
  BY <1>1 DEF IInv, Asked
<1>5. ASSUME ~doubted PROVE Safe'
  <2>1. Safe
    BY <1>5 DEF IInv
  <2>2. ShownIsThere'
    BY <1>1, <1>2 DEF ShownIsThere
  <2>3. ASSUME NEW s \in Request
        PROVE  LoadedIsPast(s)' /\ OldIsHidden(s)' /\ UploadIsThere(s)'
    <3>1. LoadedIsPast(s)' /\ UploadIsThere(s)'
      BY <1>1, <2>1 DEF Safe, LoadedIsPast, UploadIsThere, Past
    <3>2. req[s].pc = "new"
      BY DEF Create
    <3> QED BY <1>1, <3>1, <3>2 DEF OldIsHidden
  <2> QED BY <2>2, <2>3 DEF Safe
<1> QED BY <1>1, <1>3, <1>4, <1>5 DEF IInv

LEMMA CountStep ==
    ASSUME IInv, NEW r \in Request, NEW change \in {-1, 1}, Count(r, change)
    PROVE  IInv'
<1> DEFINE w == [Idle EXCEPT !.pc = "uncache"]
           v == [row EXCEPT !.quantity = row.quantity + change]
<1>1. /\ row \in Row /\ row.quantity + change \in 0..MaxStock /\ req[r].pc = "new"
      /\ row' = v /\ owed' = owed + change /\ req' = [req EXCEPT ![r] = w]
      /\ UNCHANGED <<objects, doubted>> /\ row # None
  BY DEF IInv, Typed, Count
<1>2. w \in Job /\ w.pc = "uncache" /\ w.kind = "none"
  BY IdleFits DEF Pc
<1>3. v \in Row /\ v.image = row.image /\ v.quantity = row.quantity + change
  BY <1>1 DEF Row
<1>4. row.quantity = owed
  BY <1>1 DEF IInv, EditsKeepReservations
<1> HIDE DEF w, v
<1>5. req' \in [Request -> Job] /\ req'[r] = w /\ \A s \in Request : s # r => req'[s] = req[s]
  BY <1>1, <1>2 DEF IInv, Typed
<1>6. Typed' /\ EditsKeepReservations'
  BY <1>1, <1>3, <1>4, <1>5 DEF IInv, Typed, EditsKeepReservations
<1>7. \A s \in Request : Asked(s)'
  BY <1>2, <1>5 DEF IInv, Asked
<1>8. ASSUME ~doubted PROVE Safe'
  <2>1. Safe
    BY <1>8 DEF IInv
  <2>2. \A s \in Request : Past(s) => Past(s)'
    BY <1>2, <1>5 DEF Past
  <2>3. ShownIsThere'
    BY <1>1, <1>3, <2>1, <2>2 DEF Safe, ShownIsThere
  <2>4. LoadedIsPast(r)' /\ OldIsHidden(r)' /\ UploadIsThere(r)'
    BY <1>2, <1>5 DEF LoadedIsPast, OldIsHidden, Old, UploadIsThere
  <2>5. ASSUME NEW s \in Request, s # r
        PROVE  LoadedIsPast(s)' /\ OldIsHidden(s)' /\ UploadIsThere(s)'
    <3>1. req'[s] = req[s] /\ Old(s)' = Old(s)
      BY <1>5, <2>5 DEF Old, Replaces, Changed, IsS3Key
    <3>2. LoadedIsPast(s)' /\ UploadIsThere(s)'
      BY <1>1, <2>1, <2>2, <3>1 DEF Safe, LoadedIsPast, UploadIsThere
    <3>3. OldIsHidden(s)'
      BY <1>1, <1>3, <2>1, <3>1 DEF Safe, OldIsHidden
    <3> QED BY <3>2, <3>3
  <2> QED BY <2>3, <2>4, <2>5 DEF Safe
<1> QED BY <1>1, <1>6, <1>7, <1>8 DEF IInv

(* What a commit writes: the columns the request changed, over the row as  *)
(* it is now.                                                              *)
LEMMA WrittenFits ==
    ASSUME Typed, NEW r \in Request, Asked(r), row # None, req[r].kind # "none"
    PROVE  /\ Written(r) \in Row \cup {None}
           /\ req[r].kind = "delete" => Written(r) = None
           /\ req[r].kind # "delete" =>
                 /\ Written(r) \in Row
                 /\ Written(r).image = IF Changed(req[r].loaded.image, req[r].image)
                                       THEN req[r].image ELSE row.image
                 /\ Written(r).quantity = IF Changed(req[r].loaded.quantity, req[r].quantity)
                                          THEN req[r].quantity ELSE row.quantity
<1>1. row \in Row /\ row.image \in Image /\ row.quantity \in 0..MaxStock
  BY DEF Typed, Row
<1>2. req[r].image \in Image \cup {Keep} /\ req[r].quantity \in 0..MaxStock \cup {Keep}
  BY DEF Typed, Job
<1>3. CASE req[r].kind = "delete"
  BY <1>3 DEF Written
<1>4. CASE req[r].kind # "delete"
  <2> DEFINE i == Column(req[r].loaded.image, req[r].image, row.image)
             q == Column(req[r].loaded.quantity, req[r].quantity, row.quantity)
  <2>1. i \in Image /\ q \in 0..MaxStock
    BY <1>1, <1>2 DEF Column, Changed
  <2>2. Written(r) = [image |-> i, quantity |-> q]
    BY <1>4 DEF Written
  <2>3. i = (IF Changed(req[r].loaded.image, req[r].image) THEN req[r].image ELSE row.image)
        /\ q = (IF Changed(req[r].loaded.quantity, req[r].quantity)
                THEN req[r].quantity ELSE row.quantity)
    BY DEF Column
  <2> HIDE DEF i, q
  <2>4. Written(r) \in Row /\ Written(r).image = i /\ Written(r).quantity = q
    BY <2>1, <2>2 DEF Row
  <2> QED BY <1>4, <2>3, <2>4
<1> QED BY <1>3, <1>4

(* An image that is written is a link, or the upload of its own request,   *)
(* which is in the bucket and was not past its commit.                     *)
LEMMA WrittenImage ==
    ASSUME IInv, ~doubted, NEW r \in Request, req[r].pc = "commit", row # None,
           Written(r) # None, Written(r).image \in Request
    PROVE  Written(r).image = row.image \/ (Written(r).image = r /\ r \in objects)
<1>1. Typed /\ Asked(r) /\ Safe
  BY DEF IInv
<1>2. req[r].kind \in {"update", "upload", "delete"} /\ req[r].kind # "none"
  BY <1>1 DEF Asked, Typed, Job
<1>3. req[r].kind # "delete"
  BY <1>1, <1>2, WrittenFits
<1>4. Written(r).image = IF Changed(req[r].loaded.image, req[r].image)
                         THEN req[r].image ELSE row.image
  BY <1>1, <1>2, <1>3, WrittenFits
<1>5. CASE req[r].kind = "update"
  BY <1>1, <1>4, <1>5, CatalogAssumption DEF Asked
<1>6. CASE req[r].kind = "upload"
  BY <1>1, <1>4, <1>6 DEF Asked, Safe, UploadIsThere
<1> QED BY <1>2, <1>3, <1>5, <1>6

(* The quantity that a commit writes is the one that is owed.              *)
LEMMA AppliedFits ==
    ASSUME IInv, NEW r \in Request, req[r].pc = "commit", row # None, Applied(r)
    PROVE  /\ row' = Written(r) /\ row' \in Row \cup {None}
           /\ owed' \in 0..MaxStock /\ EditsKeepReservations'
<1>1. Typed /\ Asked(r) /\ req[r].kind \in {"update", "upload", "delete"} /\ req[r].kind # "none"
  BY DEF IInv, Asked, Typed, Job
<1>2. row' = Written(r) /\ row' \in Row \cup {None}
  BY <1>1, WrittenFits DEF Applied
<1> DEFINE named == Changed(req[r].loaded.quantity, req[r].quantity)
<1>3. owed' = IF req[r].kind = "update" /\ named THEN req[r].quantity ELSE owed
  BY DEF Applied
<1>4. named => req[r].quantity \in 0..MaxStock /\ req[r].quantity # Keep
  BY <1>1 DEF Typed, Job, Changed
<1>5. req[r].kind = "upload" => ~named
  BY <1>1 DEF Asked, Changed
<1>6. row' # None => row'.quantity = IF named THEN req[r].quantity ELSE row.quantity
  BY <1>1, <1>2, WrittenFits
<1>7. row' = None \/ req[r].kind # "delete"
  BY <1>1, <1>2, WrittenFits
<1>8. row.quantity = owed /\ owed \in 0..MaxStock
  BY DEF IInv, EditsKeepReservations, Typed
<1> HIDE DEF named
<1>9. owed' \in 0..MaxStock /\ EditsKeepReservations'
  BY <1>1, <1>3, <1>4, <1>5, <1>6, <1>7, <1>8 DEF EditsKeepReservations
<1> QED BY <1>2, <1>9

LEMMA ApplyStep ==
    ASSUME IInv, NEW r \in Request, req[r].pc = "commit", row # None, Apply(r),
           Goes(r, "uncache"), UNCHANGED <<objects, doubted>>
    PROVE  IInv'
<1>1. Typed /\ Asked(r) /\ req[r].kind \in {"update", "upload", "delete"} /\ req[r].kind # "none"
  BY DEF IInv, Asked, Typed, Job
<1>2. row' = Written(r) /\ row' \in Row \cup {None}
  BY AppliedFits DEF Apply
<1>3. /\ req' \in [Request -> Job] /\ req'[r].pc = "uncache" /\ Asked(r)'
      /\ \A s \in Request : s # r => req'[s] = req[s]
      /\ \/ req'[r].kind = "none"
         \/ /\ req'[r].kind = req[r].kind /\ req'[r].loaded = req[r].loaded
            /\ req'[r].image = req[r].image /\ req'[r].quantity = req[r].quantity
  BY <1>1, GoesFits DEF Pc
<1>4. \A s \in Request : Asked(s)'
  BY <1>3 DEF IInv, Asked
<1>5. owed' \in 0..MaxStock /\ EditsKeepReservations'
  BY AppliedFits DEF Apply
<1>6. Typed'
  BY <1>2, <1>3, <1>5 DEF IInv, Typed
<1>7. ASSUME ~doubted PROVE Safe'
  <2>1. Safe
    BY <1>7 DEF IInv
  <2>2. \A s \in Request : Past(s) => Past(s)'
    BY <1>3 DEF Past
  <2>3. Past(r)' /\ ~Past(r)
    BY <1>3 DEF Past
  <2>4. (row' # None /\ row'.image \in Request) =>
            row'.image = row.image \/ (row'.image = r /\ r \in objects)
    BY <1>2, <1>7, WrittenImage
  <2>5. ShownIsThere'
    BY <2>1, <2>2, <2>3, <2>4 DEF Safe, ShownIsThere
  <2>6. LoadedIsPast(r)' /\ UploadIsThere(r)'
    BY <1>3, <2>1, <2>2 DEF Safe, LoadedIsPast, UploadIsThere
  <2>7. OldIsHidden(r)'
    <3>1. Old(r)' \subseteq Old(r)
      BY <1>3, OldKept
    <3>2. ASSUME NEW x \in Old(r) PROVE row' = None \/ row'.image # x
      <4>1. Replaces(r) /\ x = req[r].loaded.image
        BY OldIsLoaded
      <4>2. CASE req[r].kind = "delete"
        BY <1>1, <1>2, <4>2, WrittenFits
      <4>3. CASE req[r].kind # "delete"
        <5>1. Changed(req[r].loaded.image, req[r].image)
          BY <4>1, <4>3 DEF Replaces
        <5>2. row'.image = req[r].image
          BY <1>1, <1>2, <4>3, <5>1, WrittenFits
        <5> QED BY <4>1, <5>1, <5>2 DEF Changed
      <4> QED BY <4>2, <4>3
    <3> QED BY <3>1, <3>2 DEF OldIsHidden
  <2>8. ASSUME NEW s \in Request, s # r
        PROVE  LoadedIsPast(s)' /\ OldIsHidden(s)' /\ UploadIsThere(s)'
    <3>1. req'[s] = req[s] /\ Old(s)' = Old(s)
      BY <1>3, <2>8 DEF Old, Replaces, Changed, IsS3Key
    <3>2. LoadedIsPast(s)' /\ UploadIsThere(s)'
      BY <2>1, <2>2, <3>1 DEF Safe, LoadedIsPast, UploadIsThere
    <3>3. ASSUME req[s].pc \in {"uncache", "drop"}, NEW x \in Old(s)
          PROVE  row' = None \/ row'.image # x
      <4>1. x \in Request /\ Past(x)
        BY <2>1, OldIsLoaded DEF Safe, LoadedIsPast
      <4>2. row.image # x
        BY <2>1, <3>3 DEF Safe, OldIsHidden
      <4> QED BY <2>3, <2>4, <4>1, <4>2
    <3>4. OldIsHidden(s)'
      BY <3>1, <3>3 DEF OldIsHidden
    <3> QED BY <3>2, <3>4
  <2> QED BY <2>5, <2>6, <2>7, <2>8 DEF Safe
<1> QED BY <1>4, <1>5, <1>6, <1>7 DEF IInv

LEMMA CommitStep ==
    ASSUME IInv, NEW r \in Request, Commit(r)
    PROVE  IInv'
<1>1. req[r].pc = "commit" /\ UNCHANGED <<objects, doubted>>
  BY DEF Commit
<1>2. objects' \subseteq Request /\ req[r].kind # "none" /\ \A x \in Request : ~(x \in objects /\ x \notin objects')
  BY <1>1 DEF IInv, Typed, Asked
<1>3. CASE row # None /\ Apply(r) /\ Goes(r, "uncache")
  BY <1>1, <1>3, ApplyStep
<1>4. CASE row = None /\ Goes(r, "uncache") /\ UNCHANGED <<row, owed>>
  BY <1>1, <1>2, <1>4, MoveStep DEF Pc
<1>5. CASE row = None /\ Goes(r, "undo") /\ req[r].kind = "upload" /\ UNCHANGED <<row, owed>>
  BY <1>1, <1>2, <1>5, MoveStep DEF Pc, Past
<1>6. CASE row = None /\ Goes(r, "done") /\ UNCHANGED <<row, owed>>
  BY <1>1, <1>2, <1>6, MoveStep DEF Pc
<1> QED BY <1>3, <1>4, <1>5, <1>6 DEF Commit

(* A commit that was taken for failed: from now on doubted.                *)
LEMMA CommitFailsStep ==
    ASSUME IInv, NEW r \in Request, CommitFails(r)
    PROVE  IInv'
<1> DEFINE pc == IF req[r].kind = "upload" THEN "undo" ELSE "done"
<1>1. /\ req[r].pc = "commit" /\ Goes(r, pc) /\ UNCHANGED objects
      /\ pc \in Pc /\ pc \notin {"put", "commit", "uncache", "drop"}
      /\ (pc = "undo" => req[r].kind = "upload")
  BY DEF CommitFails, Pc
<1>2. objects' \subseteq Request /\ req[r].kind # "none" /\ \A x \in Request : ~(x \in objects /\ x \notin objects')
  BY <1>1 DEF IInv, Typed, Asked
<1> HIDE DEF pc
<1>3. CASE UNCHANGED <<row, owed, doubted>>
  BY <1>1, <1>2, <1>3, MoveStep DEF Past
<1>4. CASE row # None /\ Applied(r) /\ doubted' = TRUE
  <2>1. Typed /\ Asked(r) /\ req[r].kind # "none"
    BY <1>2 DEF IInv
  <2>2. row' \in Row \cup {None}
    BY <1>1, <1>4, AppliedFits
  <2>3. owed' \in 0..MaxStock /\ EditsKeepReservations'
    BY <1>1, <1>4, AppliedFits
  <2>4. /\ req' \in [Request -> Job] /\ Asked(r)'
        /\ \A s \in Request : s # r => req'[s] = req[s]
    BY <1>1, <2>1, GoesFits
  <2>5. Typed'
    BY <1>1, <1>2, <1>4, <2>2, <2>3, <2>4 DEF Typed
  <2>6. \A s \in Request : Asked(s)'
    BY <2>4 DEF IInv, Asked
  <2> QED BY <1>4, <2>3, <2>5, <2>6 DEF IInv
<1> QED BY <1>3, <1>4 DEF CommitFails

LEMMA PutStep ==
    ASSUME IInv, NEW r \in Request, Put(r) \/ PutFails(r)
    PROVE  IInv'
<1>1. Typed /\ Asked(r) /\ req[r].pc = "put"
  BY DEF IInv, Put, PutFails
<1>2. /\ req[r].kind = "upload" /\ objects' \in {objects, objects \cup {r}}
      /\ UNCHANGED <<row, owed, doubted>>
      /\ (Goes(r, "commit") /\ r \in objects') \/ Goes(r, "done")
  BY <1>1 DEF Asked, Put, PutFails, counted
<1>3. objects' \subseteq Request /\ \A x \in Request : ~(x \in objects /\ x \notin objects')
  BY <1>1, <1>2 DEF Typed
<1>4. CASE Goes(r, "commit") /\ r \in objects'
  BY <1>1, <1>2, <1>3, <1>4, MoveStep DEF Pc, Past
<1>5. CASE Goes(r, "done")
  BY <1>1, <1>2, <1>3, <1>5, MoveStep DEF Pc, Past
<1> QED BY <1>2, <1>4, <1>5

(* A new image is undone before any row names it.                          *)
LEMMA UndoStep ==
    ASSUME IInv, NEW r \in Request, Undo(r)
    PROVE  IInv'
<1>1. /\ req[r].pc = "undo" /\ objects' = objects \ {r} /\ Goes(r, "done")
      /\ UNCHANGED <<row, owed, doubted>>
  BY DEF Undo, counted
<1>2. objects' \subseteq Request
  BY <1>1 DEF IInv, Typed
<1>3. ASSUME ~doubted, NEW x \in Request, x \in objects, x \notin objects'
      PROVE  (row # None => row.image # x) /\ (Past(x) \/ x = r)
  <2>1. x = r
    BY <1>1, <1>3
  <2>2. ~Past(r)
    BY <1>1 DEF Past
  <2> QED BY <1>3, <2>1, <2>2 DEF IInv, Safe, ShownIsThere
<1> QED BY <1>1, <1>2, <1>3, MoveStep DEF Pc

(* A replaced image is dropped when no row names it any more.              *)
LEMMA DropOldStep ==
    ASSUME IInv, NEW r \in Request, DropOld(r)
    PROVE  IInv'
<1>1. /\ req[r].pc = "drop" /\ objects' = objects \ Old(r) /\ Goes(r, "done")
      /\ UNCHANGED <<row, owed, doubted>>
  BY DEF DropOld, counted
<1>2. objects' \subseteq Request
  BY <1>1 DEF IInv, Typed
<1>3. ASSUME ~doubted, NEW x \in Request, x \in objects, x \notin objects'
      PROVE  (row # None => row.image # x) /\ (Past(x) \/ x = r)
  <2>1. x \in Old(r)
    BY <1>1, <1>3
  <2>2. req[r].kind # "none" /\ x = req[r].loaded.image
    BY <2>1, OldIsLoaded
  <2>3. Safe
    BY <1>3 DEF IInv
  <2>4. Past(x)
    BY <2>2, <2>3 DEF Safe, LoadedIsPast
  <2>5. row # None => row.image # x
    BY <1>1, <2>1, <2>3 DEF Safe, OldIsHidden
  <2> QED BY <2>4, <2>5
<1> QED BY <1>1, <1>2, <1>3, MoveStep DEF Pc

(* The steps that touch neither the row nor the bucket.                    *)
LEMMA QuietStep ==
    ASSUME IInv, NEW r \in Request,
           Uncache(r) \/ UncacheFails(r) \/ DeleteFails(r) \/ Die(r)
    PROVE  IInv'
<1>1. UNCHANGED <<row, objects, owed, doubted>>
  BY DEF Uncache, UncacheFails, DeleteFails, Die, counted
<1>2. objects' \subseteq Request /\ \A x \in Request : ~(x \in objects /\ x \notin objects')
  BY <1>1 DEF IInv, Typed
<1>3. Goes(r, "done") \/ (req[r].pc = "uncache" /\ Goes(r, "drop"))
  BY DEF Uncache, UncacheFails, DeleteFails, Die
<1>4. CASE Goes(r, "done")
  BY <1>1, <1>2, <1>4, MoveStep DEF Pc
<1>5. CASE req[r].pc = "uncache" /\ Goes(r, "drop")
  BY <1>1, <1>2, <1>5, MoveStep DEF Pc
<1> QED BY <1>3, <1>4, <1>5

LEMMA StutterStep ==
    ASSUME IInv, UNCHANGED <<row, objects, req, owed, doubted>>
    PROVE  IInv'
<1>1. Typed' /\ EditsKeepReservations'
  BY DEF IInv, Typed, EditsKeepReservations
<1>2. \A r \in Request : Asked(r)'
  BY DEF IInv, Asked
<1>3. Safe => Safe'
  BY DEF Safe, ShownIsThere, LoadedIsPast, OldIsHidden, Old, Replaces, Changed, IsS3Key,
         UploadIsThere, Past
<1> QED BY <1>1, <1>2, <1>3 DEF IInv

LEMMA EditStep ==
    ASSUME IInv, NEW r \in Request, Edit(r)
    PROVE  IInv'
<1>1. ASSUME NEW p \in Patch, UpdateProduct(r, p.image, p.quantity) PROVE IInv'
  <2>1. p.image \in {Link, None, Keep} /\ p.quantity \in 0..MaxStock \cup {Keep}
    BY CatalogAssumption
  <2>2. p.image \in Image \cup {Keep}
    BY <2>1 DEF Image
  <2> QED BY <1>1, <2>1, <2>2, LoadStep DEF UpdateProduct
<1>2. CASE UploadProductImage(r)
  <2>1. r \in Image \cup {Keep} /\ Keep \in 0..MaxStock \cup {Keep}
    BY DEF Image
  <2> QED BY <1>2, <2>1, LoadStep DEF UploadProductImage
<1>3. CASE DeleteProduct(r)
  BY <1>3, LoadStep DEF DeleteProduct
<1>4. ASSUME NEW change \in {-1, 1}, Count(r, change) PROVE IInv'
  BY <1>4, CountStep
<1> QED BY <1>1, <1>2, <1>3, <1>4, PutStep, CommitStep, UndoStep, QuietStep, DropOldStep DEF Edit

LEMMA NextIInv == IInv /\ [Next]_vars => IInv'
<1> SUFFICES ASSUME IInv, [Next]_vars PROVE IInv'
  OBVIOUS
<1>1. ASSUME NEW image \in {Link, None}, NEW quantity \in 0..MaxStock, Create(image, quantity)
      PROVE  IInv'
  BY <1>1, CreateStep
<1>2. ASSUME NEW r \in Request, Edit(r) PROVE IInv'
  BY <1>2, EditStep
<1>3. ASSUME NEW r \in Request, Fails(r) PROVE IInv'
  BY <1>3, PutStep, CommitFailsStep, QuietStep DEF Fails
<1>4. CASE Read
  BY <1>4, StutterStep DEF Read, ReadProduct, SignFails, FillCard, DropRead, ExpireCard, counted
<1>5. CASE UNCHANGED vars
  BY <1>5, StutterStep DEF vars, counted
<1> QED BY <1>1, <1>2, <1>3, <1>4, <1>5 DEF Next

(* For any requests, patches and faults: unless a commit was taken for     *)
(* failed, the image a product names is in the bucket                      *)
(* (upload_product_image, update_product, delete_product).                 *)
THEOREM ShownImagesExist == Spec => []ShownImageExists
<1>1. IInv => ShownImageExists
  BY DEF IInv, Safe, ShownIsThere, ShownImageExists, IsS3Key
<1> QED BY InitIInv, NextIInv, <1>1, PTL DEF Spec

(* For any requests, patches and faults: the quantity is what the seller   *)
(* wrote last with every reservation and release since, for an edit writes *)
(* only the columns it changed (the session's UPDATE).                     *)
THEOREM QuantityIsOwed == Spec => []EditsKeepReservations
<1>1. IInv => EditsKeepReservations
  BY DEF IInv
<1> QED BY InitIInv, NextIInv, <1>1, PTL DEF Spec
-----------------------------------------------------------------------------
(* The cached card.  A reader that is about to fill the cache has the row  *)
(* as it is, or knows that it is late; before a product exists nothing is  *)
(* cached.                                                                 *)
Deleting == \E r \in Request : req[r].pc = "uncache"
Unborn == row = None /\ \A r \in Request : req[r].pc = "new"

Cards == [product : Row, signed : BOOLEAN]
CacheTyped ==
    reader \in [Reader -> [pc : {"idle", "fill"}, value : Cards \cup {None}, late : BOOLEAN]]
FillsKnown ==
    \A g \in Reader : reader[g].pc = "fill" =>
        reader[g].late \/ \E signed \in BOOLEAN : reader[g].value = Card(signed)
NothingYet == Unborn => entry = None /\ \A g \in Reader : reader[g].pc = "idle"
CacheInv == CacheTyped /\ FillsKnown /\ NothingYet /\ CachedCardStaleOnlyIfLate

LEMMA InitCacheInv == Init => CacheInv
<1> SUFFICES ASSUME Init PROVE CacheInv
  OBVIOUS
<1>1. entry = None /\ reader = [g \in Reader |-> [pc |-> "idle", value |-> None, late |-> FALSE]]
  BY DEF Init, Cache!CacheInit, Cache!At
<1>2. CacheTyped /\ FillsKnown /\ NothingYet
  BY <1>1 DEF CacheTyped, FillsKnown, NothingYet
<1>3. CachedCardStaleOnlyIfLate
  BY <1>1 DEF CachedCardStaleOnlyIfLate, Card, Cache!StaleOnlyIfLate
<1> QED BY <1>2, <1>3 DEF CacheInv

(* The row and the readers stay, and a delete that is given up leaves its  *)
(* mark.                                                                   *)
LEMMA CacheKept ==
    ASSUME CacheInv, UNCHANGED <<row, reader>>, Unborn' => Unborn,
           \/ entry' = None
           \/ entry' = entry /\ (entry # None => kept')
           \/ entry' = entry /\ kept' = kept /\ (Deleting => Deleting')
    PROVE  CacheInv'
<1>1. CacheTyped' /\ FillsKnown' /\ NothingYet'
  BY DEF CacheInv, CacheTyped, FillsKnown, NothingYet, Card
<1>2. CachedCardStaleOnlyIfLate'
  BY DEF CacheInv, CachedCardStaleOnlyIfLate, Card, Cache!StaleOnlyIfLate, Deleting
<1> QED BY <1>1, <1>2 DEF CacheInv

(* The row changes, and the delete is to come or never will.               *)
LEMMA CacheLate ==
    ASSUME CacheInv, entry' = entry, ~Unborn',
           reader' = [g \in Reader |-> [reader[g] EXCEPT !.late = reader[g].pc = "fill"]],
           Deleting' \/ (entry # None => kept')
    PROVE  CacheInv'
<1>1. \A g \in Reader :
          /\ reader'[g] \in [pc : {"idle", "fill"}, value : Cards \cup {None}, late : BOOLEAN]
          /\ reader'[g].pc = reader[g].pc /\ (reader[g].pc = "fill" => reader'[g].late)
  BY DEF CacheInv, CacheTyped
<1>2. CacheTyped' /\ FillsKnown' /\ NothingYet'
  BY <1>1 DEF CacheTyped, FillsKnown, NothingYet
<1>3. CachedCardStaleOnlyIfLate'
  BY DEF CachedCardStaleOnlyIfLate, Card, Cache!StaleOnlyIfLate, Deleting
<1> QED BY <1>2, <1>3 DEF CacheInv

(* The first row: nothing has been read.                                   *)
LEMMA CacheBorn ==
    ASSUME CacheInv, Unborn, row' # None, UNCHANGED <<entry, reader, kept>>
    PROVE  CacheInv'
<1>1. entry = None /\ \A g \in Reader : reader[g].pc = "idle"
  BY DEF CacheInv, NothingYet
<1>2. CacheTyped' /\ FillsKnown' /\ NothingYet'
  BY <1>1 DEF CacheInv, CacheTyped, FillsKnown, NothingYet
<1>3. CachedCardStaleOnlyIfLate'
  BY <1>1 DEF CachedCardStaleOnlyIfLate, Card, Cache!StaleOnlyIfLate
<1> QED BY <1>2, <1>3 DEF CacheInv

(* One reader moves; the rest of the catalog stays.                        *)
LEMMA CacheRead ==
    ASSUME IInv, CacheInv, NEW g \in Reader,
           ReadProduct(g) \/ SignFails(g) \/ FillCard(g) \/ DropRead(g)
    PROVE  CacheInv'
<1>1. UNCHANGED <<row, req>>
  BY DEF ReadProduct, SignFails, FillCard, DropRead
<1>2. CASE ReadProduct(g) \/ SignFails(g)
  <2>0. PICK signed \in BOOLEAN : row # None /\ Cache!Load(g, Card(signed))
    BY <1>2 DEF ReadProduct, SignFails
  <2> DEFINE w == [pc |-> "fill", value |-> Card(signed), late |-> FALSE]
  <2>1. reader' = [reader EXCEPT ![g] = w] /\ UNCHANGED <<entry, kept>> /\ row # None
    BY <2>0 DEF Cache!Load, Cache!At
  <2>2. /\ w \in [pc : {"idle", "fill"}, value : Cards \cup {None}, late : BOOLEAN]
        /\ w.value = Card(signed)
    BY <2>0 DEF IInv, Typed, Card, Cards
  <2> HIDE DEF w
  <2>3. CacheTyped' /\ reader'[g] = w /\ \A h \in Reader : h # g => reader'[h] = reader[h]
    BY <2>1, <2>2 DEF CacheInv, CacheTyped
  <2>4. FillsKnown' /\ NothingYet'
    BY <1>1, <2>1, <2>2, <2>3 DEF CacheInv, FillsKnown, NothingYet, Unborn, Card
  <2>5. CachedCardStaleOnlyIfLate'
    BY <1>1, <2>1 DEF CacheInv, CachedCardStaleOnlyIfLate, Card, Cache!StaleOnlyIfLate
  <2> QED BY <2>3, <2>4, <2>5 DEF CacheInv
<1>3. CASE FillCard(g) \/ DropRead(g)
  <2>1. reader' = [reader EXCEPT ![g] = [pc |-> "idle", value |-> None, late |-> FALSE]]
        /\ reader[g].pc = "fill"
    BY <1>3 DEF FillCard, DropRead, Cache!Fill, Cache!NoFill, Cache!At
  <2>2. CacheTyped' /\ \A h \in Reader : reader'[h].pc = "fill" => reader'[h] = reader[h]
    BY <2>1 DEF CacheInv, CacheTyped
  <2>3. ~Unborn /\ ~Unborn'
    BY <1>1, <2>1 DEF CacheInv, NothingYet, Unborn
  <2>4. FillsKnown' /\ NothingYet'
    BY <1>1, <2>2, <2>3 DEF CacheInv, FillsKnown, NothingYet, Card
  <2>5. CachedCardStaleOnlyIfLate'
    <3>1. CASE FillCard(g)
      <4>1. entry'.value = reader[g].value /\ entry'.late = reader[g].late
        BY <3>1 DEF FillCard, Cache!Fill
      <4>2. entry'.late \/ \E signed \in BOOLEAN : entry'.value = [product |-> row, signed |-> signed]
        BY <2>1, <4>1 DEF CacheInv, FillsKnown, Card
      <4>3. entry'.late \/ entry'.value = [product |-> row, signed |-> entry' # None /\ entry'.value.signed]
            \/ entry' = None
        <5> DEFINE x == entry'.value
        <5>1. ASSUME NEW signed \in BOOLEAN, x = [product |-> row, signed |-> signed], entry' # None
              PROVE  x = [product |-> row, signed |-> entry' # None /\ x.signed]
          <6>1. x.signed = signed /\ (entry' # None /\ x.signed) = signed
            BY <5>1
          <6> QED BY <5>1, <6>1
        <5> HIDE DEF x
        <5>2. entry'.late \/ x = [product |-> row, signed |-> entry' # None /\ x.signed] \/ entry' = None
          BY <4>2, <5>1 DEF x
        <5> QED BY <5>2 DEF x
      <4>4. Card(entry # None /\ entry.value.signed)'
              = [product |-> row, signed |-> entry' # None /\ entry'.value.signed]
        BY <1>1 DEF Card
      <4>5. entry' # None /\ entry'.value # Card(entry # None /\ entry.value.signed)' => entry'.late
        BY <4>3, <4>4
      <4> QED BY <4>5 DEF CachedCardStaleOnlyIfLate, Cache!StaleOnlyIfLate
    <3>2. CASE DropRead(g)
      BY <1>1, <3>2 DEF DropRead, Cache!NoFill, CacheInv, CachedCardStaleOnlyIfLate,
                        Card, Cache!StaleOnlyIfLate
    <3> QED BY <1>3, <3>1, <3>2
  <2> QED BY <2>2, <2>4, <2>5 DEF CacheInv
<1> QED BY <1>2, <1>3

LEMMA GoesTo ==
    ASSUME Typed, NEW r \in Request, NEW pc \in Pc, Goes(r, pc)
    PROVE  req'[r].pc = pc /\ \A s \in Request : s # r => req'[s] = req[s]
<1>1. req \in [Request -> Job] /\ req[r] \in Job
  BY DEF Typed
<1>2. [Idle EXCEPT !.pc = pc].pc = pc /\ [req[r] EXCEPT !.pc = pc].pc = pc
  BY <1>1, IdleFits DEF Job
<1> QED BY <1>1, <1>2 DEF Goes

(* A step of an edit that leaves the row alone, and the cache too or loses *)
(* or makes the delete.                                                    *)
LEMMA CacheMove ==
    ASSUME Typed, CacheInv, NEW r \in Request, NEW pc \in Pc \ {"new"}, Goes(r, pc),
           UNCHANGED <<row, reader>>,
           \/ entry' = None
           \/ entry' = entry /\ (entry # None => kept')
           \/ entry' = entry /\ kept' = kept /\ (req[r].pc = "uncache" => pc = "uncache")
    PROVE  CacheInv'
<1>1. req'[r].pc = pc /\ \A s \in Request : s # r => req'[s] = req[s]
  BY GoesTo
<1>2. Unborn' => Unborn
  BY <1>1 DEF Unborn
<1>3. (req[r].pc = "uncache" => pc = "uncache") => (Deleting => Deleting')
  BY <1>1 DEF Deleting
<1> QED BY <1>2, <1>3, CacheKept

LEMMA CacheEdit ==
    ASSUME IInv, CacheInv, NEW r \in Request, Edit(r)
    PROVE  CacheInv'
<1>1. Typed /\ req \in [Request -> Job] /\ req[r] \in Job
  BY DEF IInv, Typed
<1>2. ASSUME NEW kind \in {"update", "upload", "delete"}, NEW pc \in {"put", "commit"},
             NEW image, NEW quantity, Load(r, kind, pc, image, quantity)
      PROVE  CacheInv'
  <2>1. UNCHANGED <<row, reader, entry, kept>> /\ row # None /\ req[r].pc = "new"
    BY <1>2 DEF Load, cached
  <2>2. ~Unborn'
    BY <2>1 DEF Unborn
  <2>3. Deleting => Deleting'
    BY <1>1, <1>2, <2>1 DEF Load, Deleting
  <2> QED BY <2>1, <2>2, <2>3, CacheKept
<1>3. ASSUME NEW change \in {-1, 1}, Count(r, change) PROVE CacheInv'
  <2>1. req'[r] = [Idle EXCEPT !.pc = "uncache"]
    BY <1>1, <1>3 DEF Count
  <2>2. req'[r].pc = "uncache"
    BY <2>1, IdleFits DEF Pc
  <2>3. Deleting' /\ ~Unborn'
    BY <2>2 DEF Deleting, Unborn
  <2> QED BY <1>3, <2>3, CacheLate DEF Count, Cache!Change
<1>4. CASE Put(r)
  <2>1. Goes(r, "commit") /\ UNCHANGED <<row, reader, entry, kept>> /\ req[r].pc = "put"
    BY <1>4 DEF Put, cached
  <2> QED BY <1>1, <2>1, CacheMove DEF Pc
<1>5. CASE Commit(r)
  <2>1. ASSUME row # None, Apply(r), Goes(r, "uncache") PROVE CacheInv'
    <3>1. req'[r].pc = "uncache"
      BY <1>1, <2>1, GoesTo DEF Pc
    <3>2. Deleting' /\ ~Unborn'
      BY <3>1 DEF Deleting, Unborn
    <3>3. CASE row' = row
      BY <2>1, <3>2, <3>3, CacheKept DEF Apply, Applied, cached
    <3>4. CASE row' # row
      BY <2>1, <3>2, <3>4, CacheLate DEF Apply, Applied, Cache!Change
    <3> QED BY <3>3, <3>4
  <2>2. ASSUME NEW pc \in {"uncache", "undo", "done"}, Goes(r, pc), UNCHANGED <<row, cached>>,
               req[r].pc = "commit"
        PROVE  CacheInv'
    <3>1. UNCHANGED <<row, reader, entry, kept>> /\ pc \in Pc \ {"new"}
      BY <2>2 DEF cached, Pc
    <3> QED BY <1>1, <2>2, <3>1, CacheMove
  <2> QED BY <1>5, <2>1, <2>2 DEF Commit
<1>6. CASE Undo(r)
  <2>1. Goes(r, "done") /\ UNCHANGED <<row, reader, entry, kept>> /\ req[r].pc = "undo"
    BY <1>6 DEF Undo, cached
  <2> QED BY <1>1, <2>1, CacheMove DEF Pc
<1>7. CASE Uncache(r)
  <2>1. (Goes(r, "done") \/ Goes(r, "drop")) /\ UNCHANGED <<row, reader>> /\ entry' = None
    BY <1>7 DEF Uncache, Cache!Delete
  <2> QED BY <1>1, <2>1, CacheMove DEF Pc
<1>8. CASE DropOld(r)
  <2>1. Goes(r, "done") /\ UNCHANGED <<row, reader, entry, kept>> /\ req[r].pc = "drop"
    BY <1>8 DEF DropOld, cached
  <2> QED BY <1>1, <2>1, CacheMove DEF Pc
<1> QED BY <1>2, <1>3, <1>4, <1>5, <1>6, <1>7, <1>8
        DEF Edit, UpdateProduct, UploadProductImage, DeleteProduct

LEMMA CacheFails ==
    ASSUME IInv, CacheInv, NEW r \in Request, Fails(r)
    PROVE  CacheInv'
<1>1. Typed
  BY DEF IInv
<1>2. CASE PutFails(r)
  <2>1. Goes(r, "done") /\ UNCHANGED <<row, reader, entry, kept>> /\ req[r].pc = "put"
    BY <1>2 DEF PutFails, cached
  <2> QED BY <1>1, <2>1, CacheMove DEF Pc
<1>3. CASE CommitFails(r)
  <2> DEFINE pc == IF req[r].kind = "upload" THEN "undo" ELSE "done"
  <2>1. req[r].pc = "commit" /\ Goes(r, pc) /\ pc \in Pc \ {"new"}
    BY <1>3 DEF CommitFails, Pc
  <2> HIDE DEF pc
  <2>2. CASE UNCHANGED <<row, cached>>
    <3>1. UNCHANGED <<row, reader, entry, kept>>
      BY <2>2 DEF cached
    <3> QED BY <1>1, <2>1, <3>1, CacheMove
  <2>3. CASE Cache!ChangeKept
    <3>1. req'[r].pc = pc
      BY <1>1, <2>1, GoesTo
    <3>2. ~Unborn'
      BY <2>1, <3>1 DEF Unborn
    <3>3. entry' = entry /\ (entry # None => kept')
          /\ reader' = [g \in Reader |-> [reader[g] EXCEPT !.late = reader[g].pc = "fill"]]
      BY <2>3 DEF Cache!ChangeKept
    <3> QED BY <3>2, <3>3, CacheLate
  <2> QED BY <1>3, <2>2, <2>3 DEF CommitFails
<1>4. CASE UncacheFails(r)
  <2>1. (Goes(r, "done") \/ Goes(r, "drop")) /\ UNCHANGED <<row, reader, entry>>
        /\ (entry # None => kept')
    BY <1>4 DEF UncacheFails, Cache!LoseDelete
  <2> QED BY <1>1, <2>1, CacheMove DEF Pc
<1>5. CASE DeleteFails(r)
  <2>1. Goes(r, "done") /\ UNCHANGED <<row, reader, entry, kept>> /\ req[r].pc # "uncache"
    BY <1>5 DEF DeleteFails, cached
  <2> QED BY <1>1, <2>1, CacheMove DEF Pc
<1>6. CASE Die(r)
  <2>1. Goes(r, "done") /\ UNCHANGED <<row, reader, entry>>
        /\ ((entry # None => kept') \/ (kept' = kept /\ req[r].pc # "uncache"))
    BY <1>6 DEF Die, cached, Cache!LoseDelete
  <2> QED BY <1>1, <2>1, CacheMove DEF Pc
<1> QED BY <1>2, <1>3, <1>4, <1>5, <1>6 DEF Fails

LEMMA NextCacheInv == IInv /\ CacheInv /\ [Next]_vars => CacheInv'
<1> SUFFICES ASSUME IInv, CacheInv, [Next]_vars PROVE CacheInv'
  OBVIOUS
<1>1. ASSUME NEW image \in {Link, None}, NEW quantity \in 0..MaxStock, Create(image, quantity)
      PROVE  CacheInv'
  <2>1. Unborn /\ UNCHANGED <<reader, entry, kept>>
    BY <1>1 DEF Create, Unborn, cached
  <2>2. CASE row' = None
    <3>1. row' = row /\ (Unborn' => Unborn) /\ (Deleting => Deleting')
      BY <1>1, <2>1, <2>2 DEF Create, Unborn, Deleting
    <3> QED BY <2>1, <3>1, CacheKept
  <2> QED BY <2>1, <2>2, CacheBorn
<1>2. ASSUME NEW r \in Request, Edit(r) PROVE CacheInv'
  BY <1>2, CacheEdit
<1>3. ASSUME NEW r \in Request, Fails(r) PROVE CacheInv'
  BY <1>3, CacheFails
<1>4. ASSUME NEW g \in Reader, ReadProduct(g) \/ SignFails(g) \/ FillCard(g) \/ DropRead(g)
      PROVE  CacheInv'
  BY <1>4, CacheRead
<1>5. CASE ExpireCard
  <2>1. UNCHANGED <<row, reader, req>> /\ entry' = None
    BY <1>5 DEF ExpireCard, Cache!Expire
  <2>2. Unborn' => Unborn
    BY <2>1 DEF Unborn
  <2> QED BY <2>1, <2>2, CacheKept
<1>6. CASE UNCHANGED vars
  <2>1. UNCHANGED <<row, reader, req, entry, kept>>
    BY <1>6 DEF vars, cached
  <2>2. (Unborn' => Unborn) /\ (Deleting => Deleting')
    BY <2>1 DEF Unborn, Deleting
  <2> QED BY <2>1, <2>2, CacheKept
<1> QED BY <1>1, <1>2, <1>3, <1>4, <1>5, <1>6 DEF Next, Read

(* For any requests, readers and faults: a cached card is the product as   *)
(* it is, or it was filled late, or the delete that follows the change is  *)
(* still to come or was lost (get_product_by_id, _invalidate_product).     *)
THEOREM CardStaleOnlyIfLate == Spec => []CachedCardStaleOnlyIfLate
<1>1. CacheInv => CachedCardStaleOnlyIfLate
  BY DEF CacheInv
<1> QED BY InitIInv, NextIInv, InitCacheInv, NextCacheInv, <1>1, PTL DEF Spec
-----------------------------------------------------------------------------
(* Orphans.  No row names, and no request has loaded, the image of a       *)
(* request that has not committed; what is in the bucket was put there.    *)
Early(r) == req[r].pc \in {"new", "put", "commit"}
Fresh(r) ==
    Early(r) => /\ row # None => row.image # r
                /\ \A s \in Request : req[s].kind # "none" => req[s].loaded.image # r
Unput(r) ==
    (Early(r) /\ (req[r].pc = "commit" => req[r].kind # "upload")) => r \notin objects
Counted == faults \in Nat /\ overlaps \in Nat
OrphanInv ==
    /\ Counted /\ IsFiniteSet(objects)
    /\ \A r \in Request : Fresh(r) /\ Unput(r)
    /\ OrphanNeedsCause

Shown(x) == row # None /\ row.image = x

LEMMA InitOrphanInv == Init => OrphanInv
<1> SUFFICES ASSUME Init PROVE OrphanInv
  OBVIOUS
<1>1. \A r \in Request : req[r].kind = "none"
  BY IdleFits DEF Init
<1>2. Counted /\ row = None /\ objects = {} /\ IsFiniteSet(objects)
  BY FS_EmptySet DEF Init, Counted
<1>3. \A r \in Request : Fresh(r) /\ Unput(r)
  BY <1>1, <1>2 DEF Fresh, Unput
<1>4. Orphans = {}
  BY <1>2 DEF Orphans
<1>5. OrphanNeedsCause
  BY <1>2, <1>4, FS_EmptySet DEF OrphanNeedsCause, Counted
<1> QED BY <1>2, <1>3, <1>5 DEF OrphanInv

(* Orphans that are counted stay counted when at most one comes for every  *)
(* fault or overlap.                                                       *)
NoMore == Orphans' \subseteq Orphans
OneMore == \E x : Orphans' \subseteq Orphans \cup {x}
Grows == faults' \in {faults, faults + 1} /\ overlaps' \in {overlaps, overlaps + 1}
Caused == faults' = faults + 1 \/ overlaps' = overlaps + 1

LEMMA OrphanCount ==
    ASSUME OrphanInv, Grows, NoMore \/ (OneMore /\ Caused)
    PROVE  Counted' /\ OrphanNeedsCause'
<1>0. Counted'
  BY DEF OrphanInv, Counted, Grows
<1>1. IsFiniteSet(Orphans)
  <2>1. Orphans \in SUBSET objects
    BY DEF Orphans
  <2> QED BY <2>1, FS_Subset DEF OrphanInv
<1>2. Cardinality(Orphans) \in Nat /\ Cardinality(Orphans) <= faults + overlaps
  BY <1>1, FS_CardinalityType DEF OrphanInv, OrphanNeedsCause
<1>3. PICK a \in Nat, b \in Nat, c \in Nat, d \in Nat :
          a = faults /\ b = overlaps /\ c = faults' /\ d = overlaps'
  BY <1>0 DEF OrphanInv, Counted
<1>4. ASSUME NoMore
      PROVE  Cardinality(Orphans') \in Nat /\ Cardinality(Orphans') <= Cardinality(Orphans)
  <2>1. Orphans' \in SUBSET Orphans
    BY <1>4 DEF NoMore
  <2>2. IsFiniteSet(Orphans') /\ Cardinality(Orphans') <= Cardinality(Orphans)
    BY <1>1, <2>1, FS_Subset
  <2> QED BY <2>2, FS_CardinalityType
<1>5. ASSUME OneMore
      PROVE  Cardinality(Orphans') \in Nat /\ Cardinality(Orphans') <= Cardinality(Orphans) + 1
  <2>1. PICK x : Orphans' \subseteq Orphans \cup {x}
    BY <1>5 DEF OneMore
  <2> DEFINE most == Orphans \cup {x}
  <2>2. IsFiniteSet(most) /\ Cardinality(most) <= Cardinality(Orphans) + 1
    BY <1>1, <1>2, FS_AddElement
  <2>3. Orphans' \in SUBSET most
    BY <2>1
  <2> HIDE DEF most
  <2>4. IsFiniteSet(Orphans') /\ Cardinality(Orphans') <= Cardinality(most)
    BY <2>2, <2>3, FS_Subset
  <2>5. Cardinality(Orphans') \in Nat /\ Cardinality(most) \in Nat
    BY <2>2, <2>4, FS_CardinalityType
  <2> QED BY <1>2, <2>2, <2>4, <2>5
<1>6. PICK n \in Nat, m \in Nat : n = Cardinality(Orphans) /\ m = Cardinality(Orphans')
  BY <1>2, <1>4, <1>5
<1>7. n <= a + b /\ (NoMore => m <= n) /\ (OneMore => m <= n + 1)
  BY <1>2, <1>3, <1>4, <1>5, <1>6, Zenon
<1>8. c \in {a, a + 1} /\ d \in {b, b + 1} /\ (NoMore \/ (OneMore /\ (c = a + 1 \/ d = b + 1)))
  BY <1>3, Zenon DEF Grows, Caused
<1>9. m <= c + d
  BY <1>7, <1>8
<1> QED BY <1>0, <1>3, <1>6, <1>9, Zenon DEF OrphanNeedsCause

(* What a step of r does to the bucket, the row and what r has in use says *)
(* which orphans there are after it.                                       *)
LEMMA OrphansAfter ==
    ASSUME NEW r \in Request, NEW X, \A s \in Request : s # r => req'[s] = req[s],
           \A y \in objects' : ~Shown(y)' /\ y \notin InUse(r)' =>
               y \in X \/ (y \in objects /\ ~Shown(y) /\ y \notin InUse(r))
    PROVE  Orphans' \subseteq Orphans \cup X
<1> SUFFICES ASSUME NEW y \in Orphans', y \notin X PROVE y \in Orphans
  OBVIOUS
<1>1. y \in objects' /\ ~Shown(y)' /\ \A s \in Request : y \notin InUse(s)'
  BY DEF Orphans, Shown
<1>2. \A s \in Request : s # r => InUse(s)' = InUse(s)
  BY DEF InUse, Old, Replaces, Changed, IsS3Key
<1>3. y \in objects /\ ~Shown(y) /\ \A s \in Request : y \notin InUse(s)
  BY <1>1, <1>2
<1> QED BY <1>3 DEF Orphans, Shown

(* A request goes on, and what it has not named stays unnamed.             *)
LEMMA FreshStep ==
    ASSUME OrphanInv, NEW r \in Request, \A s \in Request : s # r => req'[s] = req[s],
           Early(r)' => Early(r), Unput(r)', objects' \subseteq objects \cup {r},
           \/ req'[r].kind = "none"
           \/ req'[r].loaded = req[r].loaded /\ req[r].kind # "none"
           \/ req'[r].loaded = row /\ row # None,
           \/ row' = None
           \/ row'.image \notin Request
           \/ row # None /\ row'.image = row.image
           \/ row'.image = r /\ ~Early(r)'
    PROVE  \A s \in Request : Fresh(s)' /\ Unput(s)'
<1> SUFFICES ASSUME NEW s \in Request PROVE Fresh(s)' /\ Unput(s)'
  OBVIOUS
<1>1. Fresh(s) /\ Unput(s) /\ (Early(s)' => Early(s))
  BY DEF OrphanInv, Early
<1>2. Unput(s)'
  BY <1>1 DEF Unput, Early
<1>3. ASSUME Early(s)' PROVE row' # None => row'.image # s
  BY <1>1, <1>3 DEF Fresh
<1>4. ASSUME Early(s)', NEW t \in Request, req'[t].kind # "none"
      PROVE  req'[t].loaded.image # s
  BY <1>1, <1>4 DEF Fresh
<1> QED BY <1>2, <1>3, <1>4 DEF Fresh

LEMMA OrphanStep ==
    ASSUME OrphanInv, NEW r \in Request, \A s \in Request : s # r => req'[s] = req[s],
           Early(r)' => Early(r), Unput(r)', objects' \subseteq objects \cup {r},
           \/ req'[r].kind = "none"
           \/ req'[r].loaded = req[r].loaded /\ req[r].kind # "none"
           \/ req'[r].loaded = row /\ row # None,
           \/ row' = None
           \/ row'.image \notin Request
           \/ row # None /\ row'.image = row.image
           \/ row'.image = r /\ ~Early(r)',
           NEW X, Grows, X = {} \/ (Caused /\ \E x : X = {x}),
           \A y \in objects' : ~Shown(y)' /\ y \notin InUse(r)' =>
               y \in X \/ (y \in objects /\ ~Shown(y) /\ y \notin InUse(r))
    PROVE  OrphanInv'
<1>1. \A s \in Request : Fresh(s)' /\ Unput(s)'
  BY FreshStep
<1>2. IsFiniteSet(objects')
  <2>1. IsFiniteSet(objects \cup {r})
    BY FS_AddElement DEF OrphanInv
  <2>2. objects' \in SUBSET (objects \cup {r})
    OBVIOUS
  <2> QED BY <2>1, <2>2, FS_Subset
<1>3. Orphans' \subseteq Orphans \cup X
  BY OrphansAfter
<1>4. NoMore \/ (OneMore /\ Caused)
  BY <1>3 DEF NoMore, OneMore
<1>5. Counted' /\ OrphanNeedsCause'
  BY <1>4, OrphanCount
<1> QED BY <1>1, <1>2, <1>5 DEF OrphanInv

(* A request that has something to drop keeps it in hand.                  *)
LEMMA GoesHolding ==
    ASSUME Typed, NEW r \in Request, NEW pc \in {"uncache", "drop"}, Goes(r, pc), Old(r) # {}
    PROVE  Old(r)' = Old(r)
<1>1. req \in [Request -> Job] /\ req[r] \in Job
  BY DEF Typed
<1>2. req'[r] = [req[r] EXCEPT !.pc = pc]
  BY <1>1 DEF Goes
<1>3. /\ req'[r].kind = req[r].kind /\ req'[r].loaded = req[r].loaded
      /\ req'[r].image = req[r].image
  BY <1>1, <1>2 DEF Job
<1> QED BY <1>3 DEF Old, Replaces, Changed, IsS3Key

(* A request that goes on past its commit, or to it with its upload.       *)
LEMMA OrphanMove ==
    ASSUME IInv, OrphanInv, NEW r \in Request, NEW pc \in Pc \ {"new", "put"}, Goes(r, pc),
           pc \in {"undo", "commit"} => req[r].kind = "upload",
           Early(r)' => Early(r), objects' \subseteq objects \cup {r},
           \/ row' = None
           \/ row'.image \notin Request
           \/ row # None /\ row'.image = row.image
           \/ row'.image = r /\ pc # "commit",
           NEW X, Grows, X = {} \/ (Caused /\ \E x : X = {x}),
           \A y \in objects' : ~Shown(y)' /\ y \notin InUse(r)' =>
               y \in X \/ (y \in objects /\ ~Shown(y) /\ y \notin InUse(r))
    PROVE  OrphanInv'
<1>1. Typed /\ Asked(r)
  BY DEF IInv
<1>2. /\ req'[r].pc = pc /\ Asked(r)'
      /\ \A s \in Request : s # r => req'[s] = req[s]
      /\ req'[r].kind = "none" \/ (req'[r].kind = req[r].kind /\ req'[r].loaded = req[r].loaded)
  BY <1>1, GoesFits
<1>3. Unput(r)'
  BY <1>2 DEF Unput, Early, Asked
<1>4. Early(r)' <=> pc = "commit"
  BY <1>2 DEF Early
<1>5. \/ row' = None
      \/ row'.image \notin Request
      \/ row # None /\ row'.image = row.image
      \/ row'.image = r /\ ~Early(r)'
  BY <1>4
<1>6. \/ req'[r].kind = "none"
      \/ req'[r].loaded = req[r].loaded /\ req[r].kind # "none"
      \/ req'[r].loaded = row /\ row # None
  BY <1>2
<1> QED BY <1>2, <1>3, <1>5, <1>6, OrphanStep

LEMMA OldIsOne ==
    ASSUME NEW r \in Request
    PROVE  Old(r) = {} \/ Old(r) = {req[r].loaded.image}
BY DEF Old

LEMMA OrphanLoad ==
    ASSUME IInv, OrphanInv, NEW r \in Request, NEW kind, NEW pc \in {"put", "commit"},
           NEW image, NEW quantity, Load(r, kind, pc, image, quantity)
    PROVE  OrphanInv'
<1> DEFINE w == [pc |-> pc, kind |-> kind, loaded |-> row, image |-> image, quantity |-> quantity]
<1>1. /\ req \in [Request -> Job] /\ req[r].pc = "new" /\ row # None
      /\ req' = [req EXCEPT ![r] = w] /\ UNCHANGED <<row, objects, overlaps, faults>>
  BY DEF IInv, Typed, Load, counted
<1>2. w.pc = pc /\ w.loaded = row
  OBVIOUS
<1> HIDE DEF w
<1>3. req'[r].pc = pc /\ req'[r].loaded = row /\ \A s \in Request : s # r => req'[s] = req[s]
  BY <1>1, <1>2
<1>4. Early(r) /\ r \notin objects
  BY <1>1 DEF OrphanInv, Unput, Early
<1>5. Unput(r)' /\ Grows
  BY <1>1, <1>4 DEF Unput, Grows
<1>6. InUse(r) = {}
  BY <1>1 DEF InUse
<1>7. \A y \in objects' : ~Shown(y)' => y \in objects /\ ~Shown(y) /\ y \notin InUse(r)
  BY <1>1, <1>6 DEF Shown
<1>8. objects' \subseteq objects \cup {r} /\ row # None /\ row'.image = row.image
  BY <1>1
<1> DEFINE X == {}
<1>9. X = {} /\ \A y \in objects' : ~Shown(y)' /\ y \notin InUse(r)' =>
               y \in X \/ (y \in objects /\ ~Shown(y) /\ y \notin InUse(r))
  BY <1>7
<1> HIDE DEF X
<1> QED BY <1>3, <1>4, <1>5, <1>8, <1>9, OrphanStep

LEMMA OrphanReserve ==
    ASSUME IInv, OrphanInv, NEW r \in Request, NEW change \in {-1, 1}, Count(r, change)
    PROVE  OrphanInv'
<1> DEFINE w == [Idle EXCEPT !.pc = "uncache"]
           v == [row EXCEPT !.quantity = row.quantity + change]
<1>1. /\ req \in [Request -> Job] /\ req[r].pc = "new" /\ row # None /\ row \in Row
      /\ req' = [req EXCEPT ![r] = w] /\ row' = v /\ UNCHANGED <<objects, overlaps, faults>>
  BY DEF IInv, Typed, Count
<1>2. w.pc = "uncache" /\ w.kind = "none" /\ v.image = row.image
  BY <1>1, IdleFits DEF Pc, Row
<1>3. v \in Row
  BY <1>1 DEF Row, Count
<1> HIDE DEF w, v
<1>4. /\ req'[r].pc = "uncache" /\ req'[r].kind = "none"
      /\ \A s \in Request : s # r => req'[s] = req[s]
  BY <1>1, <1>2
<1>5. ~Early(r)' /\ Early(r)
  BY <1>1, <1>4 DEF Early
<1>6. Unput(r)' /\ Grows
  BY <1>1, <1>5 DEF Unput, Grows
<1>7. InUse(r) = {}
  BY <1>1 DEF InUse
<1> DEFINE X == {}
<1>8. X = {} /\ \A y \in objects' : ~Shown(y)' /\ y \notin InUse(r)' =>
               y \in X \/ (y \in objects /\ ~Shown(y) /\ y \notin InUse(r))
  BY <1>1, <1>2, <1>3, <1>7, CatalogAssumption DEF Shown
<1>9. objects' \subseteq objects \cup {r} /\ row # None /\ row'.image = row.image
  BY <1>1, <1>2
<1> HIDE DEF X
<1> QED BY <1>4, <1>5, <1>6, <1>8, <1>9, OrphanStep

(* The steps that leave the row alone.                                     *)
LEMMA OrphanPut ==
    ASSUME IInv, OrphanInv, NEW r \in Request, Put(r) \/ PutFails(r)
    PROVE  OrphanInv'
<1>1. Typed /\ Asked(r) /\ req[r].pc = "put" /\ UNCHANGED row
  BY DEF IInv, Put, PutFails
<1>2. /\ req[r].kind = "upload" /\ Early(r) /\ objects' \subseteq objects \cup {r}
      /\ InUse(r) = {}
  BY <1>1 DEF Asked, Put, PutFails, Early, InUse
<1>3. row' = None \/ (row # None /\ row'.image = row.image)
  BY <1>1
<1>4. CASE Put(r)
  <2>1. Goes(r, "commit") /\ Grows
    BY <1>4 DEF Put, counted, Grows
  <2>2. InUse(r)' = {r}
    BY <1>1, <2>1, GoesTo DEF InUse, Pc
  <2> DEFINE X == {}
  <2>3. X = {} /\ \A y \in objects' : ~Shown(y)' /\ y \notin InUse(r)' =>
               y \in X \/ (y \in objects /\ ~Shown(y) /\ y \notin InUse(r))
    BY <1>1, <1>2, <2>2 DEF Shown
  <2> HIDE DEF X
  <2> QED BY <1>2, <1>3, <2>1, <2>3, OrphanMove DEF Pc
<1>5. CASE PutFails(r)
  <2>1. Goes(r, "done") /\ Grows /\ Caused
    BY <1>5 DEF PutFails, Fault, Grows, Caused
  <2>2. \A y \in objects' : ~Shown(y)' /\ y \notin InUse(r)' =>
               y \in {r} \/ (y \in objects /\ ~Shown(y) /\ y \notin InUse(r))
    BY <1>1, <1>2 DEF Shown
  <2> QED BY <1>2, <1>3, <2>1, <2>2, OrphanMove DEF Pc
<1> QED BY <1>4, <1>5

LEMMA OrphanQuiet ==
    ASSUME IInv, OrphanInv, NEW r \in Request, Undo(r) \/ Uncache(r) \/ DropOld(r)
    PROVE  OrphanInv'
<1>1. Typed /\ UNCHANGED row /\ Grows /\ objects' \subseteq objects \cup {r}
  BY DEF IInv, Undo, Uncache, DropOld, counted, Grows
<1>2. row' = None \/ (row # None /\ row'.image = row.image)
  BY <1>1
<1> DEFINE X == {}
<1> SUFFICES ASSUME \/ Goes(r, "done") /\ \A y \in objects' : y \in objects /\ y \notin InUse(r)
                    \/ /\ Goes(r, "drop") /\ InUse(r)' = InUse(r) /\ objects' = objects
                       /\ req[r].pc # "commit"
             PROVE  OrphanInv'
  <2>1. CASE Undo(r)
    BY <2>1 DEF Undo, InUse
  <2>2. CASE Uncache(r)
    <3>1. req[r].pc = "uncache" /\ objects' = objects /\ InUse(r) = Old(r)
      BY <2>2 DEF Uncache, InUse
    <3>2. CASE Old(r) = {}
      BY <2>2, <3>1, <3>2 DEF Uncache
    <3>3. CASE Old(r) # {}
      <4>1. Goes(r, "drop")
        BY <2>2, <3>3 DEF Uncache
      <4>2. Old(r)' = Old(r) /\ req'[r].pc = "drop"
        BY <1>1, <3>3, <4>1, GoesHolding, GoesTo DEF Pc
      <4>3. InUse(r)' = InUse(r)
        BY <3>1, <4>2 DEF InUse
      <4> QED BY <3>1, <4>1, <4>3
    <3> QED BY <3>2, <3>3
  <2>3. CASE DropOld(r)
    BY <2>3 DEF DropOld, InUse
  <2> QED BY <2>1, <2>2, <2>3
<1>3. X = {} /\ \A y \in objects' : ~Shown(y)' /\ y \notin InUse(r)' =>
             y \in X \/ (y \in objects /\ ~Shown(y) /\ y \notin InUse(r))
  BY <1>1 DEF Shown
<1>4. PICK pc \in {"done", "drop"} : Goes(r, pc)
  OBVIOUS
<1>5. Early(r)' => Early(r)
  BY <1>1, <1>4, GoesTo DEF Early, Pc
<1> HIDE DEF X
<1> QED BY <1>1, <1>2, <1>3, <1>4, <1>5, OrphanMove DEF Pc

(* A failure, or a death, abandons at most what the request had in use.    *)
LEMMA OrphanAbandon ==
    ASSUME IInv, OrphanInv, NEW r \in Request, UncacheFails(r) \/ DeleteFails(r) \/ Die(r)
    PROVE  OrphanInv'
<1>1. Typed /\ UNCHANGED <<row, objects>> /\ Grows /\ Caused
  BY DEF IInv, UncacheFails, DeleteFails, Die, Fault, Grows, Caused
<1>2. row' = None \/ (row # None /\ row'.image = row.image)
  BY <1>1
<1>3. PICK x : InUse(r) \subseteq {x}
  BY OldIsOne DEF InUse
<1>4. PICK pc \in {"done", "drop"} : Goes(r, pc)
  BY DEF UncacheFails, DeleteFails, Die
<1>5. Early(r)' => Early(r)
  BY <1>1, <1>4, GoesTo DEF Early, Pc
<1>6. \A y \in objects' : ~Shown(y)' /\ y \notin InUse(r)' =>
             y \in {x} \/ (y \in objects /\ ~Shown(y) /\ y \notin InUse(r))
  BY <1>1, <1>3 DEF Shown
<1>7. objects' \subseteq objects \cup {r}
  BY <1>1
<1> QED BY <1>1, <1>2, <1>4, <1>5, <1>6, <1>7, OrphanMove DEF Pc

(* An upload names its own image, and no other request's is written; what  *)
(* a commit takes out of the row it replaces.                              *)
LEMMA UploadChanges ==
    ASSUME IInv, OrphanInv, NEW r \in Request, req[r].pc = "commit", req[r].kind = "upload"
    PROVE  Changed(req[r].loaded.image, req[r].image) /\ req[r].image = r
<1>1. req[r].image = r /\ r # Keep
  BY CatalogAssumption DEF IInv, Asked
<1>2. req[r].loaded.image # r
  BY DEF OrphanInv, Fresh, Early
<1> QED BY <1>1, <1>2 DEF Changed

LEMMA WrittenShows ==
    ASSUME IInv, OrphanInv, NEW r \in Request, req[r].pc = "commit", row # None
    PROVE  /\ \/ Written(r) = None
              \/ Written(r).image \notin Request
              \/ Written(r).image = row.image
              \/ Written(r).image = r
           /\ req[r].kind = "upload" => Written(r) # None /\ Written(r).image = r
           /\ (Written(r) = None \/ Written(r).image # row.image) => Replaces(r)
<1>1. Typed /\ Asked(r) /\ req[r].kind \in {"update", "upload", "delete"} /\ req[r].kind # "none"
  BY DEF IInv, Asked, Typed, Job
<1>2. CASE req[r].kind = "delete"
  BY <1>1, <1>2, WrittenFits DEF Replaces
<1>3. CASE req[r].kind # "delete"
  <2>1. Written(r) # None
    BY <1>1, <1>3, WrittenFits, CatalogAssumption
  <2>2. Written(r).image = IF Changed(req[r].loaded.image, req[r].image)
                           THEN req[r].image ELSE row.image
    BY <1>1, <1>3, WrittenFits
  <2>3. req[r].kind = "update" => req[r].image \notin Request
    BY <1>1, CatalogAssumption DEF Asked
  <2>4. req[r].kind = "upload" => Changed(req[r].loaded.image, req[r].image) /\ req[r].image = r
    BY UploadChanges
  <2> QED BY <1>1, <1>3, <2>1, <2>2, <2>3, <2>4 DEF Replaces
<1> QED BY <1>2, <1>3

LEMMA OrphanApply ==
    ASSUME IInv, OrphanInv, NEW r \in Request, req[r].pc = "commit", row # None, Apply(r),
           Goes(r, "uncache"), UNCHANGED <<objects, faults>>
    PROVE  OrphanInv'
<1>1. Typed /\ row' = Written(r) /\ Early(r)
  BY DEF IInv, Apply, Applied, Early
<1>2. Grows /\ (Replaces(r) /\ row.image # req[r].loaded.image => Caused)
  BY DEF Apply, Applied, Grows, Caused
<1>3. \/ row' = None
      \/ row'.image \notin Request
      \/ row # None /\ row'.image = row.image
      \/ row'.image = r /\ "uncache" # "commit"
  BY <1>1, WrittenShows
<1>4. InUse(r) = {r} /\ InUse(r)' = Old(r)'
  BY <1>1, GoesTo DEF InUse, Pc
<1>5. r \in objects => Shown(r)'
  BY <1>1, WrittenShows DEF OrphanInv, Unput, Shown
<1> DEFINE X == IF Caused THEN {row.image} ELSE {}
<1>6. X = {} \/ (Caused /\ \E x : X = {x})
  OBVIOUS
<1>7. ASSUME NEW y \in objects', ~Shown(y)', y \notin InUse(r)', y \notin X
      PROVE  y \in objects /\ ~Shown(y) /\ y \notin InUse(r)
  <2>1. y \in objects /\ y # r
    BY <1>5, <1>7
  <2>2. ASSUME Shown(y) PROVE FALSE
    <3>1. y = row.image /\ Replaces(r)
      BY <1>1, <1>7, <2>2, WrittenShows DEF Shown
    <3>2. row.image = req[r].loaded.image
      BY <1>2, <1>7, <3>1
    <3>3. y \in Request
      BY <1>1, <2>1 DEF Typed
    <3>4. req[r].kind # "none"
      BY DEF IInv, Asked
    <3>5. y \in Old(r)
      BY <3>1, <3>2, <3>3, <3>4 DEF Old, IsS3Key
    <3>6. Old(r)' = Old(r)
      BY <1>1, <3>5, GoesHolding
    <3> QED BY <1>4, <1>7, <3>5, <3>6
  <2> QED BY <1>4, <2>1, <2>2
<1>8. \A y \in objects' : ~Shown(y)' /\ y \notin InUse(r)' =>
             y \in X \/ (y \in objects /\ ~Shown(y) /\ y \notin InUse(r))
  BY <1>7
<1>9. objects' \subseteq objects \cup {r}
  OBVIOUS
<1> HIDE DEF X
<1> QED BY <1>1, <1>2, <1>3, <1>6, <1>8, <1>9, OrphanMove DEF Pc

(* A row that is gone: no upload gets past it, and others have put nothing.*)
LEMMA OrphanGone ==
    ASSUME IInv, OrphanInv, NEW r \in Request, req[r].pc = "commit", UNCHANGED <<row, objects>>,
           NEW pc \in {"uncache", "undo", "done"}, Goes(r, pc), Grows,
           pc = "undo" <=> req[r].kind = "upload"
    PROVE  OrphanInv'
<1>1. Typed /\ Early(r)
  BY DEF IInv, Early
<1>2. row' = None \/ (row # None /\ row'.image = row.image)
  OBVIOUS
<1>3. InUse(r) = {r} /\ (pc = "undo" => InUse(r)' = {r})
  BY <1>1, GoesTo DEF InUse, Pc
<1>4. pc # "undo" => r \notin objects
  BY <1>1 DEF OrphanInv, Unput
<1> DEFINE X == {}
<1>5. X = {} /\ \A y \in objects' : ~Shown(y)' /\ y \notin InUse(r)' =>
             y \in X \/ (y \in objects /\ ~Shown(y) /\ y \notin InUse(r))
  BY <1>3, <1>4 DEF Shown
<1>6. objects' \subseteq objects \cup {r}
  OBVIOUS
<1> HIDE DEF X
<1> QED BY <1>1, <1>2, <1>5, <1>6, OrphanMove DEF Pc

LEMMA OrphanCommit ==
    ASSUME IInv, OrphanInv, NEW r \in Request, Commit(r)
    PROVE  OrphanInv'
<1>1. req[r].pc = "commit" /\ UNCHANGED <<objects, faults>>
  BY DEF Commit
<1>2. CASE row # None /\ Apply(r) /\ Goes(r, "uncache")
  BY <1>1, <1>2, OrphanApply
<1>3. CASE row = None /\ Found(r) /\ Goes(r, "uncache") /\ UNCHANGED <<row, overlaps>>
  <2>1. req[r].kind # "upload"
    BY <1>1, <1>3, UploadChanges DEF Found, Writes
  <2>2. Grows
    BY <1>1, <1>3 DEF Grows
  <2> QED BY <1>1, <1>3, <2>1, <2>2, OrphanGone
<1>4. CASE /\ row = None /\ UNCHANGED <<row, overlaps>>
           /\ Goes(r, IF req[r].kind = "upload" THEN "undo" ELSE "done")
  <2>1. Grows
    BY <1>1, <1>4 DEF Grows
  <2> QED BY <1>1, <1>4, <2>1, OrphanGone
<1> QED BY <1>2, <1>3, <1>4 DEF Commit

LEMMA OrphanCommitFails ==
    ASSUME IInv, OrphanInv, NEW r \in Request, CommitFails(r)
    PROVE  OrphanInv'
<1> DEFINE pc == IF req[r].kind = "upload" THEN "undo" ELSE "done"
<1>1. /\ Typed /\ req[r].pc = "commit" /\ Early(r) /\ Goes(r, pc) /\ UNCHANGED objects
      /\ pc \in {"undo", "done"} /\ (pc = "undo" <=> req[r].kind = "upload")
  BY DEF IInv, CommitFails, Early
<1> HIDE DEF pc
<1>2. Grows /\ Caused
  BY DEF CommitFails, Applied, Fault, Grows, Caused
<1>3. CASE UNCHANGED row
  BY <1>1, <1>2, <1>3, OrphanGone
<1>4. CASE row # None /\ row' = Written(r)
  <2>1. \/ row' = None
        \/ row'.image \notin Request
        \/ row # None /\ row'.image = row.image
        \/ row'.image = r /\ pc # "commit"
    BY <1>1, <1>4, WrittenShows
  <2>2. InUse(r) = {r} /\ (pc = "undo" => InUse(r)' = {r})
    BY <1>1, GoesTo DEF InUse, Pc
  <2>3. pc # "undo" => r \notin objects
    BY <1>1 DEF OrphanInv, Unput
  <2>4. \A y \in objects' : ~Shown(y)' /\ y \notin InUse(r)' =>
               y \in {row.image} \/ (y \in objects /\ ~Shown(y) /\ y \notin InUse(r))
    BY <1>1, <2>2, <2>3 DEF Shown
  <2>5. objects' \subseteq objects \cup {r}
    BY <1>1
  <2> QED BY <1>1, <1>2, <2>1, <2>4, <2>5, OrphanMove DEF Pc
<1> QED BY <1>3, <1>4 DEF CommitFails, Applied

LEMMA OrphanStutter ==
    ASSUME OrphanInv, UNCHANGED <<objects, req>>, Grows,
           row' = row \/ (row = None /\ row'.image \notin Request), objects \subseteq Request
    PROVE  OrphanInv'
<1>1. \A r \in Request : Fresh(r)' /\ Unput(r)' /\ InUse(r)' = InUse(r)
  BY DEF OrphanInv, Fresh, Unput, Early, InUse, Old, Replaces, Changed, IsS3Key
<1>2. NoMore /\ Grows
  BY <1>1 DEF NoMore, Orphans, Grows
<1>3. Counted' /\ OrphanNeedsCause'
  BY <1>2, OrphanCount
<1> QED BY <1>1, <1>3 DEF OrphanInv

LEMMA NextOrphanInv == IInv /\ OrphanInv /\ [Next]_vars => OrphanInv'
<1> SUFFICES ASSUME IInv, OrphanInv, [Next]_vars PROVE OrphanInv'
  OBVIOUS
<1>1. objects \subseteq Request
  BY DEF IInv, Typed
<1>2. ASSUME NEW image \in {Link, None}, NEW quantity \in 0..MaxStock, Create(image, quantity)
      PROVE  OrphanInv'
  <2>1. row = None /\ row'.image = image /\ UNCHANGED <<objects, req, overlaps, faults>>
    BY <1>2 DEF Create
  <2>2. row'.image \notin Request
    BY <2>1, CatalogAssumption
  <2>3. Grows
    BY <1>2 DEF Create, Grows
  <2> QED BY <1>1, <2>1, <2>2, <2>3, OrphanStutter
<1>3. ASSUME NEW r \in Request, Edit(r) PROVE OrphanInv'
  <2>1. ASSUME NEW p \in Patch, UpdateProduct(r, p.image, p.quantity) PROVE OrphanInv'
    BY <2>1, OrphanLoad DEF UpdateProduct
  <2>2. CASE UploadProductImage(r) \/ DeleteProduct(r)
    BY <2>2, OrphanLoad DEF UploadProductImage, DeleteProduct
  <2> QED BY <1>3, <2>1, <2>2, OrphanReserve, OrphanPut, OrphanCommit, OrphanQuiet DEF Edit
<1>4. ASSUME NEW r \in Request, Fails(r) PROVE OrphanInv'
  BY <1>4, OrphanPut, OrphanCommitFails, OrphanAbandon DEF Fails
<1>5. CASE Read
  <2>1. UNCHANGED <<row, objects, req>> /\ Grows
    BY <1>5 DEF Read, ReadProduct, SignFails, FillCard, DropRead, ExpireCard, counted, Fault, Grows
  <2> QED BY <1>1, <2>1, OrphanStutter
<1>6. CASE UNCHANGED vars
  BY <1>1, <1>6, OrphanStutter DEF vars, counted, Grows
<1> QED BY <1>2, <1>3, <1>4, <1>5, <1>6 DEF Next

(* For any requests, patches and faults: of the objects in the bucket that *)
(* nobody refers to and nobody is about to use or delete, there are never  *)
(* more than failures and overlapping replacements (upload_product_image,  *)
(* update_product, delete_product).                                        *)
THEOREM OrphansNeedCauses == Spec => []OrphanNeedsCause
<1>1. OrphanInv => OrphanNeedsCause
  BY DEF OrphanInv
<1> QED BY InitIInv, NextIInv, InitOrphanInv, NextOrphanInv, <1>1, PTL DEF Spec
-----------------------------------------------------------------------------
(* The counters.  A request commits once, so no more commits overlap than  *)
(* requests are past their commit.                                         *)
PastCommit == {r \in Request : req[r].pc \in {"undo", "uncache", "drop", "done"}}
CountersFit ==
    /\ faults \in 0..MaxFaults /\ kept \in BOOLEAN
    /\ overlaps \in Nat /\ overlaps <= Cardinality(PastCommit)

(* Nobody comes back from behind its commit; a commit that overlaps is of  *)
(* one more request.                                                       *)
CommitsPass ==
    /\ PastCommit \subseteq PastCommit'
    /\ \/ overlaps' = overlaps
       \/ overlaps' = overlaps + 1 /\ \E r \in PastCommit' : r \notin PastCommit

LEMMA OverlapsAreFewer ==
    ASSUME IsFiniteSet(Request), CountersFit, CommitsPass,
           faults' \in 0..MaxFaults, kept' \in BOOLEAN
    PROVE  CountersFit'
<1>1. /\ IsFiniteSet(PastCommit) /\ IsFiniteSet(PastCommit')
      /\ Cardinality(PastCommit) \in Nat /\ Cardinality(PastCommit') \in Nat
      /\ Cardinality(PastCommit) <= Cardinality(PastCommit')
  <2>1. PastCommit' \in SUBSET Request /\ PastCommit \in SUBSET PastCommit'
    BY DEF PastCommit, CommitsPass
  <2> QED BY <2>1, FS_Subset, FS_CardinalityType
<1>2. CASE overlaps' = overlaps
  BY <1>1, <1>2 DEF CountersFit
<1>3. CASE overlaps' = overlaps + 1 /\ \E r \in PastCommit' : r \notin PastCommit
  <2>1. PastCommit' # PastCommit /\ PastCommit \in SUBSET PastCommit'
    BY <1>3 DEF CommitsPass
  <2>2. Cardinality(PastCommit) < Cardinality(PastCommit')
    BY <1>1, <2>1, FS_Subset
  <2> QED BY <1>1, <1>3, <2>2 DEF CountersFit
<1> QED BY <1>2, <1>3 DEF CommitsPass

(* A request takes a step: to its commit, or past it.                      *)
LEMMA StepPasses ==
    ASSUME Typed, NEW r \in Request, NEW pc \in Pc, req'[r].pc = pc,
           \A s \in Request : s # r => req'[s] = req[s],
           r \in PastCommit => pc \in {"undo", "uncache", "drop", "done"},
           \/ overlaps' = overlaps
           \/ overlaps' = overlaps + 1 /\ r \notin PastCommit
              /\ pc \in {"undo", "uncache", "drop", "done"}
    PROVE  CommitsPass
<1>1. \A s \in Request : s # r => (s \in PastCommit' <=> s \in PastCommit)
  BY DEF PastCommit
<1>2. r \in PastCommit' <=> pc \in {"undo", "uncache", "drop", "done"}
  BY DEF PastCommit
<1>3. PastCommit \subseteq PastCommit'
  BY <1>1, <1>2 DEF PastCommit
<1> QED BY <1>2, <1>3 DEF CommitsPass

LEMMA GoesPast ==
    ASSUME Typed, NEW r \in Request, NEW pc \in {"undo", "uncache", "drop", "done"}, Goes(r, pc),
           \/ overlaps' = overlaps
           \/ overlaps' = overlaps + 1 /\ req[r].pc = "commit"
    PROVE  CommitsPass
<1>1. pc \in Pc
  BY DEF Pc
<1>2. req'[r].pc = pc /\ \A s \in Request : s # r => req'[s] = req[s]
  BY <1>1, GoesTo
<1> QED BY <1>1, <1>2, StepPasses DEF PastCommit

LEMMA EditPasses ==
    ASSUME Typed, NEW r \in Request, Edit(r)
    PROVE  CommitsPass
<1>1. ASSUME NEW kind, NEW pc \in {"put", "commit"}, NEW image, NEW quantity,
             Load(r, kind, pc, image, quantity)
      PROVE  CommitsPass
  <2>1. /\ req'[r].pc = pc /\ (\A s \in Request : s # r => req'[s] = req[s])
        /\ req[r].pc = "new" /\ overlaps' = overlaps
    BY <1>1 DEF Typed, Load, counted
  <2> QED BY <2>1, StepPasses DEF Pc, PastCommit
<1>2. (\E p \in Patch : UpdateProduct(r, p.image, p.quantity)) \/ UploadProductImage(r)
          \/ DeleteProduct(r) => CommitsPass
  BY <1>1 DEF UpdateProduct, UploadProductImage, DeleteProduct
<1>3. ASSUME NEW change \in {-1, 1}, Count(r, change) PROVE CommitsPass
  <2>1. [Idle EXCEPT !.pc = "uncache"].pc = "uncache"
    BY IdleFits DEF Pc
  <2>2. /\ req'[r].pc = "uncache" /\ (\A s \in Request : s # r => req'[s] = req[s])
        /\ req[r].pc = "new" /\ overlaps' = overlaps
    BY <1>3, <2>1 DEF Typed, Count
  <2> QED BY <2>2, StepPasses DEF Pc, PastCommit
<1>4. CASE Put(r)
  <2>1. Goes(r, "commit") /\ req[r].pc = "put" /\ overlaps' = overlaps
    BY <1>4 DEF Put, counted
  <2>2. req'[r].pc = "commit" /\ \A s \in Request : s # r => req'[s] = req[s]
    BY <2>1, GoesTo DEF Pc
  <2> QED BY <2>1, <2>2, StepPasses DEF Pc, PastCommit
<1>5. CASE Commit(r)
  BY <1>5, GoesPast DEF Commit, Apply, Applied
<1>6. CASE Undo(r) \/ Uncache(r) \/ DropOld(r)
  BY <1>6, GoesPast DEF Undo, Uncache, DropOld, counted
<1> QED BY <1>2, <1>3, <1>4, <1>5, <1>6 DEF Edit

LEMMA FailurePasses ==
    ASSUME Typed, NEW r \in Request, Fails(r)
    PROVE  CommitsPass
<1>1. CASE CommitFails(r)
  BY <1>1, GoesPast DEF CommitFails, Applied
<1>2. CASE PutFails(r) \/ UncacheFails(r) \/ DeleteFails(r) \/ Die(r)
  BY <1>2, GoesPast DEF PutFails, UncacheFails, DeleteFails, Die
<1> QED BY <1>1, <1>2 DEF Fails

LEMMA NextCountersFit == IsFiniteSet(Request) /\ IInv /\ CountersFit /\ [Next]_vars => CountersFit'
<1> SUFFICES ASSUME IsFiniteSet(Request), IInv, CountersFit, [Next]_vars PROVE CountersFit'
  OBVIOUS
<1>1. Typed /\ MaxFaults \in Nat
  BY CatalogAssumption DEF IInv
<1>2. CommitsPass
  <2>1. CASE UNCHANGED <<req, overlaps>>
    BY <2>1 DEF CommitsPass, PastCommit
  <2> QED BY <1>1, <2>1, EditPasses, FailurePasses
          DEF Next, vars, counted, Create, Read, ReadProduct, SignFails, FillCard,
              DropRead, ExpireCard
<1>3. faults' \in 0..MaxFaults
  <2>1. faults' = faults \/ Fault
    BY DEF Next, vars, counted, Create, Edit, UpdateProduct, UploadProductImage, DeleteProduct,
           Load, Count, Put, Commit, Undo, Uncache, DropOld, Fails, PutFails, CommitFails,
           UncacheFails, DeleteFails, Die, Read, ReadProduct, SignFails, FillCard, DropRead,
           ExpireCard
  <2> QED BY <1>1, <2>1 DEF CountersFit, Fault
<1>4. kept' \in BOOLEAN
  <2>1. kept' = kept \/ kept' = FALSE \/ kept' = (entry # None)
    BY DEF Next, vars, cached, Create, Edit, UpdateProduct, UploadProductImage, DeleteProduct,
           Load, Count, Put, Commit, Apply, Applied, Undo, Uncache, DropOld, Fails, PutFails, CommitFails,
           UncacheFails, DeleteFails, Die, Read, ReadProduct, SignFails, FillCard, DropRead,
           ExpireCard, Cache!Change, Cache!ChangeKept, Cache!Delete, Cache!LoseDelete, Cache!Load,
           Cache!Fill, Cache!NoFill, Cache!Expire
  <2> QED BY <2>1 DEF CountersFit
<1> QED BY <1>2, <1>3, <1>4, OverlapsAreFewer

(* For any patches, stock and faults, and any finite number of requests:   *)
(* rows, objects, what requests hold and the counters keep their types; a  *)
(* request commits at most once, so commits that replaced another image    *)
(* than they had loaded are at most as many as there are requests.         *)
THEOREM CatalogTyped == ASSUME IsFiniteSet(Request) PROVE Spec => []TypeOK
<1>1. Init => CountersFit
  <2> SUFFICES ASSUME Init PROVE CountersFit
    OBVIOUS
  <2>1. faults = 0 /\ overlaps = 0 /\ kept = FALSE
    BY DEF Init, Cache!CacheInit
  <2>2. PastCommit = {}
    BY IdleFits DEF Init, PastCommit
  <2>3. Cardinality(PastCommit) = 0 /\ MaxFaults \in Nat
    BY <2>2, FS_EmptySet, CatalogAssumption
  <2>4. overlaps \in Nat /\ overlaps <= Cardinality(PastCommit) /\ faults \in 0..MaxFaults
    BY <2>1, <2>3
  <2> QED BY <2>1, <2>4 DEF CountersFit
<1>2. IInv /\ CountersFit => TypeOK
  <2> SUFFICES ASSUME IInv, CountersFit PROVE TypeOK
    OBVIOUS
  <2>1. PastCommit \in SUBSET Request
    BY DEF PastCommit
  <2>2. Cardinality(PastCommit) <= Cardinality(Request)
    BY <2>1, FS_Subset
  <2>3. Cardinality(PastCommit) \in Nat /\ Cardinality(Request) \in Nat
    BY <2>1, FS_Subset, FS_CardinalityType
  <2>4. overlaps \in 0..Cardinality(Request)
    BY <2>2, <2>3 DEF CountersFit
  <2> QED BY <2>4 DEF IInv, Typed, CountersFit, TypeOK, Job, Pc
<1> QED BY InitIInv, NextIInv, NextCountersFit, <1>1, <1>2, PTL DEF Spec
=============================================================================
