------------------------------ MODULE Uploads ------------------------------
(***************************************************************************)
(* Uploaded files: uploads/uploads.service.ts over storage/s3.service.ts,  *)
(* and what prisma/reset-production-data.ts does to them.                  *)
(* The row of a file is in the database and its bytes are in a bucket; no  *)
(* transaction spans the two, and a request may end between any two calls. *)
(*                                                                         *)
(* A file is named by its id: buildKey makes a key of its own for each.    *)
(* The bucket is not in the repository; it is what the service uses of it: *)
(* put, head and delete of one key, and URLs a client may put to for a     *)
(* while.  A head that fails is taken for an object that is not there.     *)
(***************************************************************************)
EXTENDS Requests, Integers, FiniteSets

CONSTANTS
    Files,  \* ids of files, never used twice
    Sizes,  \* sizes of uploaded bytes
    Limit,  \* MAX_UPLOAD_BYTES
    Owners, \* users and customers, <<entityType, entityId>>
    LinkTexts, \* what bodies of users and customers give for a link: any text
    Bodies, \* what an upload says of a file: mimeType, owner, documentType
    Retags, \* document categories a file may be given later
    Gone    \* a row that was deleted

VARIABLES
    file,      \* the FileUpload table
    bucket,    \* the size of each stored object
    urls,      \* files with a URL to put to that has not expired
    link,      \* avatarUrl or representativeImageUrl of each owner, and who wrote it
    torn,      \* history: objects deleted ahead of their rows, and not put again
    stray,     \* history: objects put without a row, or after a deletion
    rewritten  \* history: objects put again after they were measured

vars == <<file, bucket, urls, link, req, torn, stray, rewritten>>

ASSUME UploadsAssumption ==
    /\ None # Gone
    /\ Sizes \subseteq Nat /\ Limit \in Nat /\ None \notin Nat

ALLOWED_MIME_TYPES ==
    {"image/png", "image/jpeg", "image/webp", "image/svg+xml", "application/pdf",
     "application/msword",
     "application/vnd.openxmlformats-officedocument.wordprocessingml.document",
     "application/vnd.ms-excel",
     "application/vnd.openxmlformats-officedocument.spreadsheetml.sheet", "text/csv"}

FileUpload ==
    [status : {"PENDING", "UPLOADED"}, size : {None} \cup Sizes,
     owner : {None} \cup {b.owner : b \in Bodies},
     documentType : {b.documentType : b \in Bodies} \cup Retags]

\* What is no key and no row.
ASSUME NoneAssumption == None \notin Files \cup FileUpload /\ Gone \notin FileUpload

Exists(f) == file[f] \notin {None, Gone}

Uploaded(f) == Exists(f) /\ file[f].status = "UPLOADED"

Row(status, size, body) ==
    [status |-> status, size |-> size, owner |-> body.owner, documentType |-> body.documentType]

Idle == [pc |-> "idle", id |-> None, row |-> None, size |-> None, outdated |-> FALSE,
         doomed |-> {}]

InUse(f) == \E p \in Procs : req[p].id = f

Init ==
    /\ file = [f \in Files |-> None]
    /\ bucket = [f \in Files |-> None]
    /\ urls = {}
    /\ link = [o \in Owners |-> [key |-> None, by |-> "body"]]
    /\ req = [p \in Procs |-> Idle]
    /\ torn = {} /\ stray = {} /\ rewritten = {}

----------------------------------------------------------------------------
(* Storage *)

Put(f, size) == [bucket EXCEPT ![f] = size]

\* Mutant: deleteObject leaves the object.
DeletedNot(f) == bucket

deleteObject(f) == [bucket EXCEPT ![f] = None]

----------------------------------------------------------------------------
(* Proxied uploads *)

\* Mutant: a size is never too large.
TooLargeNever(size) == FALSE

TooLarge(size) == size > Limit

\* The bytes are put, then the row is inserted, then the owner is linked.
CreatePut(p, f, body, size) ==
    /\ At(p, "idle")
    /\ file[f] = None /\ bucket[f] = None /\ ~InUse(f)
    /\ body.mimeType \in ALLOWED_MIME_TYPES /\ ~TooLarge(size)
    /\ bucket' = Put(f, size)
    /\ stray' = stray \cup {f}
    /\ Goes(p, [Idle EXCEPT !.pc = "inserting", !.id = f, !.size = size,
                  !.row = Row("UPLOADED", size, body)])
    /\ UNCHANGED <<file, urls, link, torn, rewritten>>

CreateInsert(p) ==
    /\ At(p, "inserting")
    /\ file' = [file EXCEPT ![req[p].id] = req[p].row]
    /\ stray' = stray \ {req[p].id}
    /\ Goes(p, [req[p] EXCEPT !.pc = "linking"])
    /\ UNCHANGED <<bucket, urls, link, torn, rewritten>>

\* linkToEntity, by the row as the request read it; a missing owner is ignored.
Shows(row) ==
    /\ row.owner \in Owners
    /\ \/ row.owner[1] = "Customer" /\ row.documentType = "REPRESENTATIVE_IMAGE"
       \/ row.owner[1] = "User"

Link(p) ==
    /\ At(p, "linking")
    /\ link' = [o \in Owners |-> IF Shows(req[p].row) /\ req[p].row.owner = o
                                 THEN [key |-> req[p].id, by |-> "upload"] ELSE link[o]]
    /\ Goes(p, Idle)
    /\ UNCHANGED <<file, bucket, urls, torn, stray, rewritten>>

\* POST and PATCH of a user or a customer store the link of the body as it is:
\* the key of a file, another text, or none.
WriteLink(o, text) ==
    /\ link' = [link EXCEPT ![o] = [key |-> text, by |-> "body"]]
    /\ UNCHANGED <<file, bucket, urls, req, torn, stray, rewritten>>

----------------------------------------------------------------------------
(* Uploads of the client *)

\* presign: a row without a size and a URL to put to.
Presign(f, body) ==
    /\ file[f] = None /\ bucket[f] = None /\ ~InUse(f)
    /\ body.mimeType \in ALLOWED_MIME_TYPES
    /\ file' = [file EXCEPT ![f] = Row("PENDING", None, body)]
    /\ urls' = urls \cup {f}
    /\ UNCHANGED <<bucket, link, req, torn, stray, rewritten>>

\* The client puts bytes once, more than once, late, or after a deletion.
ClientPut(f, size) ==
    /\ f \in urls
    /\ bucket' = Put(f, size)
    /\ stray' = IF Exists(f) /\ f \notin torn THEN stray ELSE stray \cup {f}
    /\ rewritten' = IF Uploaded(f) THEN rewritten \cup {f} ELSE rewritten
    /\ req' = [p \in Procs |->
                 IF req[p].id = f /\ At(p, "marking") THEN [req[p] EXCEPT !.outdated = TRUE]
                 ELSE req[p]]
    /\ torn' = torn \ {f}
    /\ UNCHANGED <<file, urls, link>>

ExpireUrl(f) ==
    /\ f \in urls
    /\ urls' = urls \ {f}
    /\ UNCHANGED <<file, bucket, link, req, torn, stray, rewritten>>

ConfirmFind(p, f) ==
    /\ At(p, "idle")
    /\ Exists(f)
    /\ Goes(p, [Idle EXCEPT !.pc = "heading", !.id = f, !.row = file[f]])
    /\ UNCHANGED <<file, bucket, urls, link, torn, stray, rewritten>>

\* Mutant: the object is not looked for.
HeadedAnyway(f) == TRUE

headObject(f) == bucket[f] # None

\* Without an object the request ends; one that is too large is evicted.
ConfirmHead(p) ==
    /\ At(p, "heading")
    /\ headObject(req[p].id)
    /\ LET size == bucket[req[p].id]
       IN  Goes(p, [req[p] EXCEPT !.pc = IF TooLarge(size) THEN "evicting" ELSE "marking",
                                  !.size = size])
    /\ UNCHANGED <<file, bucket, urls, link, torn, stray, rewritten>>

\* Mutant: the row stays as presign made it.
MarkedNot(row, size) == row

Marked(row, size) == [row EXCEPT !.status = "UPLOADED", !.size = size]

ConfirmMark(p) ==
    /\ At(p, "marking")
    /\ Exists(req[p].id)
    /\ file' = [file EXCEPT ![req[p].id] = Marked(@, req[p].size)]
    /\ rewritten' = IF req[p].outdated THEN rewritten \cup {req[p].id}
                    ELSE rewritten \ {req[p].id}
    /\ Goes(p, [req[p] EXCEPT !.pc = "linking"])
    /\ UNCHANGED <<bucket, urls, link, torn, stray>>

----------------------------------------------------------------------------
(* Evictions and removals: the object first, then the row *)

RemoveFind(p, f) ==
    /\ At(p, "idle")
    /\ Exists(f)
    /\ Goes(p, [Idle EXCEPT !.pc = "evicting", !.id = f])
    /\ UNCHANGED <<file, bucket, urls, link, torn, stray, rewritten>>

DeleteObject(p) ==
    /\ At(p, "evicting")
    /\ bucket' = deleteObject(req[p].id)
    /\ torn' = torn \cup {req[p].id}
    /\ stray' = stray \ {req[p].id}
    /\ Goes(p, [req[p] EXCEPT !.pc = "deleting"])
    /\ UNCHANGED <<file, urls, link, rewritten>>

DeleteRow(p) ==
    /\ At(p, "deleting")
    /\ Exists(req[p].id)
    /\ file' = [file EXCEPT ![req[p].id] = Gone]
    /\ Goes(p, Idle)
    /\ UNCHANGED <<bucket, urls, link, torn, stray, rewritten>>

----------------------------------------------------------------------------
(* The reset script: the objects it can delete, then the rows *)

KEEP_FILE_ENTITY_TYPES == {"Customer", "User", "CompanySettings"}

Kept(row) == row.owner # None /\ row.owner[1] \in KEEP_FILE_ENTITY_TYPES

Doomed == {f \in Files : Exists(f) /\ ~Kept(file[f])}

ResetFind(p) ==
    /\ At(p, "idle")
    /\ Goes(p, [Idle EXCEPT !.pc = "wiping", !.doomed = Doomed])
    /\ UNCHANGED <<file, bucket, urls, link, torn, stray, rewritten>>

\* An object that cannot be deleted is only reported; without credentials none is.
ResetObjects(p) ==
    /\ At(p, "wiping")
    /\ \E deleted \in SUBSET req[p].doomed :
          /\ bucket' = [f \in Files |-> IF f \in deleted THEN None ELSE bucket[f]]
          /\ torn' = torn \cup deleted
          /\ stray' = stray \ deleted
          /\ Goes(p, [Idle EXCEPT !.pc = "wiped", !.doomed = deleted])
    /\ UNCHANGED <<file, urls, link, rewritten>>

\* All rows that are not kept, those that came since among them.
ResetRows(p) ==
    /\ At(p, "wiped")
    /\ file' = [f \in Files |-> IF f \in Doomed THEN Gone ELSE file[f]]
    /\ stray' = stray \cup (Doomed \ req[p].doomed)
    /\ Goes(p, Idle)
    /\ UNCHANGED <<bucket, urls, link, torn, rewritten>>

----------------------------------------------------------------------------

updateMeta(f, documentType) ==
    /\ Exists(f)
    /\ file' = [file EXCEPT ![f].documentType = documentType]
    /\ UNCHANGED <<bucket, urls, link, req, torn, stray, rewritten>>

\* A failing call, an object that is not there, a row that is gone, a crash.
Abort(p) ==
    /\ ~At(p, "idle")
    /\ Goes(p, Idle)
    /\ UNCHANGED <<file, bucket, urls, link, torn, stray, rewritten>>

Step(p) ==
    \/ \E f \in Files, body \in Bodies, size \in Sizes : CreatePut(p, f, body, size)
    \/ CreateInsert(p)
    \/ Link(p)
    \/ \E f \in Files : ConfirmFind(p, f)
    \/ ConfirmHead(p)
    \/ ConfirmMark(p)
    \/ \E f \in Files : RemoveFind(p, f)
    \/ DeleteObject(p)
    \/ DeleteRow(p)
    \/ ResetFind(p)
    \/ ResetObjects(p)
    \/ ResetRows(p)
    \/ Abort(p)

Client ==
    \/ \E f \in Files, body \in Bodies : Presign(f, body)
    \/ \E f \in Files, size \in Sizes : ClientPut(f, size)
    \/ \E f \in Files : ExpireUrl(f)
    \/ \E f \in Files, documentType \in Retags : updateMeta(f, documentType)
    \/ \E o \in Owners, text \in {None} \cup LinkTexts : WriteLink(o, text)

Next == Client \/ \E p \in Procs : Step(p)

Spec == Init /\ [][Next]_vars

----------------------------------------------------------------------------
(* Properties *)

\* Rows, objects and links keep their types.
TypeOK ==
    /\ \A f \in Files :
          /\ file[f] \in {None, Gone} \cup FileUpload
          /\ bucket[f] \in {None} \cup Sizes
          /\ Uploaded(f) => file[f].size # None
    /\ urls \subseteq Files
    /\ \A o \in Owners :
          link[o] \in [key : {None} \cup Files \cup LinkTexts, by : {"upload", "body"}]

\* "Trust the size S3 stored": however creates, puts, confirms, evictions and
\* removals of a file interleave or break off, a row that says UPLOADED has an
\* object of the size it says, within the limit, unless a removal has deleted
\* the object and not yet the row, or the client put again after the object
\* was measured.
UploadedIsStored ==
    \A f \in Files : Uploaded(f) /\ f \notin torn \cup rewritten =>
        bucket[f] = file[f].size /\ ~(file[f].size > Limit)

\* Removals, evictions and the reset delete the object before the row: however
\* they break off or run into one another, no object is left that no row knows
\* of.  The objects without a row are those of creates that ended before their
\* insert, those a client put when the object was already deleted, and those
\* the reset did not know of or could not delete.
ObjectHasRow ==
    \A f \in Files : bucket[f] # None /\ f \notin stray => Exists(f)

\* linkToEntity runs after the row is UPLOADED: what it last wrote on a customer
\* or a user, and no body has overwritten since, is a file uploaded for that
\* very owner, or one that was and is removed by now.
LinkShowsUpload ==
    \A o \in Owners : link[o].by = "upload" =>
        \/ file[link[o].key] = Gone
        \/ Uploaded(link[o].key) /\ file[link[o].key].owner = o

=============================================================================
