-------------------------------- MODULE Gallery --------------------------------
(***************************************************************************)
(* upload.controller.ts, upload.service.ts: the pictures of branches and   *)
(* rooms, each a row of the database and a file of Cloudinary.             *)
(*                                                                         *)
(* The updateMany that takes the cover from other pictures lists its rows  *)
(* when it begins and writes those that still match; the transaction       *)
(* around it shows its writes to others at its end.                        *)
(***************************************************************************)
EXTENDS Access

\* The branch that a picture of `of' belongs to.
BranchOf(of) == IF of \in Branches THEN of ELSE room[of].branch

\* findImageInOrg and the look-ups of the uploads: neither room nor branch is archived.
Shown(of) ==
    IF of \in Branches THEN of \in LiveBranches
    ELSE of \in LiveRooms /\ room[of].branch \in LiveBranches

CoversOf(of) == {i \in Pictures : image[i].of = of /\ image[i].cover}

UploadRead(q) ==
    \E a \in Emails, of \in Branches \cup Rooms, cover \in BOOLEAN :
        /\ Shown(of)
        /\ IF of \in Branches THEN MayUploadForBranch(a) ELSE MayUploadForRoom(a)
        /\ InScope(a, BranchOf(of))
        /\ RoomFor(FreshImages, {"upload"})
        /\ Begin(q, [op |-> "upload", pc |-> "store", actor |-> a, of |-> of,
                     branch |-> BranchOf(of), cover |-> cover])
        /\ UNCHANGED <<accountVars, staff, estateVars, pictureVars, review>>

\* uploadFile, before anything is written to the database.
UploadStore(q) ==
    /\ At(q, "upload", "store")
    /\ \E i \in FreshImages :
         /\ file' = file \cup {i}
         /\ Continue(q, [op |-> "upload", pc |-> IF req[q].cover THEN "covers" ELSE "insert",
                         actor |-> req[q].actor, of |-> req[q].of, branch |-> req[q].branch,
                         cover |-> req[q].cover, image |-> i, hits |-> {}])
    /\ UNCHANGED <<accountVars, staff, estateVars, image, review>>

\* The table once those of hits that still match have lost the cover.
Uncovered(hits) ==
    [i \in Images |-> IF i \in hits \cap Pictures THEN [image[i] EXCEPT !.cover = FALSE]
                      ELSE image[i]]

\* updateMany; an upload has no row yet that it would have to except.
ListCovers(q) ==
    /\ Served(q) /\ req[q].op \in {"upload", "cover"} /\ req[q].pc = "covers"
    /\ Continue(q, [req[q] EXCEPT !.pc = "insert",
                                  !.hits = CoversOf(req[q].of) \ {req[q].image}])
    /\ UNCHANGED <<accountVars, staff, estateVars, pictureVars, review>>

UploadInsert(q) ==
    /\ At(q, "upload", "insert")
    /\ image' = [Uncovered(req[q].hits) EXCEPT ![req[q].image] =
                   [of |-> req[q].of, cover |-> req[q].cover]]
    /\ Answer(q)
    /\ UNCHANGED <<accountVars, staff, estateVars, file, review>>

-----------------------------------------------------------------------------
\* What updateImage and deleteImage find out first.
Editable(a, i) ==
    /\ i \in Pictures
    /\ Shown(image[i].of)
    /\ InScope(a, BranchOf(image[i].of))

CoverRead(q) ==
    \E a \in Emails, i \in Images, cover \in BOOLEAN :
        /\ MayUpdateImage(a)
        /\ Editable(a, i)
        /\ Begin(q, [op |-> "cover", pc |-> IF cover THEN "covers" ELSE "insert",
                     actor |-> a, of |-> image[i].of, branch |-> BranchOf(image[i].of),
                     cover |-> cover, image |-> i, hits |-> {}])
        /\ UNCHANGED <<accountVars, staff, estateVars, pictureVars, review>>

\* An update of a row that is gone takes the transaction back.
CoverWrite(q) ==
    /\ At(q, "cover", "insert")
    /\ image' = IF req[q].image \in Pictures
                THEN [Uncovered(req[q].hits) EXCEPT ![req[q].image].cover = req[q].cover]
                ELSE image
    /\ Answer(q)
    /\ UNCHANGED <<accountVars, staff, estateVars, file, review>>

DeleteRead(q) ==
    \E a \in Emails, i \in Images :
        /\ MayDeleteImage(a)
        /\ Editable(a, i)
        /\ Begin(q, [op |-> "delete", pc |-> "row", actor |-> a,
                     branch |-> BranchOf(image[i].of), image |-> i])
        /\ UNCHANGED <<accountVars, staff, estateVars, pictureVars, review>>

\* A faulty order of the two deletions.
DeleteRowLast(q) ==
    /\ At(q, "delete", "row")
    /\ file' = file \ {req[q].image}
    /\ Goto(q, "file")
    /\ UNCHANGED <<accountVars, staff, estateVars, image, review>>

DeleteRow(q) ==
    /\ At(q, "delete", "row")
    /\ IF req[q].image \in Pictures
       THEN image' = [image EXCEPT ![req[q].image] = Gone] /\ Goto(q, "file")
       ELSE UNCHANGED image /\ Answer(q)
    /\ UNCHANGED <<accountVars, staff, estateVars, file, review>>

DeleteFile(q) ==
    /\ At(q, "delete", "file")
    /\ file' = file \ {req[q].image}
    /\ Answer(q)
    /\ UNCHANGED <<accountVars, staff, estateVars, image, review>>

-----------------------------------------------------------------------------
GalleryStart(q) == UploadRead(q) \/ CoverRead(q) \/ DeleteRead(q)

GalleryStep(q) ==
    \/ UploadStore(q) \/ ListCovers(q) \/ UploadInsert(q)
    \/ CoverWrite(q) \/ DeleteRow(q) \/ DeleteFile(q)

GalleryRequest ==
    [op: {"upload"}, pc: {"store"}, actor: Emails, of: Branches \cup Rooms,
     branch: Branches, cover: BOOLEAN]
    \cup [op: {"upload", "cover"}, pc: {"covers", "insert"}, actor: Emails,
          of: Branches \cup Rooms, branch: Branches, cover: BOOLEAN, image: Images,
          hits: SUBSET Images]
    \cup [op: {"delete"}, pc: {"row", "file"}, actor: Emails, branch: Branches, image: Images]
==============================================================================
