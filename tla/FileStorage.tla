------------------------------ MODULE FileStorage ------------------------------
(***************************************************************************)
(* The files of one tenant: UploadFileHandler, the presigned upload        *)
(* (GetUploadPresignedUrlHandler, CompletePresignedUploadHandler),         *)
(* DeleteFileHandler and the OrphanedObjectSweepJob.  A file is a row in   *)
(* PostgreSQL and an object in the backend, written one after the other    *)
(* with nothing that spans the two.                                        *)
(*                                                                         *)
(* Every file has size 1 and a storage key of its own, never used again.   *)
(***************************************************************************)
EXTENDS FiniteSets, Integers

CONSTANTS
  Files,      \* the files that may be stored
  Uploaders,  \* uploads in progress at the same time
  Deleters,   \* deletions in progress at the same time
  Quota,      \* the tenant's quota, in files
  NoFile

VARIABLES
  fileRow,  \* the row of each file
  object,   \* its object: "new", or "old" once past the sweep's MinimumAge
  url,      \* the files whose presigned upload URL is still valid
  uploader, deleter,  \* the requests
  sweep,    \* the job: the old objects it has listed, those of them without a row
  slow      \* files whose upload was still in progress when the object got old

fileVars == <<fileRow, object, url, uploader, deleter, sweep, slow>>

ASSUME FileAssumption ==
  /\ IsFiniteSet(Files) /\ NoFile \notin Files
  /\ IsFiniteSet(Uploaders) /\ Uploaders # {} /\ Quota \in Nat

UploaderAtRest == [at |-> "idle", file |-> NoFile]

SweepAtRest == [at |-> "idle", listed |-> {}, orphans |-> {}]

FileInit ==
  /\ fileRow = [f \in Files |-> "unused"]
  /\ object = [f \in Files |-> "none"]
  /\ url = {} /\ slow = {}
  /\ uploader = [u \in Uploaders |-> UploaderAtRest]
  /\ deleter = [d \in Deleters |-> UploaderAtRest]
  /\ sweep = SweepAtRest

Rows(status) == {f \in Files : fileRow[f] \in status}

\* GetTotalSizeBytesAsync counts every row.
Used == Cardinality(Rows({"pending", "available", "rejected"}))

Uploads(u, at, f) == uploader' = [uploader EXCEPT ![u] = [at |-> at, file |-> f]]

Deletes(d, at, f) == deleter' = [deleter EXCEPT ![d] = [at |-> at, file |-> f]]

\* The keys that uploads in progress have taken.
Taken == {uploader[u].file : u \in Uploaders}

-----------------------------------------------------------------------------
(* Uploads.  Limits, content types and the scan end the request early.     *)

\* Mutant: the file itself is not counted.
WithinQuotaByOne == Used <= Quota

WithinQuota == Used + 1 <= Quota

CheckQuota(u, f) ==
  /\ uploader[u].at = "idle" /\ WithinQuota
  /\ fileRow[f] = "unused" /\ f \notin Taken
  /\ \/ Uploads(u, "checked", f)      \* a multipart upload
     \/ Uploads(u, "asked", f)        \* a request for a presigned URL
  /\ UNCHANGED <<fileRow, object, url, deleter, sweep, slow>>

PutObject(u) ==
  /\ uploader[u].at = "checked"
  /\ object' = [object EXCEPT ![uploader[u].file] = "new"]
  /\ Uploads(u, "put", uploader[u].file)
  /\ UNCHANGED <<fileRow, url, deleter, sweep, slow>>

\* With a presigned upload the URL comes after the row.
AddRow(u) ==
  LET f == uploader[u].file
  IN /\ uploader[u].at \in {"put", "asked"}
     /\ fileRow' = [fileRow EXCEPT ![f] =
                      IF uploader[u].at = "put" THEN "available" ELSE "pending"]
     /\ \/ url' = url
        \/ uploader[u].at = "asked" /\ url' = url \cup {f}
     /\ Uploads(u, "idle", NoFile)
     /\ UNCHANGED <<object, deleter, sweep, slow>>

\* The client uploads, as often as it likes until the URL expires, whatever has
\* become of the row.
PutByUrl(f) ==
  /\ f \in url
  /\ object' = [object EXCEPT ![f] = "new"]
  /\ UNCHANGED <<fileRow, url, uploader, deleter, sweep, slow>>

UrlExpires(f) ==
  /\ f \in url
  /\ url' = url \ {f}
  /\ UNCHANGED <<fileRow, object, uploader, deleter, sweep, slow>>

\* CompletePresignedUpload: the row is pending, the object exists and is read ...
FindObject(u, f) ==
  /\ uploader[u].at = "idle" /\ fileRow[f] = "pending" /\ object[f] # "none"
  /\ Uploads(u, "scanning", f)
  /\ UNCHANGED <<fileRow, object, url, deleter, sweep, slow>>

\* ... and the verdict is saved, if the row is still there.
SaveVerdict(u) ==
  LET f == uploader[u].file
  IN /\ uploader[u].at = "scanning"
     /\ \/ /\ fileRow[f] # "gone"
           /\ \E verdict \in {"available", "rejected"} :
                fileRow' = [fileRow EXCEPT ![f] = verdict]
        \/ /\ fileRow[f] = "gone"
           /\ fileRow' = fileRow
     /\ Uploads(u, "idle", NoFile)
     /\ UNCHANGED <<object, url, deleter, sweep, slow>>

\* An exception or a stop of the process: an object without a row may stay.  The
\* key is a new one each time: it is not used again.
UploadFails(u) ==
  LET f == uploader[u].file
  IN /\ uploader[u].at # "idle"
     /\ fileRow' = [fileRow EXCEPT ![f] = IF @ = "unused" THEN "gone" ELSE @]
     /\ Uploads(u, "idle", NoFile)
     /\ UNCHANGED <<object, url, deleter, sweep, slow>>

-----------------------------------------------------------------------------
(* Deletions: DeleteFileHandler, and DeleteBucketHandler file by file.     *)

FindRow(d, f) ==
  /\ deleter[d].at = "idle" /\ fileRow[f] \in {"pending", "available", "rejected"}
  /\ Deletes(d, "read", f)
  /\ UNCHANGED <<fileRow, object, url, uploader, sweep, slow>>

\* Mutant: the bytes go first.
RemoveBytesFirst(d) ==
  /\ deleter[d].at = "read"
  /\ object' = [object EXCEPT ![deleter[d].file] = "none"]
  /\ Deletes(d, "removed", deleter[d].file)
  /\ UNCHANGED <<fileRow, url, uploader, sweep, slow>>

\* Of two deletions, the second finds no row to remove and throws.
RemoveRow(d) ==
  /\ deleter[d].at = "read"
  /\ fileRow' = [fileRow EXCEPT ![deleter[d].file] = "gone"]
  /\ IF fileRow[deleter[d].file] = "gone" THEN Deletes(d, "idle", NoFile)
     ELSE Deletes(d, "removed", deleter[d].file)
  /\ UNCHANGED <<object, url, uploader, sweep, slow>>

RemoveObject(d) ==
  /\ deleter[d].at = "removed"
  /\ object' = [object EXCEPT ![deleter[d].file] = "none"]
  /\ Deletes(d, "idle", NoFile)
  /\ UNCHANGED <<fileRow, url, uploader, sweep, slow>>

DeleteFails(d) ==
  /\ deleter[d].at # "idle"
  /\ Deletes(d, "idle", NoFile)
  /\ UNCHANGED <<fileRow, object, url, uploader, sweep, slow>>

-----------------------------------------------------------------------------
(* The sweep.                                                              *)

\* 24 hours pass.
ObjectAges(f) ==
  /\ object[f] = "new" /\ f \notin url
  /\ object' = [object EXCEPT ![f] = "old"]
  /\ slow' = IF f \in Taken /\ fileRow[f] = "unused" THEN slow \cup {f} ELSE slow
  /\ UNCHANGED <<fileRow, url, uploader, deleter, sweep>>

ListOld ==
  /\ sweep.at = "idle" /\ \E f \in Files : object[f] = "old"
  /\ sweep' = [SweepAtRest EXCEPT !.at = "listed",
                                  !.listed = {f \in Files : object[f] = "old"}]
  /\ UNCHANGED <<fileRow, object, url, uploader, deleter, slow>>

\* Mutant: rows that are marked as deleted still count as references.
ReadRowsOfDeleted ==
  /\ sweep.at = "listed"
  /\ sweep' = [sweep EXCEPT !.at = "read", !.orphans = sweep.listed \ Rows({"pending", "available", "rejected", "gone"})]
  /\ UNCHANGED <<fileRow, object, url, uploader, deleter, slow>>

ReadRows ==
  /\ sweep.at = "listed"
  /\ sweep' = [sweep EXCEPT !.at = "read",
                 !.orphans = sweep.listed \ Rows({"pending", "available", "rejected"})]
  /\ UNCHANGED <<fileRow, object, url, uploader, deleter, slow>>

SweepObject(f) ==
  /\ sweep.at = "read" /\ f \in sweep.orphans
  /\ object' = [object EXCEPT ![f] = "none"]
  /\ sweep' = [sweep EXCEPT !.orphans = @ \ {f}]
  /\ UNCHANGED <<fileRow, url, uploader, deleter, slow>>

SweepEnds ==
  /\ sweep.at = "read" /\ sweep.orphans = {}
  /\ sweep' = SweepAtRest
  /\ UNCHANGED <<fileRow, object, url, uploader, deleter, slow>>

\* Any exception ends the run; the next one starts over.
SweepFails ==
  /\ sweep.at # "idle"
  /\ sweep' = SweepAtRest
  /\ UNCHANGED <<fileRow, object, url, uploader, deleter, slow>>

FileNext ==
  \/ \E u \in Uploaders :
       \/ PutObject(u) \/ AddRow(u) \/ SaveVerdict(u) \/ UploadFails(u)
       \/ \E f \in Files : CheckQuota(u, f) \/ FindObject(u, f)
  \/ \E f \in Files : PutByUrl(f) \/ UrlExpires(f) \/ ObjectAges(f) \/ SweepObject(f)
  \/ \E d \in Deleters :
       \/ RemoveRow(d) \/ RemoveObject(d) \/ DeleteFails(d)
       \/ \E f \in Files : FindRow(d, f)
  \/ ListOld \/ ReadRows \/ SweepEnds \/ SweepFails

FileSpec == FileInit /\ [][FileNext]_fileVars

\* The job runs every day, and neither its query nor the deletion of one and the
\* same object fails on every day there is.
SweepFairness ==
  /\ WF_fileVars(ListOld) /\ SF_fileVars(ReadRows) /\ WF_fileVars(SweepEnds)
  /\ \A f \in Files : SF_fileVars(SweepObject(f))

-----------------------------------------------------------------------------
(* What the tenant and the operator rely on.                               *)

\* The type of the state.
FileTypeOK ==
  /\ fileRow \in [Files -> {"unused", "pending", "available", "rejected", "gone"}]
  /\ object \in [Files -> {"none", "new", "old"}]
  /\ url \subseteq Files /\ slow \subseteq Files
  /\ uploader \in [Uploaders -> [at : {"idle", "checked", "asked", "put", "scanning"},
                                 file : Files \cup {NoFile}]]
  /\ deleter \in [Deleters -> [at : {"idle", "read", "removed"}, file : Files \cup {NoFile}]]
  /\ sweep \in [at : {"idle", "listed", "read"}, listed : SUBSET Files, orphans : SUBSET Files]

\* A failed deletion or sweep "leaves an orphan rather than a row pointing at
\* missing bytes": an available file has its object, unless its upload took longer
\* than the sweep's MinimumAge.
RowsHaveBytes ==
  \A f \in Files \ slow : fileRow[f] = "available" => object[f] # "none"

\* Uploads check the quota first and add their row last: together they pass it by
\* less than one file for each upload in progress.
QuotaNearlyHeld == Used < Quota + Cardinality(Uploaders)

\* The residue of a failed upload or deletion is removed in the end.
OrphansSwept ==
  \A f \in Files : object[f] = "old" /\ fileRow[f] = "gone" ~> object[f] = "none"
=============================================================================
