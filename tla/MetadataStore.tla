--------------------------- MODULE MetadataStore ---------------------------
(***************************************************************************)
(* The metadata collection (pkg/db/mongo_repository.go): one document per  *)
(* URL, written by the API and by the workers.  A write is one UpdateOne,  *)
(* atomic on its document; nothing spans two of them.                      *)
(*                                                                         *)
(* Of a document the model keeps its status, whether it holds the result   *)
(* of a fetch, and its retry count; of a result, that there is one.        *)
(***************************************************************************)
EXTENDS Naturals

CONSTANTS
    Urls,   \* URLs that pass validation; url_hash tells them apart
    Absent  \* no document

VARIABLE records  \* records[u]: the document of u

Statuses == {"pending", "fetching", "ready", "failed"}
Record   == [status : Statuses, result : BOOLEAN, retryCount : Nat]

StoreTypeOK == records \in [Urls -> Record \cup {Absent}]
StoreInit   == records = [u \in Urls |-> Absent]

\* FindByURL: the status a caller sees, Absent for ErrNoDocuments.
StatusOf(u) == IF records[u] = Absent THEN Absent ELSE records[u].status

InProgress(u) == StatusOf(u) \in {"pending", "fetching"}

\* Mutant of UpsertPending: of a stored document only the status is set.
UpsertStatusOnly(u) ==
    records' = [records EXCEPT ![u] =
                   IF @ = Absent
                   THEN [status |-> "pending", result |-> FALSE, retryCount |-> 0]
                   ELSE [@ EXCEPT !.status = "pending"]]

\* Upsert of the record both services submit: every field but created_at is
\* written, so a stored result and its retry count are gone.
UpsertPending(u) ==
    records' = [records EXCEPT ![u] =
                   [status |-> "pending", result |-> FALSE, retryCount |-> 0]]

\* UpdateStatus without a result: the stored one stays.  Without a document
\* UpdateOne matches nothing, which is no error.
UpdateStatus(u, status) ==
    records' = IF records[u] = Absent THEN records
               ELSE [records EXCEPT
                        ![u].status = status,
                        ![u].retryCount = IF status = "failed" THEN @ + 1 ELSE @]

\* UpdateStatus(ready) with the result of a fetch.
UpdateReady(u) ==
    records' = IF records[u] = Absent THEN records
               ELSE [records EXCEPT ![u].status = "ready", ![u].result = TRUE]

-----------------------------------------------------------------------------
(* Properties *)

\* A ready document has a result, a failed one has been counted, and a pending one
\* carries nothing of an earlier fetch, whoever wrote last (Upsert, UpdateStatus).
RecordsConsistent ==
    \A u \in Urls :
        /\ StatusOf(u) = "ready" => records[u].result
        /\ StatusOf(u) = "failed" => records[u].retryCount > 0
        /\ StatusOf(u) = "pending" => ~records[u].result /\ records[u].retryCount = 0
=============================================================================
