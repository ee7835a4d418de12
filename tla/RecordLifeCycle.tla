--------------------------- MODULE RecordLifeCycle ---------------------------
(***************************************************************************)
(* What the pipeline promises about the documents of MetadataStore,        *)
(* whatever its requests, messages and workers do: a document is written   *)
(* by a submission, or by somebody who attends to it; nobody attends to a  *)
(* URL without a document; and one in progress is attended to or forsaken, *)
(* which is for good.                                                      *)
(*                                                                         *)
(* Attention may come back to a document that is done with: a message may  *)
(* be delivered again, and a request may submit the URL once more.         *)
(***************************************************************************)
EXTENDS MetadataStore

VARIABLES
    attended,  \* URLs whose final status somebody still has to write
    forsaken   \* URLs that a failure befell while they were in progress

lifeVars == <<records, attended, forsaken>>

Existing == {u \in Urls : records[u] # Absent}

Init ==
    /\ StoreInit
    /\ attended = {}
    /\ forsaken = {}

\* A stored result and the count of failures are given up for a new fetch.
Submit(u) == UpsertPending(u)

\* Whoever attends to u has begun the fetch, or has its outcome.
Work(u) ==
    /\ u \in attended
    /\ \/ UpdateStatus(u, "fetching")
       \/ UpdateStatus(u, "failed")
       \/ UpdateReady(u)

\* What every step keeps, a step that only turns attention too.
Answerable ==
    /\ attended' \subseteq Existing'
    /\ forsaken \subseteq forsaken'
    /\ \A u \in Urls : InProgress(u)' => u \in attended' \cup forsaken'

Next ==
    /\ UNCHANGED records \/ \E u \in Urls : Submit(u) \/ Work(u)
    /\ Answerable

Spec == Init /\ [][Next]_lifeVars
=============================================================================
