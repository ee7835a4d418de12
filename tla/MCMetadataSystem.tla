-------------------------- MODULE MCMetadataSystem --------------------------
(***************************************************************************)
(* Instances of MetadataSystem for TLC, and the statements of the          *)
(* repository's docs and comments that its behaviours contradict.          *)
(***************************************************************************)
EXTENDS MetadataSystem, TLC

\* Requests and workers are interchangeable; the safety runs use it.
Symmetry == Permutations(Requests) \cup Permutations(Workers)

-----------------------------------------------------------------------------
(* Statements that the code does not keep *)

\* "202: in progress or cache miss queued to Kafka" (README.md:47): when a GET is
\* answered with 202, a request, a message or a worker is busy with the URL.
\* After a failed Publish the record is pending and nothing is.
AcceptedIsOnItsWay ==
    [][\A r \in Requests :
          /\ op[r] = "get"
          /\ reply[r].code # 202
          /\ reply'[r].code = 202
          => Attended(target[r])]_vars

\* "Mark as fetching (prevents duplicate concurrent fetches)"
\* (worker/consumer/consumer.go:65): no two actors fetch one URL at a time.  The
\* mark is written without looking at it.
NoDuplicateFetch ==
    \A v, w \in Workers :
        /\ Working(v) /\ phase[v] = "fetch"
        /\ Working(w) /\ phase[w] = "fetch"
        /\ UrlInHand(v) = UrlInHand(w)
        => v = w
=============================================================================
