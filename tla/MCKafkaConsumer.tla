-------------------------- MODULE MCKafkaConsumer --------------------------
(***************************************************************************)
(* Instances of KafkaConsumer for TLC, and the statements of the           *)
(* repository's docs and log lines that its behaviours contradict.         *)
(***************************************************************************)
EXTENDS KafkaConsumer, TLC

\* Workers and partitions are interchangeable; the safety runs use it.
Symmetry == Permutations(Workers) \cup Permutations(Partitions)

\* KAFKA_MAX_RETRIES=-1
NegativeRetries == -1

-----------------------------------------------------------------------------
(* Statements that the code does not keep *)

\* "DLT outages do not lose work because offsets stay uncommitted"
\* (docs/adr/001-async-fetch-and-retry.md:21): no offset is committed past a
\* message whose dead letter could not be written.  Start commits the next
\* message of the partition, and the failed one with it.
DltOutagesLoseNoWork ==
    \A m \in abandoned : Settled(m) \/ committed[m[1]] <= m[2]

\* "shutdown signal received: draining in-flight work" (worker/main.go:92): a
\* process that was told to stop leaves with no message in hand.
DrainedBeforeExit ==
    [][\A w \in Workers : Exit(w) => ~InFlight(w)]_vars
=============================================================================
