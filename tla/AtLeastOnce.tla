----------------------------- MODULE AtLeastOnce -----------------------------
(***************************************************************************)
(* What the consume loop promises to the topic: an offset is committed     *)
(* when its message and all before it are done with, and no message is     *)
(* done with before it is published or taken back once it is.              *)
(*                                                                         *)
(* "Done with" is accepted (handled, dead-lettered, or no request at all)  *)
(* or let go: given up by the loop, or never seen by a reader.  A message  *)
(* may be both, and may be accepted many times.                            *)
(***************************************************************************)
EXTENDS Integers

CONSTANT Partitions

VARIABLES
    published,  \* published[p]: number of messages of p
    accepted,   \* messages <<p, offset>>
    letGo,
    committed   \* committed[p]: number of messages of p behind the offset

vars == <<published, accepted, letGo, committed>>

Messages == UNION {{p} \X (0 .. published[p] - 1) : p \in Partitions}

Init ==
    /\ published = [p \in Partitions |-> 0]
    /\ accepted = {}
    /\ letGo = {}
    /\ committed = [p \in Partitions |-> 0]

\* A message is published.  One that is no request is accepted as it is.
Publish(p) ==
    /\ published' = [published EXCEPT ![p] = @ + 1]
    /\ accepted' \in {accepted, accepted \cup {<<p, published[p]>>}}
    /\ UNCHANGED <<letGo, committed>>

\* Messages are accepted or let go.
Finish ==
    /\ accepted \subseteq accepted' /\ accepted' \ accepted \subseteq Messages
    /\ letGo \subseteq letGo' /\ letGo' \ letGo \subseteq Messages
    /\ UNCHANGED <<published, committed>>

\* The offset of an accepted message is committed, over messages done with.  It may
\* be behind the present one.
Commit(p) ==
    /\ \E n \in 1 .. published[p] :
        /\ <<p, n - 1>> \in accepted
        /\ {p} \X (0 .. n - 1) \subseteq accepted \cup letGo
        /\ committed' = [committed EXCEPT ![p] = n]
    /\ UNCHANGED <<published, accepted, letGo>>

Next == Finish \/ \E p \in Partitions : Publish(p) \/ Commit(p)

Spec == Init /\ [][Next]_vars
=============================================================================
