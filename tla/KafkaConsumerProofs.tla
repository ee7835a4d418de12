------------------------ MODULE KafkaConsumerProofs ------------------------
(***************************************************************************)
(* Proofs about KafkaConsumer, for any number of workers, partitions,      *)
(* messages, retries and disruptions.                                      *)
(*                                                                         *)
(* NoSilentLoss is not inductive.  A commit of offset o + 1 vouches for    *)
(* every message up to o, so the loop must have found all of them          *)
(* accounted for when it took o in hand (StartedInOrder); it took the      *)
(* message at its position, so the messages before the position must have  *)
(* been accounted for (NothingBehindReader); and a rebalance resets the    *)
(* position to the committed offset, which closes the circle.              *)
(*                                                                         *)
(* The loop implements AtLeastOnce by the same invariant.  A step          *)
(* publishes, or commits, or leaves the log and the offsets alone; that a  *)
(* commit is one AtLeastOnce allows is what is known of the message in     *)
(* hand.                                                                   *)
(***************************************************************************)
EXTENDS KafkaConsumer, TLAPS

\* A worker in the middle of an iteration holds a message.
Holding == \A w \in Workers : InFlight(w) => current[w] \in Messages

TypeInv == TypeOK /\ Holding

\* What is known of the message in hand, state by state of the loop.
InHand(w) ==
    /\ ~InFlight(w) => attempt[w] = 0
    /\ InFlight(w) => Published(current[w])
    /\ pc[w] = "commit" => Settled(current[w])
    /\ pc[w] \in {"handle", "backoff", "deadletter"} =>
           Payload(current[w]) \in Jobs
    /\ pc[w] = "handle" => attempt[w] <= MaxRetries
    /\ pc[w] = "backoff" => attempt[w] < MaxRetries
    /\ pc[w] = "deadletter" => attempt[w] = MaxRetries

\* Readers do not run ahead of their partition.
Positions == \A p \in Partitions : position[p] <= Len(log[p])

IInv ==
    /\ TypeInv
    /\ \A w \in Workers : InHand(w)
    /\ Positions
    /\ NothingBehindReader
    /\ StartedInOrder
    /\ NoSilentLoss
    /\ CommitFollowsOutcome

-----------------------------------------------------------------------------
(* Type correctness *)

\* Publishing and the steps of the group keep the type invariant.
LEMMA TypeOfGroup ==
    ASSUME TypeInv,
           GroupStep \/ \E p \in Partitions, x \in Payloads : Publish(p, x)
    PROVE  TypeInv'
<1> USE DEF TypeInv, TypeOK, Holding, InFlight, vars, broker, workers, history,
            NoOffset
<1>1. ASSUME NEW p \in Partitions, NEW x \in Payloads, Publish(p, x)
      PROVE  TypeInv'
  BY <1>1 DEF Publish
<1>2. CASE Rebalance
  <2>1. PICK assignment \in [Partitions -> Live] : owner' = assignment
    BY <1>2 DEF Rebalance
  <2>2. owner' \in [Partitions -> Workers \cup {NoWorker}]
    BY <2>1 DEF Live
  <2>3. position' \in [Partitions -> Nat]
    <3>1. \A p \in Partitions : StartPosition(p) \in Nat
      BY DEF StartPosition
    <3> QED BY <1>2, <3>1 DEF Rebalance
  <2>4. skipped' \subseteq Messages
    <3>1. \A p \in Partitions : PassedOver(p) \subseteq Messages
      BY DEF PassedOver, Messages
    <3> QED BY <1>2, <3>1 DEF Rebalance
  <2> QED BY <1>2, <2>2, <2>3, <2>4 DEF Rebalance
<1>3. CASE SessionTimeout
  BY <1>3 DEF SessionTimeout
<1> HIDE DEF TypeInv
<1> QED BY <1>1, <1>2, <1>3 DEF GroupStep

\* So do the steps of a process.
LEMMA TypeOfProcess ==
    ASSUME TypeInv, NEW w \in Workers, ProcessStep(w)
    PROVE  TypeInv'
<1> USE DEF TypeInv, TypeOK, Holding, InFlight, vars, broker, workers, history,
            NoOffset, States, InFlightStates
<1>1. CASE Start(w)
  BY <1>1 DEF Start
<1>2. CASE Signal(w)
  BY <1>2 DEF Signal
<1>3. ASSUME Vanish(w), disruptions' \in Nat
      PROVE  TypeInv'
  BY <1>3 DEF Vanish, Release
<1>4. CASE Exit(w)
  BY <1>3, <1>4 DEF Exit
<1>5. CASE Crash(w)
  BY <1>3, <1>5 DEF Crash
<1> QED BY <1>1, <1>2, <1>4, <1>5 DEF ProcessStep

\* So do the steps of the loop.
LEMMA TypeOfLoop ==
    ASSUME TypeInv, NEW w \in Workers, LoopStep(w) \/ HandlerReturns(w)
    PROVE  TypeInv'
<1> USE DEF TypeInv, TypeOK, Holding, InFlight, vars, broker, workers, history,
            NoOffset, States, InFlightStates
<1>1. ASSUME NEW p \in Partitions, Deliver(w, p)
      PROVE  TypeInv'
  <2>1. <<p, position[p]>> \in Messages
    BY DEF Messages
  <2>2. TypeOK'
    BY <1>1, <2>1 DEF Deliver
  <2>3. Holding'
    BY <1>1, <2>1 DEF Deliver
  <2> HIDE DEF TypeOK, Holding
  <2> QED BY <2>2, <2>3
<1>2. CASE FetchCancelled(w)
  BY <1>2 DEF FetchCancelled
<1>3. CASE HandlerSucceeds(w)
  BY <1>3 DEF HandlerSucceeds
<1>4. CASE HandlerFails(w)
  BY <1>4 DEF HandlerFails
<1>5. CASE BackoffElapses(w)
  BY <1>5 DEF BackoffElapses
<1>6. CASE BackoffCancelled(w)
  BY <1>6 DEF BackoffCancelled, NextIteration
<1>7. CASE DeadLetterWritten(w)
  BY <1>7 DEF DeadLetterWritten
<1>8. CASE DeadLetterFails(w)
  BY <1>8 DEF DeadLetterFails, NextIteration
<1>9. CASE CommitSucceeds(w)
  <2>1. current[w][1] \in Partitions /\ current[w][2] + 1 \in Nat
    BY <1>9 DEF CommitSucceeds, Messages
  <2> QED BY <1>9, <2>1 DEF CommitSucceeds, NextIteration
<1>10. CASE CommitFails(w)
  BY <1>10 DEF CommitFails, NextIteration
<1> QED
  BY <1>1, <1>2, <1>3, <1>4, <1>5, <1>6, <1>7, <1>8, <1>9, <1>10
     DEF LoopStep, HandlerReturns

LEMMA TypeOfStep == TypeInv /\ [Next]_vars => TypeInv'
<1> SUFFICES ASSUME TypeInv, [Next]_vars
             PROVE  TypeInv'
  OBVIOUS
<1>1. CASE UNCHANGED vars
  BY <1>1 DEF TypeInv, TypeOK, Holding, InFlight, vars, broker, workers, history
<1> QED BY <1>1, TypeOfGroup, TypeOfProcess, TypeOfLoop DEF Next

LEMMA TypeOfInit == Init => TypeInv
<1> SUFFICES ASSUME Init
             PROVE  TypeInv
  OBVIOUS
<1>1. /\ log \in [Partitions -> Seq(Payloads)]
      /\ committed \in [Partitions -> Nat \cup {NoOffset}]
      /\ owner \in [Partitions -> Workers \cup {NoWorker}]
      /\ position \in [Partitions -> Nat]
  BY DEF Init, NoOffset
<1>2. /\ pc \in [Workers -> States]
      /\ current \in [Workers -> Messages \cup {NoMessage}]
      /\ attempt \in [Workers -> Nat]
      /\ stopping \in [Workers -> BOOLEAN]
  BY DEF Init, States
<1>3. Holding
  BY DEF Init, Holding, InFlight, InFlightStates
<1> QED BY <1>1, <1>2, <1>3 DEF Init, TypeInv, TypeOK

\* Every variable keeps its type, for every value of the constants: the loop never
\* settles or commits anything that is not a message.
THEOREM TypeCorrect == Spec => []TypeOK
<1>1. Init => TypeInv
  BY TypeOfInit
<1>2. TypeInv => TypeOK
  BY DEF TypeInv
<1> QED BY <1>1, <1>2, TypeOfStep, PTL DEF Spec

-----------------------------------------------------------------------------
(* What every step keeps *)

\* The topic is append-only.
LEMMA LogKept ==
    ASSUME TypeInv, [Next]_vars, NEW m \in Messages, Published(m)
    PROVE  Published(m)' /\ Payload(m)' = Payload(m)
<1> USE DEF Published, Payload
<1>1. CASE UNCHANGED log
  BY <1>1
<1>2. ASSUME NEW p \in Partitions, NEW x \in Payloads, Publish(p, x)
      PROVE  Published(m)' /\ Payload(m)' = Payload(m)
  <2>1. m[1] \in Partitions /\ m[2] \in Nat
    BY DEF Messages
  <2>2. log[m[1]] \in Seq(Payloads)
    BY <2>1 DEF TypeInv, TypeOK
  <2>3. CASE m[1] = p
    <3>1. log'[m[1]] = Append(log[m[1]], x)
      BY <1>2, <2>1, <2>3 DEF Publish, TypeInv, TypeOK
    <3> QED BY <2>1, <2>2, <3>1
  <2>4. CASE m[1] # p
    <3>1. log'[m[1]] = log[m[1]]
      BY <1>2, <2>1, <2>4 DEF Publish, TypeInv, TypeOK
    <3> QED BY <3>1
  <2> QED BY <2>3, <2>4
<1>3. (\A p \in Partitions, x \in Payloads : ~Publish(p, x)) => UNCHANGED log
  BY DEF Next, vars, broker, GroupStep, Rebalance, SessionTimeout, ProcessStep,
         Start, Signal, Exit, Crash, Vanish, LoopStep, Deliver, FetchCancelled,
         BackoffElapses, BackoffCancelled, DeadLetterWritten, DeadLetterFails,
         CommitSucceeds, CommitFails, HandlerReturns, HandlerSucceeds, HandlerFails
<1> QED BY <1>1, <1>2, <1>3

\* Nothing is ever taken back from the history.
LEMMA HistoryKept ==
    ASSUME [Next]_vars
    PROVE  /\ handled \subseteq handled'
           /\ deadLettered \subseteq deadLettered'
           /\ abandoned \subseteq abandoned'
           /\ skipped \subseteq skipped'
<1> USE DEF vars, history
<1>1. CASE UNCHANGED vars
  BY <1>1
<1>2. ASSUME NEW p \in Partitions, NEW x \in Payloads, Publish(p, x)
      PROVE  UNCHANGED history
  BY <1>2 DEF Publish
<1>3. CASE GroupStep
  BY <1>3 DEF GroupStep, Rebalance, SessionTimeout
<1>4. ASSUME NEW w \in Workers, ProcessStep(w)
      PROVE  UNCHANGED history
  BY <1>4 DEF ProcessStep, Start, Signal, Exit, Crash, Vanish
<1>5. ASSUME NEW w \in Workers, LoopStep(w) \/ HandlerReturns(w)
      PROVE  /\ handled \subseteq handled'
             /\ deadLettered \subseteq deadLettered'
             /\ abandoned \subseteq abandoned'
             /\ skipped \subseteq skipped'
  BY <1>5 DEF LoopStep, Deliver, FetchCancelled, BackoffElapses, BackoffCancelled,
              DeadLetterWritten, DeadLetterFails, CommitSucceeds, CommitFails,
              HandlerReturns, HandlerSucceeds, HandlerFails
<1> HIDE DEF vars
<1> QED BY <1>1, <1>2, <1>3, <1>4, <1>5 DEF Next

\* So a published message stays settled, and stays accounted for.
LEMMA OutcomeKept ==
    ASSUME TypeInv, [Next]_vars, NEW m \in Messages, Published(m)
    PROVE  /\ Settled(m) => Settled(m)'
           /\ Accounted(m) => Accounted(m)'
BY LogKept, HistoryKept DEF Settled, Accounted

-----------------------------------------------------------------------------
(* What a step keeps that leaves a part of the state alone *)

\* No step but a commit can disturb what the committed offsets vouch for.
LEMMA CommittedKept ==
    ASSUME IInv, [Next]_vars, UNCHANGED committed
    PROVE  NoSilentLoss' /\ CommitFollowsOutcome'
<1>1. TypeInv /\ NoSilentLoss /\ CommitFollowsOutcome
  BY DEF IInv
<1>2. \A p \in Partitions : committed[p] \in Int /\ committed'[p] = committed[p]
  BY <1>1 DEF TypeInv, TypeOK, NoOffset
<1>3. ASSUME NEW p \in Partitions, NEW o \in 0 .. committed[p] - 1
      PROVE  Published(<<p, o>>)' /\ Accounted(<<p, o>>)'
  <2>1. <<p, o>> \in Messages
    BY <1>2 DEF Messages
  <2>2. Published(<<p, o>>) /\ Accounted(<<p, o>>)
    BY <1>1 DEF NoSilentLoss
  <2> QED BY <1>1, <2>1, <2>2, LogKept, OutcomeKept
<1>4. ASSUME NEW p \in Partitions, NEW o \in Int, o = committed[p] - 1,
             committed[p] > 0
      PROVE  Settled(<<p, o>>)'
  <2>1. o \in 0 .. committed[p] - 1 /\ <<p, o>> \in Messages
    BY <1>2, <1>4 DEF Messages
  <2>2. Published(<<p, o>>)
    BY <1>1, <2>1 DEF NoSilentLoss
  <2>3. Settled(<<p, o>>)
    BY <1>1, <1>4 DEF CommitFollowsOutcome
  <2> QED BY <1>1, <2>1, <2>2, <2>3, OutcomeKept
<1>5. NoSilentLoss'
  BY <1>2, <1>3 DEF NoSilentLoss
<1>6. CommitFollowsOutcome'
  BY <1>2, <1>4 DEF CommitFollowsOutcome
<1> QED BY <1>5, <1>6

\* A step that puts no message in a hand keeps the order of work.
LEMMA OrderKept ==
    ASSUME IInv, [Next]_vars,
           \A w \in Workers :
               InFlight(w)' => InFlight(w) /\ current'[w] = current[w]
    PROVE  StartedInOrder'
<1>1. TypeInv
  BY DEF IInv
<1>2. ASSUME NEW w \in Workers, InFlight(w), NEW m \in Messages, m = current[w],
             NEW o \in 0 .. m[2] - 1
      PROVE  Accounted(<<m[1], o>>)'
  <2>1. m[1] \in Partitions /\ m[2] \in Nat /\ Published(m)
    BY <1>2 DEF IInv, InHand, Messages
  <2>2. <<m[1], o>> \in Messages /\ Published(<<m[1], o>>)
    <3>1. Len(log[m[1]]) \in Nat
      BY <1>1, <2>1 DEF TypeInv, TypeOK
    <3> QED BY <2>1, <3>1 DEF Messages, Published
  <2>3. Accounted(<<m[1], o>>)
    BY <1>2 DEF IInv, StartedInOrder
  <2> QED BY <1>1, <2>2, <2>3, OutcomeKept
<1>3. \A w \in Workers : InFlight(w) => current[w] \in Messages
  BY <1>1 DEF TypeInv, Holding
<1> QED BY <1>2, <1>3 DEF StartedInOrder

\* A step that moves no position leaves nothing behind a reader, unless it lets go
\* of a message that is not accounted for.
LEMMA ReadersKept ==
    ASSUME IInv, [Next]_vars, UNCHANGED position,
           \A p \in Partitions : owner'[p] \in {owner[p], NoWorker},
           \A w \in Workers : \A m \in Messages :
               /\ \E p \in Partitions : owner'[p] = w
               /\ InFlight(w)
               /\ current[w] = m
               => (InFlight(w)' /\ current'[w] = m) \/ Accounted(m)'
    PROVE  NothingBehindReader'
<1> SUFFICES ASSUME NEW p \in Partitions, NEW w \in Workers, owner'[p] = w,
                    NEW o \in 0 .. position[p] - 1
             PROVE  \/ Accounted(<<p, o>>)'
                    \/ InFlight(w)' /\ current'[w] = <<p, o>>
  BY DEF NothingBehindReader
<1>1. TypeInv
  BY DEF IInv
<1>2. owner[p] = w
  BY NoWorkerAssumption
<1>3. <<p, o>> \in Messages /\ Published(<<p, o>>)
  <2>1. position[p] \in Nat /\ Len(log[p]) \in Nat /\ position[p] <= Len(log[p])
    BY <1>1 DEF IInv, TypeInv, TypeOK, Positions
  <2> QED BY <2>1 DEF Messages, Published
<1>4. CASE Accounted(<<p, o>>)
  BY <1>1, <1>3, <1>4, OutcomeKept
<1>5. CASE InFlight(w) /\ current[w] = <<p, o>>
  BY <1>3, <1>5
<1> QED BY <1>2, <1>4, <1>5 DEF IInv, NothingBehindReader

\* A worker whose loop does not move keeps what is known of its message.
LEMMA HandKept ==
    ASSUME IInv, [Next]_vars, NEW w \in Workers,
           pc'[w] = pc[w], current'[w] = current[w], attempt'[w] = attempt[w]
    PROVE  InHand(w)'
<1>1. TypeInv /\ InHand(w) /\ (InFlight(w) => current[w] \in Messages)
  BY DEF IInv, TypeInv, Holding
<1>2. CASE InFlight(w)
  <2>1. PICK m \in Messages : m = current[w]
    BY <1>1, <1>2
  <2>2. /\ Published(m)'
        /\ Payload(m)' = Payload(m)
        /\ Settled(m) => Settled(m)'
    BY <1>1, <1>2, <2>1, LogKept, OutcomeKept DEF InHand
  <2>3. current'[w] = m /\ (InFlight(w)' <=> InFlight(w))
    BY <2>1 DEF InFlight
  <2> QED BY <1>1, <2>1, <2>2, <2>3 DEF InHand
<1>3. CASE ~InFlight(w)
  BY <1>1, <1>3 DEF InHand, InFlight, InFlightStates
<1> QED BY <1>2, <1>3

-----------------------------------------------------------------------------
(* The inductive invariant, action by action *)

\* Publish, SessionTimeout and the processes' steps leave the offsets, the
\* positions and the messages in hand alone, or let go of a hand and its
\* partitions together.
LEMMA QuietStep ==
    ASSUME IInv, [Next]_vars, UNCHANGED <<committed, position>>,
           \A p \in Partitions : Len(log[p]) <= Len(log'[p]),
           \A p \in Partitions : owner'[p] \in {owner[p], NoWorker},
           \A w \in Workers :
               \/ /\ pc'[w] = pc[w]
                  /\ current'[w] = current[w]
                  /\ attempt'[w] = attempt[w]
               \/ /\ ~InFlight(w)'
                  /\ attempt'[w] = 0
                  /\ ~InFlight(w) \/ \A p \in Partitions : owner'[p] # w
    PROVE  IInv'
<1>1. TypeInv'
  BY TypeOfStep DEF IInv
<1>2. ASSUME NEW w \in Workers
      PROVE  InHand(w)'
  <2>1. CASE ~InFlight(w)' /\ attempt'[w] = 0
    BY <2>1 DEF InHand, InFlight, InFlightStates
  <2> QED BY <2>1, HandKept
<1>3. Positions'
  <2>1. \A p \in Partitions : /\ position[p] \in Nat
                              /\ Len(log[p]) \in Nat
                              /\ Len(log'[p]) \in Nat
    BY <1>1 DEF IInv, TypeInv, TypeOK
  <2> QED BY <2>1 DEF IInv, Positions
<1>4. StartedInOrder'
  BY OrderKept DEF InFlight
<1>5. NothingBehindReader'
  BY ReadersKept DEF InFlight
<1> QED BY <1>1, <1>2, <1>3, <1>4, <1>5, CommittedKept DEF IInv

LEMMA SafeGroup ==
    ASSUME IInv,
           GroupStep \/ \E p \in Partitions, x \in Payloads : Publish(p, x)
    PROVE  IInv'
<1>1. [Next]_vars /\ TypeInv
  BY DEF Next, IInv
<1>2. ASSUME NEW p \in Partitions, NEW x \in Payloads, Publish(p, x)
      PROVE  IInv'
  <2>1. ASSUME NEW q \in Partitions
        PROVE  Len(log[q]) <= Len(log'[q])
    <3>1. log[q] \in Seq(Payloads)
      BY <1>1 DEF TypeInv, TypeOK
    <3>2. log'[q] = log[q] \/ log'[q] = Append(log[q], x)
      BY <1>1, <1>2 DEF Publish, TypeInv, TypeOK
    <3> QED BY <3>1, <3>2
  <2> QED BY <1>1, <1>2, <2>1, QuietStep DEF Publish, workers
<1>3. CASE SessionTimeout
  <2>1. \A p \in Partitions : Len(log[p]) \in Nat
    BY <1>1 DEF TypeInv, TypeOK
  <2> QED BY <1>1, <1>3, <2>1, QuietStep DEF SessionTimeout, workers
<1>4. CASE Rebalance
  <2>1. TypeInv' /\ UNCHANGED <<log, committed, pc, current, attempt>>
    BY <1>1, <1>4, TypeOfStep DEF Rebalance, workers
  <2>2. \A w \in Workers : InHand(w)'
    BY <1>1, <2>1, HandKept
  <2>3. StartedInOrder'
    BY <1>1, <2>1, OrderKept DEF InFlight
  <2>4. NoSilentLoss' /\ CommitFollowsOutcome'
    BY <1>1, <2>1, CommittedKept
  <2>5. ASSUME NEW p \in Partitions
        PROVE  /\ position'[p] <= Len(log'[p])
               /\ \A o \in 0 .. position'[p] - 1 : Accounted(<<p, o>>)'
    <3>1. position'[p] = StartPosition(p)
      BY <1>4 DEF Rebalance
    <3>2. Len(log[p]) \in Nat /\ committed[p] \in Nat \cup {NoOffset}
      BY <1>1 DEF TypeInv, TypeOK
    <3>3. CASE committed[p] = NoOffset
      <4>1. position'[p] = Len(log[p])
        BY <3>1, <3>3 DEF StartPosition
      <4>2. {p} \X (0 .. Len(log[p]) - 1) \subseteq skipped'
        BY <1>4, <3>3 DEF Rebalance, PassedOver
      <4> QED BY <2>1, <3>2, <4>1, <4>2 DEF Accounted
    <3>4. CASE committed[p] # NoOffset
      <4>1. position'[p] = committed[p] /\ committed[p] \in Nat
        BY <3>1, <3>2, <3>4 DEF StartPosition
      <4>2. committed[p] <= Len(log[p])
        <5>1. CASE committed[p] = 0
          BY <3>2, <5>1
        <5>2. CASE committed[p] > 0
          <6>1. committed[p] - 1 \in 0 .. committed[p] - 1
            BY <4>1, <5>2
          <6>2. Published(<<p, committed[p] - 1>>)
            BY <6>1 DEF IInv, NoSilentLoss
          <6> QED BY <3>2, <4>1, <6>2 DEF Published
        <5> QED BY <4>1, <5>1, <5>2
      <4> QED BY <2>1, <2>4, <4>1, <4>2 DEF NoSilentLoss
    <3> QED BY <3>3, <3>4
  <2>6. Positions' /\ NothingBehindReader'
    BY <2>5 DEF Positions, NothingBehindReader
  <2> QED BY <2>1, <2>2, <2>3, <2>4, <2>6 DEF IInv
<1> QED BY <1>2, <1>3, <1>4 DEF GroupStep

LEMMA SafeProcess ==
    ASSUME IInv, NEW w \in Workers, ProcessStep(w)
    PROVE  IInv'
<1>1. [Next]_vars /\ TypeInv
  BY DEF Next, IInv
<1>2. /\ \A p \in Partitions : Len(log[p]) \in Nat
      /\ ~InFlight(w) => attempt[w] = 0
  BY <1>1 DEF TypeInv, TypeOK, IInv, InHand
<1> USE DEF TypeInv, TypeOK, InFlight, InFlightStates
<1>3. CASE Start(w)
  BY <1>1, <1>2, <1>3, QuietStep DEF Start
<1>4. CASE Signal(w)
  BY <1>1, <1>2, <1>4, QuietStep DEF Signal, broker
<1>5. CASE Vanish(w)
  BY <1>1, <1>2, <1>5, QuietStep, NoWorkerAssumption DEF Vanish, Release
<1> QED BY <1>3, <1>4, <1>5 DEF ProcessStep, Exit, Crash

\* The loop takes a message in hand.
LEMMA SafeDeliver ==
    ASSUME IInv, NEW w \in Workers, NEW p \in Partitions, Deliver(w, p),
           MaxRetries \in Nat
    PROVE  IInv'
<1>1. [Next]_vars /\ TypeInv /\ TypeInv'
  BY TypeOfStep DEF Next, LoopStep, IInv
<1>2. PICK m \in Messages : m = <<p, position[p]>>
  BY <1>1 DEF TypeInv, TypeOK, Messages
<1>3. m[1] = p /\ m[2] = position[p]
  BY <1>2
<1>4. /\ current' = [current EXCEPT ![w] = m]
      /\ position' = [position EXCEPT ![p] = @ + 1]
      /\ pc' = [pc EXCEPT ![w] = IF Payload(m) \in Jobs THEN "handle" ELSE "commit"]
      /\ ~InFlight(w) /\ attempt[w] = 0 /\ InFlight(w)'
      /\ UNCHANGED <<log, committed, owner, attempt, history>>
      /\ owner[p] = w
      /\ Published(m)
  <2>1. ~InFlight(w)
    BY DEF Deliver, InFlight, InFlightStates
  <2>2. attempt[w] = 0
    BY <2>1 DEF IInv, InHand
  <2>3. Published(m)
    BY <1>3 DEF Published, Deliver
  <2>4. InFlight(w)'
    BY <1>1 DEF Deliver, TypeInv, TypeOK, InFlight, InFlightStates
  <2> QED BY <1>2, <2>1, <2>2, <2>3, <2>4 DEF Deliver
<1>5. ASSUME NEW v \in Workers, v # w
      PROVE  pc'[v] = pc[v] /\ current'[v] = current[v] /\ attempt'[v] = attempt[v]
  BY <1>1, <1>4, <1>5 DEF TypeInv, TypeOK
<1>6. current'[w] = m /\ pc'[w] = (IF Payload(m) \in Jobs THEN "handle" ELSE "commit")
  BY <1>1, <1>4 DEF TypeInv, TypeOK
<1>7. \A q \in Partitions : /\ position[q] \in Nat
                            /\ position'[q] = IF q = p THEN position[q] + 1 ELSE position[q]
  BY <1>1, <1>4 DEF TypeInv, TypeOK
<1>8. \A o \in 0 .. position[p] - 1 : Accounted(<<p, o>>)
  BY <1>4 DEF IInv, NothingBehindReader
<1>9. ASSUME NEW v \in Workers
      PROVE  InHand(v)'
  <2>1. CASE v = w
    <3>1. Payload(m) \in Jobs \/ Payload(m) \in Malformed
      <4>1. log[m[1]] \in Seq(Payloads) /\ m[2] \in Nat /\ m[2] + 1 \in 1 .. Len(log[m[1]])
        BY <1>1, <1>4 DEF TypeInv, TypeOK, Messages, Published
      <4> QED BY <4>1 DEF Payload, Payloads
    <3>2. Payload(m)' = Payload(m) /\ Published(m)'
      BY <1>4 DEF Payload, Published
    <3>3. Payload(m) \notin Jobs => Settled(m)'
      BY <3>1, <3>2 DEF Settled
    <3>4. /\ Published(current[w])'
          /\ Payload(current[w])' = Payload(m)
          /\ Payload(m) \notin Jobs => Settled(current[w])'
      BY <1>6, <3>2, <3>3
    <3> QED BY <1>4, <1>6, <2>1, <3>4 DEF InHand
  <2>2. CASE v # w
    BY <1>1, <1>5, <2>2, HandKept
  <2> QED BY <2>1, <2>2
<1>10. Positions'
  <2>1. position[p] < Len(log[p]) /\ \A q \in Partitions : Len(log[q]) \in Nat
    BY <1>1 DEF Deliver, TypeInv, TypeOK
  <2> QED BY <1>4, <1>7, <2>1 DEF IInv, Positions
<1>11. \A n \in Messages : Accounted(n) => Accounted(n)'
  BY <1>4 DEF Accounted, Settled, Payload, history
<1>12. StartedInOrder'
  <2> SUFFICES ASSUME NEW v \in Workers, InFlight(v)', NEW n \in Messages,
                      n = current'[v], NEW o \in 0 .. n[2] - 1
               PROVE  Accounted(<<n[1], o>>)'
    BY <1>1 DEF StartedInOrder, TypeInv, Holding
  <2>1. <<n[1], o>> \in Messages
    BY DEF Messages
  <2>2. CASE v = w
    BY <1>3, <1>6, <1>8, <1>11, <2>1, <2>2
  <2>3. CASE v # w
    <3>1. InFlight(v) /\ current[v] = n
      BY <1>5, <2>3 DEF InFlight
    <3> QED BY <1>11, <2>1, <3>1 DEF IInv, StartedInOrder
  <2> QED BY <2>2, <2>3
<1>13. NothingBehindReader'
  <2> SUFFICES ASSUME NEW q \in Partitions, NEW v \in Workers, owner[q] = v,
                      NEW o \in 0 .. position'[q] - 1
               PROVE  Accounted(<<q, o>>)' \/ (InFlight(v)' /\ current'[v] = <<q, o>>)
    BY <1>4 DEF NothingBehindReader
  <2>1. <<q, o>> \in Messages
    BY <1>7 DEF Messages
  <2>2. CASE q = p /\ o = position[p]
    BY <1>2, <1>4, <1>6, <2>2
  <2>3. CASE ~(q = p /\ o = position[p])
    <3>1. o \in 0 .. position[q] - 1
      BY <1>7, <2>3
    <3>2. Accounted(<<q, o>>) \/ (InFlight(v) /\ current[v] = <<q, o>>)
      BY <3>1 DEF IInv, NothingBehindReader
    <3>3. CASE v = w
      BY <1>4, <1>11, <2>1, <3>2, <3>3
    <3>4. CASE v # w
      BY <1>5, <1>11, <2>1, <3>2, <3>4 DEF InFlight
    <3> QED BY <3>3, <3>4
  <2> QED BY <2>2, <2>3
<1> QED
  BY <1>1, <1>4, <1>9, <1>10, <1>12, <1>13, CommittedKept DEF IInv

\* The message stays in the hand of w; only the state of its loop changes.
LEMMA SafeInHand ==
    ASSUME IInv, NEW w \in Workers,
           \/ HandlerReturns(w)
           \/ BackoffElapses(w)
           \/ DeadLetterWritten(w)
    PROVE  IInv'
<1>1. [Next]_vars /\ TypeInv /\ TypeInv'
  BY TypeOfStep DEF Next, LoopStep, IInv
<1>2. /\ UNCHANGED <<log, committed, position, owner, current>>
      /\ InFlight(w) /\ InFlight(w)'
      /\ \A v \in Workers : v # w => pc'[v] = pc[v] /\ attempt'[v] = attempt[v]
  BY <1>1 DEF HandlerReturns, HandlerSucceeds, HandlerFails, BackoffElapses,
              DeadLetterWritten, broker, InFlight, InFlightStates, TypeInv, TypeOK
<1>3. PICK m \in Messages : m = current[w]
  BY <1>1, <1>2 DEF TypeInv, Holding
<1>4. InHand(w)'
  <2>1. /\ current'[w] = m
        /\ Published(m)'
        /\ Payload(m)' = Payload(m)
    BY <1>2, <1>3 DEF IInv, InHand, Published, Payload
  <2>2. /\ MaxRetries \in Int
        /\ attempt[w] \in Nat
        /\ InHand(w)
    BY <1>1, RetriesAssumption DEF IInv, TypeInv, TypeOK
  <2> USE DEF InHand, InFlight, InFlightStates, TypeInv, TypeOK
  <2>3. CASE HandlerSucceeds(w)
    <3>1. pc'[w] = "commit" /\ m \in handled'
      BY <1>1, <1>3, <2>3 DEF HandlerSucceeds
    <3> QED BY <2>1, <3>1 DEF Settled
  <2>4. CASE HandlerFails(w)
    <3>1. /\ pc'[w] = IF attempt[w] < MaxRetries THEN "backoff" ELSE "deadletter"
          /\ attempt'[w] = attempt[w]
          /\ attempt[w] <= MaxRetries
          /\ Payload(m) \in Jobs
      BY <1>1, <1>3, <2>2, <2>4 DEF HandlerFails
    <3> QED BY <2>1, <2>2, <3>1
  <2>5. CASE BackoffElapses(w)
    <3>1. /\ pc'[w] = "handle"
          /\ attempt'[w] = attempt[w] + 1
          /\ attempt[w] < MaxRetries
          /\ Payload(m) \in Jobs
      BY <1>1, <1>3, <2>2, <2>5 DEF BackoffElapses
    <3> QED BY <2>1, <2>2, <3>1
  <2>6. CASE DeadLetterWritten(w)
    <3>1. pc'[w] = "commit" /\ m \in deadLettered'
      BY <1>1, <1>3, <2>6 DEF DeadLetterWritten
    <3> QED BY <2>1, <3>1 DEF Settled
  <2> QED BY <2>3, <2>4, <2>5, <2>6 DEF HandlerReturns
<1>5. \A v \in Workers : InHand(v)'
  BY <1>1, <1>2, <1>4, HandKept
<1>6. Positions'
  BY <1>2 DEF IInv, Positions
<1>7. StartedInOrder'
  BY <1>1, <1>2, OrderKept DEF InFlight
<1>8. NothingBehindReader'
  BY <1>1, <1>2, ReadersKept DEF InFlight
<1> QED BY <1>1, <1>2, <1>5, <1>6, <1>7, <1>8, CommittedKept DEF IInv

\* The loop lets go of its message and begins the next iteration.
LEMMA SafeEndOfIteration ==
    ASSUME IInv, NEW w \in Workers,
           \/ FetchCancelled(w)
           \/ BackoffCancelled(w)
           \/ DeadLetterFails(w)
           \/ CommitSucceeds(w)
           \/ CommitFails(w)
    PROVE  IInv'
<1>1. [Next]_vars /\ TypeInv /\ TypeInv'
  BY TypeOfStep DEF Next, LoopStep, IInv
<1>2. /\ UNCHANGED <<log, position, owner>>
      /\ ~InFlight(w)'
      /\ attempt'[w] = 0
      /\ \A v \in Workers : v # w => /\ pc'[v] = pc[v]
                                     /\ current'[v] = current[v]
                                     /\ attempt'[v] = attempt[v]
  <2>1. pc[w] = "fetch" => attempt[w] = 0
    BY DEF IInv, InHand, InFlight, InFlightStates
  <2> QED BY <1>1, <2>1 DEF FetchCancelled, BackoffCancelled, DeadLetterFails,
             CommitSucceeds, CommitFails, NextIteration, broker, InFlight,
             InFlightStates, TypeInv, TypeOK
<1>3. \A v \in Workers : InHand(v)'
  <2>1. InHand(w)'
    BY <1>2 DEF InHand, InFlight, InFlightStates
  <2> QED BY <1>1, <1>2, <2>1, HandKept
<1>4. Positions'
  BY <1>2 DEF IInv, Positions
<1>5. StartedInOrder'
  BY <1>1, <1>2, OrderKept DEF InFlight
<1>6. NothingBehindReader'
  <2>1. ASSUME NEW m \in Messages, InFlight(w), current[w] = m
        PROVE  Accounted(m)'
    <3>1. CASE BackoffCancelled(w) \/ DeadLetterFails(w)
      BY <2>1, <3>1 DEF BackoffCancelled, DeadLetterFails, Accounted
    <3>2. CASE CommitSucceeds(w) \/ CommitFails(w)
      <4>1. Settled(m) /\ Published(m)
        BY <2>1, <3>2 DEF CommitSucceeds, CommitFails, IInv, InHand
      <4> QED BY <1>1, <4>1, OutcomeKept DEF Accounted
    <3>3. CASE FetchCancelled(w)
      BY <2>1, <3>3 DEF FetchCancelled, InFlight, InFlightStates
    <3> QED BY <3>1, <3>2, <3>3
  <2> QED BY <1>1, <1>2, <2>1, ReadersKept DEF InFlight
<1>7. NoSilentLoss' /\ CommitFollowsOutcome'
  <2>1. CASE CommitSucceeds(w)
    <3>1. PICK m \in Messages : m = current[w]
      BY <1>1, <2>1 DEF CommitSucceeds, TypeInv, Holding, InFlight, InFlightStates
    <3>2. m[1] \in Partitions /\ m[2] \in Nat /\ m = <<m[1], m[2]>>
      BY DEF Messages
    <3>3. /\ \A p \in Partitions : committed'[p] =
                 IF p = m[1] THEN m[2] + 1 ELSE committed[p]
          /\ \A p \in Partitions : committed[p] \in Int
      BY <1>1, <2>1, <3>1 DEF CommitSucceeds, TypeInv, TypeOK, NoOffset
    <3>4. /\ Settled(m)
          /\ Published(m)
          /\ \A o \in 0 .. m[2] - 1 : Accounted(<<m[1], o>>)
      BY <2>1, <3>1 DEF CommitSucceeds, IInv, InHand, StartedInOrder, InFlight,
                        InFlightStates
    <3>5. ASSUME NEW n \in Messages
          PROVE  /\ Published(n) => Published(n)'
                 /\ Settled(n) => Settled(n)'
                 /\ Accounted(n) => Accounted(n)'
      BY <1>2, <2>1 DEF CommitSucceeds, history, Published, Settled, Accounted,
                        Payload
    <3>6. NoSilentLoss'
      <4> SUFFICES ASSUME NEW p \in Partitions, NEW o \in 0 .. committed'[p] - 1
                   PROVE  Published(<<p, o>>)' /\ Accounted(<<p, o>>)'
        BY DEF NoSilentLoss
      <4>1. <<p, o>> \in Messages
        BY <3>2, <3>3 DEF Messages
      <4>2. Published(<<p, o>>) /\ Accounted(<<p, o>>)
        <5>1. CASE p # m[1]
          BY <3>3, <5>1 DEF IInv, NoSilentLoss
        <5>2. CASE p = m[1] /\ o = m[2]
          BY <3>2, <3>4, <5>2 DEF Accounted
        <5>3. CASE p = m[1] /\ o # m[2]
          <6>1. o \in 0 .. m[2] - 1
            BY <3>2, <3>3, <5>3
          <6>2. Len(log[p]) \in Nat
            BY <1>1 DEF TypeInv, TypeOK
          <6> QED BY <3>2, <3>4, <5>3, <6>1, <6>2 DEF Published
        <5> QED BY <5>1, <5>2, <5>3
      <4> QED BY <3>5, <4>1, <4>2
    <3>7. CommitFollowsOutcome'
      <4> SUFFICES ASSUME NEW p \in Partitions, committed'[p] > 0,
                          NEW o \in Int, o = committed'[p] - 1
                   PROVE  Settled(<<p, o>>)'
        BY <3>2, <3>3 DEF CommitFollowsOutcome
      <4>1. <<p, o>> \in Messages
        BY <3>2, <3>3 DEF Messages
      <4>2. Settled(<<p, o>>)
        <5>1. CASE p # m[1]
          BY <3>3, <5>1 DEF IInv, CommitFollowsOutcome
        <5>2. CASE p = m[1]
          <6>1. o = m[2]
            BY <3>2, <3>3, <5>2
          <6> QED BY <3>2, <3>4, <5>2, <6>1
        <5> QED BY <5>1, <5>2
      <4> QED BY <3>5, <4>1, <4>2
    <3> QED BY <3>6, <3>7
  <2>2. CASE ~CommitSucceeds(w)
    <3>1. UNCHANGED committed
      BY <2>2 DEF FetchCancelled, BackoffCancelled, DeadLetterFails, CommitFails,
                  broker
    <3> QED BY <1>1, <3>1, CommittedKept
  <2> QED BY <2>1, <2>2
<1> QED BY <1>1, <1>3, <1>4, <1>5, <1>6, <1>7 DEF IInv

LEMMA SafeStep ==
    ASSUME MaxRetries \in Nat
    PROVE  IInv /\ [Next]_vars => IInv'
<1> SUFFICES ASSUME IInv, [Next]_vars
             PROVE  IInv'
  OBVIOUS
<1>1. CASE UNCHANGED vars
  <2>1. \A p \in Partitions : Len(log[p]) \in Nat
    BY DEF IInv, TypeInv, TypeOK
  <2> QED BY <1>1, <2>1, QuietStep DEF vars, broker, workers
<1>2. CASE Next
  BY <1>2, SafeGroup, SafeProcess, SafeDeliver, SafeInHand, SafeEndOfIteration
     DEF Next, LoopStep
<1> QED BY <1>1, <1>2

LEMMA SafeInit == Init => IInv
<1> SUFFICES ASSUME Init
             PROVE  IInv
  OBVIOUS
<1>1. TypeInv
  BY TypeOfInit
<1>2. \A w \in Workers : ~InFlight(w)
  BY DEF Init, InFlight, InFlightStates
<1>3. \A w \in Workers : InHand(w)
  BY <1>2 DEF Init, InHand, InFlight, InFlightStates
<1>4. Positions /\ NothingBehindReader /\ StartedInOrder
  BY <1>2, NoWorkerAssumption
     DEF Init, Positions, NothingBehindReader, StartedInOrder
<1>5. NoSilentLoss /\ CommitFollowsOutcome
  BY DEF Init, NoSilentLoss, CommitFollowsOutcome, NoOffset
<1> QED BY <1>1, <1>3, <1>4, <1>5 DEF IInv

-----------------------------------------------------------------------------
(* The theorems *)

LEMMA Inductive ==
    ASSUME MaxRetries \in Nat
    PROVE  Spec => []IInv
BY SafeInit, SafeStep, PTL DEF Spec

\* With MaxRetries >= 0 no offset is ever committed over a message that nothing
\* accounts for, whatever the processes, the group and Kafka do.
THEOREM NothingSilentlyLost ==
    ASSUME MaxRetries \in Nat
    PROVE  Spec => []NoSilentLoss
<1>1. IInv => NoSilentLoss
  BY DEF IInv
<1> QED BY <1>1, Inductive, PTL

\* With MaxRetries >= 0 an offset is committed for a settled message only.
THEOREM CommitsFollowOutcomes ==
    ASSUME MaxRetries \in Nat
    PROVE  Spec => []CommitFollowsOutcome
<1>1. IInv => CommitFollowsOutcome
  BY DEF IInv
<1> QED BY <1>1, Inductive, PTL

\* With MaxRetries >= 0 every partition is worked on in order.
THEOREM WorkIsInOrder ==
    ASSUME MaxRetries \in Nat
    PROVE  Spec => []StartedInOrder
<1>1. IInv => StartedInOrder
  BY DEF IInv
<1> QED BY <1>1, Inductive, PTL

\* With MaxRetries >= 0 a reader leaves nothing behind, wherever a rebalance put it.
THEOREM NothingLeftBehind ==
    ASSUME MaxRetries \in Nat
    PROVE  Spec => []NothingBehindReader
<1>1. IInv => NothingBehindReader
  BY DEF IInv
<1> QED BY <1>1, Inductive, PTL

\* With MaxRetries >= 0 a message goes to the dead letter topic only right after
\* its last attempt.
THEOREM LettersAreExhausted ==
    ASSUME MaxRetries \in Nat
    PROVE  Spec => DeadLettersAreExhausted
<1>1. ASSUME IInv, [Next]_vars, NEW m \in deadLettered' \ deadLettered
      PROVE  /\ Payload(m) \in Jobs
             /\ \E w \in Workers : current[w] = m /\ attempt[w] = MaxRetries
  <2>1. PICK w \in Workers : DeadLetterWritten(w) \/ DeadLetterFails(w)
    BY <1>1 DEF Next, vars, history, Publish, GroupStep, Rebalance, SessionTimeout,
         ProcessStep, Start, Signal, Exit, Crash, Vanish, LoopStep, Deliver,
         FetchCancelled, BackoffElapses, BackoffCancelled, CommitSucceeds,
         CommitFails, HandlerReturns, HandlerSucceeds, HandlerFails
  <2>2. m = current[w] /\ pc[w] = "deadletter"
    BY <1>1, <2>1 DEF DeadLetterWritten, DeadLetterFails
  <2> QED BY <1>1, <2>1, <2>2 DEF IInv, InHand
<1>2. IInv /\ [Next]_vars =>
          [\A m \in deadLettered' \ deadLettered :
              /\ Payload(m) \in Jobs
              /\ \E w \in Workers : current[w] = m /\ attempt[w] = MaxRetries]_vars
  BY <1>1
<1> QED BY <1>2, Inductive, PTL DEF Spec, DeadLettersAreExhausted

-----------------------------------------------------------------------------
(* At-least-once delivery *)

\* The values of the abstract variables.
Accepted    == {m \in PublishedMessages : Settled(m)}
LetGo       == abandoned \cup skipped
CommittedOf == [p \in Partitions |-> IF committed[p] = NoOffset THEN 0 ELSE committed[p]]

\* The places of the messages in logs L.
LEMMA Places ==
    ASSUME NEW L, \A p \in Partitions : Len(L[p]) \in Nat, NEW m
    PROVE  m \in UNION {{p} \X (0 .. Len(L[p]) - 1) : p \in Partitions}
               <=> m \in Messages /\ m[2] < Len(L[m[1]])
<1>1. ASSUME NEW p \in Partitions, m \in {p} \X (0 .. Len(L[p]) - 1)
      PROVE  m \in Messages /\ m[2] < Len(L[m[1]])
  BY <1>1 DEF Messages
<1>2. ASSUME m \in Messages, m[2] < Len(L[m[1]])
      PROVE  m[1] \in Partitions /\ m \in {m[1]} \X (0 .. Len(L[m[1]]) - 1)
  BY <1>2 DEF Messages
<1> QED BY <1>1, <1>2

\* The published messages, before and after a step.
LEMMA PublishedIs ==
    ASSUME TypeInv, [Next]_vars, NEW m
    PROVE  /\ m \in PublishedMessages <=> m \in Messages /\ Published(m)
           /\ m \in PublishedMessages' <=> m \in Messages /\ Published(m)'
<1>1. TypeInv'
  BY TypeOfStep
<1>2. \A p \in Partitions : Len(log[p]) \in Nat
  BY DEF TypeInv, TypeOK
<1>3. \A p \in Partitions : Len(log'[p]) \in Nat
  BY <1>1 DEF TypeInv, TypeOK
<1> QED BY <1>2, <1>3, Places DEF PublishedMessages, Published

\* What is accepted stays so.
LEMMA AcceptedKept ==
    ASSUME TypeInv, [Next]_vars
    PROVE  /\ PublishedMessages \subseteq PublishedMessages'
           /\ Accepted \subseteq Accepted'
<1>1. ASSUME NEW m \in PublishedMessages
      PROVE  m \in PublishedMessages' /\ (Settled(m) => Settled(m)')
  <2>1. m \in Messages /\ Published(m)
    BY <1>1, PublishedIs
  <2>2. Published(m)' /\ (Settled(m) => Settled(m)')
    BY <2>1, LogKept, OutcomeKept
  <2> QED BY <2>1, <2>2, PublishedIs
<1> QED BY <1>1 DEF Accepted

-----------------------------------------------------------------------------
(* The steps of AtLeastOnce *)

\* A message is published: nothing else is done with by that.
LEMMA PublishDelivers ==
    ASSUME TypeInv, NEW p \in Partitions, NEW x \in Payloads, Publish(p, x)
    PROVE  Delivery!Publish(p)
<1>1. [Next]_vars
  BY DEF Next
<1>2. /\ log \in [Partitions -> Seq(Payloads)]
      /\ log' = [log EXCEPT ![p] = Append(@, x)]
      /\ UNCHANGED <<committed, handled, deadLettered, abandoned, skipped>>
  BY DEF Publish, TypeInv, TypeOK, history
<1>3. Len(log[p]) \in Nat /\ Len(log'[p]) = Len(log[p]) + 1
  BY <1>2
<1>4. [q \in Partitions |-> Len(log'[q])] =
          [[q \in Partitions |-> Len(log[q])] EXCEPT ![p] = @ + 1]
  BY <1>2, <1>3
<1>5. ASSUME NEW m \in Accepted', m \notin Accepted
      PROVE  m = <<p, Len(log[p])>>
  <2>1. m \in Messages /\ Published(m)' /\ Settled(m)'
    BY <1>1, <1>5, PublishedIs DEF Accepted
  <2>2. Published(m) => Payload(m)' = Payload(m)
    BY <1>1, <2>1, LogKept
  <2>3. ~Published(m)
    BY <1>1, <1>2, <1>5, <2>1, <2>2, PublishedIs DEF Accepted, Settled
  <2>4. m[1] = p
    BY <1>2, <2>1, <2>3 DEF Published, Messages
  <2>5. m[2] = Len(log[p])
    BY <1>3, <2>1, <2>3, <2>4 DEF Published, Messages
  <2> QED BY <2>1, <2>4, <2>5 DEF Messages
<1>6. Accepted' \in {Accepted, Accepted \cup {<<p, Len(log[p])>>}}
  BY <1>1, <1>5, AcceptedKept
<1> QED BY <1>2, <1>3, <1>4, <1>6 DEF Delivery!Publish, Accepted

\* An offset is committed: its message is settled, and all before it are accounted
\* for.
LEMMA CommitDelivers ==
    ASSUME IInv, NEW w \in Workers, CommitSucceeds(w)
    PROVE  \E p \in Partitions : Delivery!Commit(p)
<1>1. [Next]_vars /\ TypeInv
  BY DEF Next, LoopStep, IInv
<1>2. PICK p \in Partitions, k \in Nat : current[w] = <<p, k>>
  BY <1>1 DEF CommitSucceeds, TypeInv, Holding, InFlight, InFlightStates, Messages
<1>3. /\ <<p, k>> \in Messages
      /\ Published(<<p, k>>) /\ Settled(<<p, k>>)
      /\ \A o \in 0 .. k - 1 : Accounted(<<p, o>>)
  BY <1>2 DEF CommitSucceeds, IInv, InHand, StartedInOrder, InFlight, InFlightStates,
              Messages
<1>4. /\ Len(log[p]) \in Nat
      /\ committed \in [Partitions -> Nat \cup {NoOffset}]
  BY <1>1 DEF TypeInv, TypeOK
<1>5. /\ committed' = [committed EXCEPT ![p] = k + 1]
      /\ UNCHANGED <<log, handled, deadLettered, abandoned, skipped>>
  BY <1>2 DEF CommitSucceeds, history
<1>6. k + 1 \in 1 .. Len(log[p])
  BY <1>3, <1>4 DEF Published
<1>7. ASSUME NEW o \in 0 .. k
      PROVE  <<p, o>> \in PublishedMessages /\ <<p, o>> \in Accepted \cup LetGo
  <2>1. <<p, o>> \in Messages /\ Published(<<p, o>>)
    BY <1>4, <1>6 DEF Published, Messages
  <2>2. <<p, o>> \in PublishedMessages
    BY <1>1, <2>1, PublishedIs
  <2>3. Accounted(<<p, o>>)
    <3>1. o = k \/ o \in 0 .. k - 1
      OBVIOUS
    <3> QED BY <1>3, <3>1 DEF Accounted
  <2> QED BY <2>2, <2>3 DEF Accepted, LetGo, Accounted
<1>8. /\ <<p, (k + 1) - 1>> \in Accepted
      /\ {p} \X (0 .. (k + 1) - 1) \subseteq Accepted \cup LetGo
  <2>1. (k + 1) - 1 = k /\ k \in 0 .. k
    OBVIOUS
  <2>2. <<p, k>> \in Accepted
    BY <1>3, <1>7, <2>1 DEF Accepted
  <2>3. {p} \X (0 .. k) \subseteq Accepted \cup LetGo
    BY <1>7
  <2> QED BY <2>1, <2>2, <2>3
<1>9. CommittedOf' = [CommittedOf EXCEPT ![p] = k + 1]
  <2>1. \A q \in Partitions : committed'[q] = IF q = p THEN k + 1 ELSE committed[q]
    BY <1>4, <1>5
  <2>2. k + 1 # NoOffset
    BY DEF NoOffset
  <2> QED BY <2>1, <2>2 DEF CommittedOf
<1>10. UNCHANGED <<PublishedMessages, Accepted, LetGo>>
  BY <1>5 DEF Accepted, LetGo, PublishedMessages, Settled, Payload
<1>11. Delivery!Commit(p)
  <2>1. [q \in Partitions |-> Len(log[q])][p] = Len(log[p])
    OBVIOUS
  <2> QED BY <1>5, <1>6, <1>8, <1>9, <1>10, <2>1
             DEF Delivery!Commit, Accepted, LetGo, CommittedOf
<1> QED BY <1>11

\* Every other step is done with some published messages, or with none.
LEMMA OtherFinishes ==
    ASSUME IInv, [Next]_vars, UNCHANGED <<log, committed>>
    PROVE  Delivery!Finish
<1>1. TypeInv
  BY DEF IInv
<1>2. Accepted \subseteq Accepted'
  BY <1>1, AcceptedKept
<1>3. LetGo \subseteq LetGo'
  BY HistoryKept DEF LetGo
<1>4. PublishedMessages' = PublishedMessages
  BY DEF PublishedMessages
<1>5. Accepted' \subseteq PublishedMessages
  BY <1>4 DEF Accepted
<1>6. abandoned' \ abandoned \subseteq PublishedMessages
  <2> SUFFICES ASSUME NEW m \in abandoned' \ abandoned
               PROVE  m \in PublishedMessages
    OBVIOUS
  <2>1. PICK w \in Workers : BackoffCancelled(w) \/ DeadLetterFails(w)
    BY DEF Next, vars, history, Publish, GroupStep, Rebalance, SessionTimeout,
         ProcessStep, Start, Signal, Exit, Crash, Vanish, LoopStep, Deliver,
         FetchCancelled, BackoffElapses, DeadLetterWritten, CommitSucceeds,
         CommitFails, HandlerReturns, HandlerSucceeds, HandlerFails
  <2>2. m = current[w] /\ InFlight(w)
    BY <2>1 DEF BackoffCancelled, DeadLetterFails, InFlight, InFlightStates
  <2>3. m \in Messages /\ Published(m)
    BY <1>1, <2>2 DEF IInv, TypeInv, Holding, InHand
  <2> QED BY <1>1, <2>3, PublishedIs
<1>7. skipped' \ skipped \subseteq PublishedMessages
  <2>1. CASE Rebalance
    BY <2>1 DEF Rebalance, PassedOver, PublishedMessages
  <2>2. CASE ~Rebalance
    <3>1. UNCHANGED skipped
      BY <2>2 DEF Next, vars, history, Publish, GroupStep, SessionTimeout,
         ProcessStep, Start, Signal, Exit, Crash, Vanish, LoopStep, Deliver,
         FetchCancelled, BackoffElapses, BackoffCancelled, DeadLetterWritten,
         DeadLetterFails, CommitSucceeds, CommitFails, HandlerReturns,
         HandlerSucceeds, HandlerFails
    <3> QED BY <3>1
  <2> QED BY <2>1, <2>2
<1>8. LetGo' \ LetGo \subseteq PublishedMessages
  BY <1>6, <1>7 DEF LetGo
<1>9. Delivery!Messages = PublishedMessages
  BY DEF Delivery!Messages, PublishedMessages
<1> QED BY <1>2, <1>3, <1>5, <1>8, <1>9
           DEF Delivery!Finish, Accepted, LetGo

LEMMA InitDelivers == Init => Delivery!Init
<1> SUFFICES ASSUME Init
             PROVE  Delivery!Init
  OBVIOUS
<1>1. PublishedMessages = {}
  BY DEF Init, PublishedMessages
<1> QED BY <1>1 DEF Init, Delivery!Init, NoOffset

LEMMA StepDelivers ==
    ASSUME IInv, [Next]_vars
    PROVE  [Delivery!Next]_(Delivery!vars)
<1>1. CASE \E p \in Partitions, x \in Payloads : Publish(p, x)
  BY <1>1, PublishDelivers DEF Delivery!Next, IInv
<1>2. CASE \E w \in Workers : CommitSucceeds(w)
  BY <1>2, CommitDelivers DEF Delivery!Next
<1>3. CASE /\ ~\E p \in Partitions, x \in Payloads : Publish(p, x)
           /\ ~\E w \in Workers : CommitSucceeds(w)
  <2>1. UNCHANGED <<log, committed>>
    BY <1>3 DEF Next, vars, broker, GroupStep, Rebalance, SessionTimeout,
         ProcessStep, Start, Signal, Exit, Crash, Vanish, LoopStep, Deliver,
         FetchCancelled, BackoffElapses, BackoffCancelled, DeadLetterWritten,
         DeadLetterFails, CommitFails, HandlerReturns, HandlerSucceeds, HandlerFails
  <2> QED BY <2>1, OtherFinishes DEF Delivery!Next
<1> QED BY <1>1, <1>2, <1>3

\* With MaxRetries >= 0 the consume loop implements at-least-once delivery, for any
\* number of workers, partitions, messages and disruptions.
THEOREM ImplementsAtLeastOnce ==
    ASSUME MaxRetries \in Nat
    PROVE  Spec => DeliversAtLeastOnce
BY Inductive, InitDelivers, StepDelivers, PTL
   DEF Spec, DeliversAtLeastOnce, Delivery!Spec
=============================================================================
