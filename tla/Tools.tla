-------------------------------- MODULE Tools --------------------------------
(***************************************************************************)
(* What stands around the core and shares no state, side by side: the two   *)
(* commands of the agent bridge, one outreach draft, and the algorithms that *)
(* are run on the draft of a map.                                           *)
(***************************************************************************)
EXTENDS Outreach

CONSTANTS Terminals, Actor, Oversized, MaxVersion, MaxHead, MaxFaults,  \* AgentBridge
          Reports, Sendable, MaxMailFaults,                             \* FeedbackOutbox
          Works, NoRef, Body, MapKinds, MaxEdges                        \* MapAlgorithms

VARIABLES claimed, mapHead, contexts, run, saved, faults,       \* AgentBridge
          outbox, captured, receipt, sending, mailFaults,       \* FeedbackOutbox
          graph, op, stage, changed, task, selected, rounds, path, complete  \* MapAlgorithms

bridge   == <<claimed, mapHead, contexts, run, saved, faults>>
feedback == <<outbox, captured, receipt, sending, mailFaults>>
algorithm == <<graph, op, stage, changed, task, selected, rounds, path, complete>>

Bridge   == INSTANCE AgentBridge WITH work <- claimed, head <- mapHead
Feedback == INSTANCE FeedbackOutbox WITH faults <- mailFaults, MaxFaults <- MaxMailFaults
Maps     == INSTANCE MapAlgorithms WITH draft <- graph

ASSUME BridgeBounds == MaxVersion \in Nat \ {0} /\ MaxHead \in Nat \ {0} /\ MaxFaults \in Nat
ASSUME FeedbackNames == {Feedback!None, Feedback!Cut} \cap Reports = {} /\ MaxMailFaults \in Nat
ASSUME FiniteBody == IsFiniteSet(DOMAIN Body)

\* What each says of its own state at any time.
TypesOK == TypeOK /\ Bridge!TypeOK /\ Feedback!TypeOK

\* AgentBridge: a start that failed leaves no claim of its own behind.
FailedStartIsSettled == Bridge!FailedStartIsSettled

\* AgentBridge: a claim that was left behind is resumed and gets its context.
InterruptedIsRecovered == Bridge!InterruptedIsRecovered

\* FeedbackOutbox: a receipt is filed for what was recorded and retained.
ReceiptMeansRecorded == Feedback!ReceiptMeansRecorded

\* MapAlgorithms: the loops and the search agree with their definitions.
AlgorithmsAreRight == Maps!AlgorithmsAreRight
=============================================================================
