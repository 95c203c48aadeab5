--------------------------- MODULE FeedbackOutbox ---------------------------
(***************************************************************************)
(* The feedback command of the bridge (tools/foundry_agent.py): a report is *)
(* retained in an outbox file, sent to the workspace under a request key    *)
(* made of its id, and its receipt filed.  Running the command again with   *)
(* the same input is the documented retry.  Everything is about one id; the *)
(* report file given to the command may have been edited in between.        *)
(***************************************************************************)
EXTENDS Integers

CONSTANTS Reports,    \* contents that a report of the id may have
          Sendable,   \* those that send_feedback finds complete and of this project
          MaxFaults   \* lost answers, failed calls and files cut off

VARIABLES outbox,     \* feedback/<id>.json
          captured,   \* what the store recorded under "dogfood:<id>"
          receipt,    \* feedback/<id>.receipt.json
          sending,    \* the command under way
          faults

vars == <<outbox, captured, receipt, sending, faults>>

None == "none"        \* no file, no record
Cut  == "cut"         \* a file that write_new began and did not finish

NotSending == [at |-> "idle", report |-> None]

\* What is kept: the two files of a report, and the record of it in the store.
Files  == Reports \cup {None, Cut}
Record == Reports \cup {None}

TypeOK ==
    /\ outbox \in Files
    /\ captured \in Record
    /\ receipt \in Files
    /\ sending \in [at : {"idle", "sending", "filing"}, report : Reports \cup {None}]
    /\ faults \in 0..MaxFaults

Init ==
    /\ outbox = None
    /\ captured = None
    /\ receipt = None
    /\ sending = NotSending
    /\ faults = 0

SendFault == faults < MaxFaults /\ faults' = faults + 1

\* Fault: a retained report is not compared with the one given.
Retained(c) == outbox # Cut

\* A report may be sent if the outbox file is the same report, or there is none.
SameAsRetained(c) == outbox \in {None, c}

Retain(c) ==
    /\ sending.at = "idle"
    /\ SameAsRetained(c)
    /\ \/ /\ outbox' = IF outbox = None THEN c ELSE outbox
          /\ sending' = [at |-> "sending", report |-> c]
          /\ UNCHANGED faults
       \/ /\ outbox = None
          /\ outbox' = Cut
          /\ SendFault
          /\ UNCHANGED sending
    /\ UNCHANGED <<captured, receipt>>

\* One key, one content: a repeated capture answers with the first.
Recordable == sending.report \in Sendable /\ captured \in {None, sending.report}

\* The report is judged only after it was retained.
Send ==
    /\ sending.at = "sending"
    /\ \/ /\ Recordable
          /\ captured' = sending.report
          /\ sending' = [sending EXCEPT !.at = "filing"]
          /\ UNCHANGED faults
       \/ /\ ~Recordable
          /\ sending' = NotSending
          /\ UNCHANGED <<captured, faults>>
       \/ /\ Recordable
          /\ captured' = sending.report
          /\ SendFault
          /\ sending' = NotSending
       \/ /\ SendFault
          /\ sending' = NotSending
          /\ UNCHANGED captured
    /\ UNCHANGED <<outbox, receipt>>

File ==
    /\ sending.at = "filing"
    /\ sending' = NotSending
    /\ \/ /\ receipt' = IF receipt = None THEN sending.report ELSE receipt
          /\ UNCHANGED faults
       \/ /\ receipt = None
          /\ receipt' \in {None, Cut}
          /\ SendFault
    /\ UNCHANGED <<outbox, captured>>

Next ==
    \/ \E c \in Reports : Retain(c)
    \/ Send
    \/ File

Spec == Init /\ [][Next]_vars

-----------------------------------------------------------------------------
\* A receipt exists only for a report that the store recorded, and what is
\* retained in the repository is what was recorded, however often the command
\* was interrupted, repeated or given an edited report.
ReceiptMeansRecorded ==
    receipt # None => captured = outbox /\ receipt \in {captured, Cut}
=============================================================================
