------------------------------ MODULE Outreach ------------------------------
(***************************************************************************)
(* One manual email draft (outreach.py): it is created under a request key,  *)
(* revised by editors who have read a version of it, exported, sent outside *)
(* the system, and what came of it is reported for the revision that was    *)
(* sent.  A report of sending finishes the work the draft is for.           *)
(*                                                                         *)
(* Each operation is one transaction of an optimistic store: a writer whose *)
(* row has changed since it was read changes nothing.                       *)
(***************************************************************************)
EXTENDS Integers, Sequences, SequencesExt

CONSTANTS Texts,         \* what a draft may say
          Editors,       \* who revises
          Senders,       \* who exports, sends and reports
          Bytes,         \* contents an attached file may have
          MaxRevisions

VARIABLES draft,         \* the draft: its text, revision, version and work link
          retained,      \* each revision: its text and the one its editor had read
          read,          \* the version each editor has read
          copy,          \* what each sender has exported
          outcomes,      \* receipts of reported outcomes
          work,          \* status of the work item
          file,          \* the attached file, registered with its first content
          sent           \* history: what was sent, with the revision printed on it

vars == <<draft, retained, read, copy, outcomes, work, file, sent>>

ASSUME BoundsAreNat == MaxRevisions \in Nat \ {0} /\ Bytes # {}

NoDraft == [text |-> "none", revision |-> 0, linked |-> FALSE]
NoCopy  == [text |-> "none", revision |-> 0]

Kinds == {"sent_manually", "reply"}

\* The rows: the action that holds the draft, the snapshots of its revisions, the
\* exports and the reports of outcomes.
Draft    == [text : Texts \cup {"none"}, revision : 0..MaxRevisions, linked : BOOLEAN]
Snapshot == [text : Texts, over : 0..MaxRevisions]
Exported == [text : Texts \cup {"none"}, revision : 0..MaxRevisions]
Outcome  == [kind : Kinds, revision : 1..MaxRevisions, by : Senders, text : Texts]

TypeOK ==
    /\ draft \in Draft
    /\ retained \in Seq(Snapshot)
    /\ Len(retained) = draft.revision
    /\ draft # NoDraft => Last(retained).text = draft.text
    /\ read \in [Editors -> 0..MaxRevisions]
    /\ copy \in [Senders -> Exported]
    /\ outcomes \subseteq Outcome
    /\ work \in {"ready", "in_progress", "blocked", "done", "cancelled"}
    /\ file \in Bytes

\* The bytes the attached file was registered with.
Registered == CHOOSE b \in Bytes : TRUE

Init ==
    /\ draft = NoDraft
    /\ retained = <<>>
    /\ read = [e \in Editors |-> 0]
    /\ copy = [s \in Senders |-> NoCopy]
    /\ outcomes = {}
    /\ work = "ready"
    /\ file = Registered
    /\ sent = {}

-----------------------------------------------------------------------------
\* A repeated request is answered with the draft as it is by now, if it is what
\* the first revision said; otherwise it is refused.
Create(text, linked) ==
    /\ draft = NoDraft
    /\ draft' = [text |-> text, revision |-> 1, linked |-> linked]
    /\ retained' = <<[text |-> text, over |-> 0]>>
    /\ UNCHANGED <<read, copy, outcomes, work, file, sent>>

Read(e) ==
    /\ draft # NoDraft
    /\ read' = [read EXCEPT ![e] = draft.revision]
    /\ UNCHANGED <<draft, retained, copy, outcomes, work, file, sent>>

\* Fault: a version that was read is enough, whichever it is.
AfterRead(e) == read[e] > 0

\* Only a revision makes a new version of the draft, so a version is its number.
Fresh(e) == read[e] = draft.revision /\ read[e] > 0

Revise(e, text) ==
    /\ Fresh(e)
    /\ draft.revision < MaxRevisions
    /\ draft' = [draft EXCEPT !.text = text, !.revision = @ + 1]
    /\ retained' = Append(retained, [text |-> text, over |-> read[e]])
    /\ UNCHANGED <<read, copy, outcomes, work, file, sent>>

\* An attachment is exported only with the bytes it was registered with, and a
\* draft to be sent as a file only with its attachments.
Export(s, attached) ==
    /\ draft # NoDraft
    /\ attached => file = Registered
    /\ copy' = [copy EXCEPT ![s] = [text |-> draft.text, revision |-> draft.revision]]
    /\ UNCHANGED <<draft, retained, read, outcomes, work, file, sent>>

\* Sending happens outside of the system.
Send(s) ==
    /\ copy[s] # NoCopy
    /\ sent' = sent \cup {copy[s]}
    /\ UNCHANGED <<draft, retained, read, copy, outcomes, work, file>>

\* The work goes its own way.
WorkMoves ==
    /\ work' \in {"in_progress", "blocked", "cancelled"} \ {work}
    /\ work \notin {"done", "cancelled"}
    /\ UNCHANGED <<draft, retained, read, copy, outcomes, file, sent>>

FileChanges(b) ==
    /\ file # b
    /\ file' = b
    /\ UNCHANGED <<draft, retained, read, copy, outcomes, work, sent>>

\* An outcome is about one exact revision; the same report finds its receipt.
Report(s, kind) ==
    LET outcome == [kind |-> kind, revision |-> copy[s].revision, by |-> s,
                    text |-> retained[copy[s].revision].text]
    IN  /\ copy[s] \in sent
        /\ outcome \notin outcomes
        /\ outcomes' = outcomes \cup {outcome}
        /\ work' = IF kind = "sent_manually" /\ draft.linked THEN "done" ELSE work
        /\ UNCHANGED <<draft, retained, read, copy, file, sent>>

Next ==
    \/ \E text \in Texts, linked \in BOOLEAN : Create(text, linked)
    \/ \E e \in Editors : Read(e) \/ \E text \in Texts : Revise(e, text)
    \/ \E s \in Senders :
          \/ \E attached \in BOOLEAN : Export(s, attached)
          \/ Send(s)
          \/ \E kind \in Kinds : Report(s, kind)
    \/ WorkMoves
    \/ \E b \in Bytes : FileChanges(b)

Spec == Init /\ [][Next]_vars

-----------------------------------------------------------------------------
\* What was sent can be read back: the revision printed on it is retained with
\* the very text that was sent and reported, however many editors revise the
\* draft between its export, its sending and the report; and none of them
\* replaced a text that they had not read.
SentTextIsRetained ==
    /\ \A c \in sent : c.revision <= Len(retained) /\ retained[c.revision].text = c.text
    /\ \A o \in outcomes : retained[o.revision].text = o.text
    /\ \A r \in 1..Len(retained) : retained[r].over = r - 1
=============================================================================
