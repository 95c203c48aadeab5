---------------------------- MODULE ManualIntake ----------------------------
(***************************************************************************)
(* Initial manual reviews of one idea and of the ventures opened from it    *)
(* (manual_intake.py), with the operations of the portfolio they go with:   *)
(* an idea is revised, promoted to a venture, or linked to one.             *)
(*                                                                         *)
(* An intake is a work item named by its subject and the revision of the    *)
(* idea it is about, so that asking twice finds it again.  A venture that    *)
(* is opened while the idea's intake is under way or done has none of its    *)
(* own and is shown the idea's.  An intake is ordinary work as well: the    *)
(* agent handoffs, the treatments of a map revision and a status set by      *)
(* hand move it without knowing.  Whether a map or a person's answer lets    *)
(* it start is left open, as is why it was paused.                          *)
(* The scope that a venture's own intake pins besides (scope_stale), and the  *)
(* question to a person that a completion may ask, are not modelled.         *)
(*                                                                         *)
(* A call that expects an outdated version, revision or sequence changes    *)
(* nothing and is no step, nor is a completion that has a receipt.          *)
(***************************************************************************)
EXTENDS Integers, FiniteSets

CONSTANTS Ventures,      \* identities of ventures
          Actors,        \* who claims and completes
          MaxRevision    \* revisions of the idea

TheIdea  == "idea"
Subjects == {TheIdea} \cup Ventures

Absent  == -1            \* the venture does not exist
Unlinked == 0            \* it exists and has no source revision
Revisions == 1..MaxRevision

VARIABLES revision,      \* the idea's current revision
          pinned,        \* the source revision of each venture
          intake,        \* the work of each subject and revision
          last,          \* the revision of each subject's latest intake
          policy,        \* how the promotion of each venture treated the intake
          reviews,       \* the reviews of each workspace
          completed,     \* intakes with a completion receipt
          reopened       \* history: intakes taken up again by hand after they ended

vars == <<revision, pinned, intake, last, policy, reviews, completed, reopened>>

Works == Subjects \X (0..MaxRevision)

NoWork == [status |-> "none", owner |-> "agent"]
Queued == [status |-> "ready", owner |-> "agent"]

Policies == {"none", "linked_existing", "new_intake", "superseded_unstarted"}

Dispositions == {"pursue", "hold", "dropped"}

\* The rows: the work of an intake, and the source revision a venture row points at.
ActiveStates == {"todo", "ready", "in_progress", "blocked"}
WorkStates   == ActiveStates \cup {"done", "cancelled"}
WorkRow == [status : {"none"} \cup WorkStates,
            owner  : {"agent"} \cup Actors]
Source  == {Absent, Unlinked} \cup Revisions

TypeOK ==
    /\ revision \in Revisions
    /\ pinned \in [Ventures -> Source]
    /\ intake \in [Works -> WorkRow]
    /\ last \in [Subjects -> {Absent} \cup (0..MaxRevision)]
    /\ \A s \in Subjects : last[s] # Absent => intake[<<s, last[s]>>].status # "none"
    /\ policy \in [Ventures -> Policies]
    /\ reviews \in [Subjects -> {"none"} \cup Dispositions]
    /\ completed \cup reopened \subseteq {w \in Works : intake[w].status # "none"}

Init ==
    /\ revision = 1
    /\ pinned = [v \in Ventures |-> Absent]
    /\ intake = [w \in Works |-> NoWork]
    /\ last = [s \in Subjects |-> Absent]
    /\ policy = [v \in Ventures |-> "none"]
    /\ reviews = [s \in Subjects |-> "none"]
    /\ completed = {}
    /\ reopened = {}

-----------------------------------------------------------------------------
Exists(s) == s \in Ventures => pinned[s] # Absent

\* The revision a subject is about now (_subject).
Current(s) == IF s = TheIdea THEN revision ELSE pinned[s]

\* The idea's intake stands for a venture without one of its own (_handoff).
IsLinked(s) ==
    /\ s \in Ventures => policy[s] # "none"
    /\ s # TheIdea
    /\ last[s] = Absent
    /\ last[TheIdea] # Absent

\* The intake that a subject is shown.
Shown(s) == IF IsLinked(s)
              THEN <<TheIdea, last[TheIdea]>>
              ELSE <<s, last[s]>>

Stale(s) == last[s] # Current(s)

\* Fault: only work under way keeps a subject from being queued.
MayQueueIdle(s) == \A r \in 0..MaxRevision : intake[<<s, r>>].status # "in_progress"

\* A first review is asked for only where there is no review.
MayQueue(s) == reviews[s] = "none"

Missing(s, r) == intake[<<s, r>>].status = "none"

Active(w) == intake[w].status \in ActiveStates

\* Only a claim and a release change the owner of work.
Moved(w, status) == [status |-> status, owner |-> intake[w].owner]
Taken(actor) == [status |-> "in_progress", owner |-> actor]

-----------------------------------------------------------------------------
Revise ==
    /\ revision < MaxRevision
    /\ revision' = revision + 1
    /\ UNCHANGED <<pinned, intake, last, policy, reviews, completed, reopened>>

\* A venture made without a source (create_venture).
CreateVenture(v) ==
    /\ pinned[v] = Absent
    /\ pinned' = [pinned EXCEPT ![v] = Unlinked]
    /\ UNCHANGED <<revision, intake, last, policy, reviews, completed, reopened>>

LinkVenture(v) ==
    /\ pinned[v] = Unlinked
    /\ pinned' = [pinned EXCEPT ![v] = revision]
    /\ UNCHANGED <<revision, intake, last, policy, reviews, completed, reopened>>

Request(s) ==
    /\ Exists(s)
    /\ ~IsLinked(s)
    /\ Missing(s, Current(s))
    /\ MayQueue(s)
    /\ intake' = [intake EXCEPT ![<<s, Current(s)>>] = Queued]
    /\ last' = [last EXCEPT ![s] = Current(s)]
    /\ UNCHANGED <<revision, pinned, policy, reviews, completed, reopened>>

\* The idea's intake is about the revision that is promoted, and under way or done.
Reusable ==
    /\ last[TheIdea] = revision
    /\ intake[<<TheIdea, revision>>].status \in {"in_progress", "done"}

Unstarted == last[TheIdea] = revision /\ intake[<<TheIdea, revision>>].status = "ready"

\* promote_idea opens a venture for the current revision and keeps one
\* investigation: the idea's if it has begun, the venture's if not.
Promote(v) ==
    /\ pinned[v] = Absent
    /\ pinned' = [pinned EXCEPT ![v] = revision]
    /\ \/ /\ Reusable
          /\ policy' = [policy EXCEPT ![v] = "linked_existing"]
          /\ UNCHANGED <<intake, last, reopened>>
       \/ /\ Unstarted
          /\ policy' = [policy EXCEPT ![v] = "superseded_unstarted"]
          /\ intake' = [intake EXCEPT ![<<v, revision>>] = Queued,
                                      ![<<TheIdea, revision>>] = Moved(<<TheIdea, revision>>, "cancelled")]
          /\ last' = [last EXCEPT ![v] = revision]
          /\ reopened' = reopened \ {<<TheIdea, revision>>}
       \/ /\ ~Reusable /\ ~Unstarted
          /\ policy' = [policy EXCEPT ![v] = "new_intake"]
          /\ intake' = [intake EXCEPT ![<<v, revision>>] = Queued]
          /\ last' = [last EXCEPT ![v] = revision]
          /\ UNCHANGED reopened
    /\ UNCHANGED <<revision, reviews, completed>>

\* The intake that may be claimed or completed through its subject.
Workable(s) ==
    /\ Exists(s)
    /\ last[s] # Absent
    /\ ~Stale(s)

Claim(s, actor) ==
    /\ Workable(s)
    /\ intake[<<s, last[s]>>].status = "ready"
    /\ intake' = [intake EXCEPT ![<<s, last[s]>>] = Taken(actor)]
    /\ UNCHANGED <<revision, pinned, last, policy, reviews, completed, reopened>>

\* Only the intake that is shown can be released here; a stale one as well.
Release(s, actor) ==
    /\ last[s] # Absent
    /\ intake[<<s, last[s]>>] = Taken(actor)
    /\ intake' = [intake EXCEPT ![<<s, last[s]>>] = Queued]
    /\ UNCHANGED <<revision, pinned, last, policy, reviews, completed, reopened>>

DispositionOf(outcome) ==
    CASE outcome = "stop" -> "dropped"
      [] outcome = "hold" -> "hold"
      [] OTHER -> "pursue"

\* Its decision and its review give the subject a direction.
Directed(s, outcome) == [reviews EXCEPT ![s] = DispositionOf(outcome)]

Complete(s, actor, outcome) ==
    /\ Workable(s)
    /\ <<s, last[s]>> \notin completed
    /\ intake[<<s, last[s]>>] = Taken(actor)
    /\ intake' = [intake EXCEPT ![<<s, last[s]>>] = Moved(<<s, last[s]>>, "done")]
    /\ reviews' = Directed(s, outcome)
    /\ completed' = completed \cup {<<s, last[s]>>}
    /\ UNCHANGED <<revision, pinned, last, policy, reopened>>

-----------------------------------------------------------------------------
(* The same rows through the general operations on work, which know no      *)
(* subjects, and reviews that are recorded in other ways.                   *)

MoveWork(w, row) ==
    /\ intake' = [intake EXCEPT ![w] = row]
    /\ UNCHANGED <<revision, pinned, last, policy, completed>>

HandoffClaim(w, actor) ==
    /\ intake[w].status \in {"ready", "todo"}
    /\ MoveWork(w, Taken(actor))
    /\ UNCHANGED <<reviews, reopened>>

HandoffRelease(w) ==
    /\ intake[w].status = "in_progress"
    /\ MoveWork(w, Queued)
    /\ UNCHANGED <<reviews, reopened>>

CloseWork(w) ==
    /\ Active(w) /\ intake[w].status # "in_progress"
    /\ MoveWork(w, Moved(w, "cancelled"))
    /\ UNCHANGED <<reviews, reopened>>

\* An accepted result finishes the work and records a review.
AcceptResult(w) ==
    /\ Active(w)
    /\ MoveWork(w, Moved(w, "done"))
    /\ reviews' = [reviews EXCEPT ![w[1]] = "pursue"]
    /\ UNCHANGED reopened

\* A treatment of a map revision pauses or cancels active work, or lets paused
\* work go on.
TreatWork(w, status) ==
    /\ Active(w)
    /\ status = "ready" => intake[w].status = "blocked"
    /\ MoveWork(w, Moved(w, status))
    /\ UNCHANGED <<reviews, reopened>>

\* set_work_item_status: any status at any time; only blocked work is not started.
SetWorkStatus(w, status) ==
    /\ intake[w].status # "none"
    /\ status \in {"ready", "in_progress"} => intake[w].status # "blocked"
    /\ MoveWork(w, Moved(w, status))
    /\ reopened' = IF ~Active(w) /\ status \in ActiveStates
                   THEN reopened \cup {w} ELSE reopened
    /\ UNCHANGED reviews

OtherReview(s) ==
    /\ Exists(s)
    /\ reviews' = [reviews EXCEPT ![s] = "hold"]
    /\ UNCHANGED <<revision, pinned, intake, last, policy, completed, reopened>>

SubjectStep ==
    \/ Revise
    \/ \E v \in Ventures : CreateVenture(v) \/ LinkVenture(v) \/ Promote(v)
    \/ \E s \in Subjects :
          \/ Request(s)
          \/ OtherReview(s)
          \/ \E actor \in Actors :
                \/ Claim(s, actor)
                \/ Release(s, actor)
                \/ \E outcome \in {"continue", "narrow", "hold", "stop"} :
                      Complete(s, actor, outcome)

HandoffStep ==
    \E w \in Works :
      \/ \E actor \in Actors : HandoffClaim(w, actor)
      \/ HandoffRelease(w)
      \/ CloseWork(w)
      \/ AcceptResult(w)

WorkStep ==
    \E w \in Works :
      \/ \E status \in {"blocked", "ready", "cancelled"} : TreatWork(w, status)
      \/ \E status \in WorkStates : SetWorkStatus(w, status)

Next == SubjectStep \/ HandoffStep \/ WorkStep

Spec == Init /\ [][Next]_vars

-----------------------------------------------------------------------------
(* Properties.                                                             *)

\* A workspace completes one initial review at most, although every revision of
\* its idea can ask for one before the first is completed, and completed work can
\* be taken up again by hand.  A promotion that found the idea's intake keeps one
\* investigation: a venture that is shown the idea's intake never gets one of its
\* own, and where the venture got the only one, the idea's is not active again
\* unless somebody sets it so by hand, which set_work_item_status does not
\* prevent.  All this in any order of revisions, promotions, links, claims,
\* releases, treatments and reviews.
OneInvestigation ==
    /\ \A s \in Subjects : Cardinality({w \in completed : w[1] = s}) <= 1
    /\ \A v \in Ventures :
          /\ policy[v] = "linked_existing" =>
                \A r \in 0..MaxRevision : intake[<<v, r>>].status = "none"
          /\ (policy[v] = "superseded_unstarted" /\ <<TheIdea, pinned[v]>> \notin reopened) =>
                ~Active(<<TheIdea, pinned[v]>>)
=============================================================================
