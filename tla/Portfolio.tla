----------------------------- MODULE Portfolio ------------------------------
(***************************************************************************)
(* The records of ideas and of the ventures opened from them, side by side: *)
(* scores, the judgements of ventures, manual intake, the direction of a    *)
(* venture, discovery, and the request files that ask about ventures.  They  *)
(* meet only in the revision of an idea, which each of them models as far    *)
(* as it reads it.                                                          *)
(***************************************************************************)
EXTENDS VentureScoring, Sequences

CONSTANTS Agents, MaxRevision,                                            \* ManualIntake
          Assignments, Actions, FirstObjective, ByHand, Imported, MaxReviews,
                                                                          \* Directions
          Contents, Rivals, Folded, Lowered, Stored, Websites, Roles, Notes,
          RelationKinds, Rationales, Locators, Digests, Batches, None, MaxCorrections,   \* Discovery
          Files, Numbers, Questions, Topics, Texts, NoFile,
          MaxOccurrences, MaxChanges                                      \* RequestFiles

VARIABLES ideaRevision, pinned, intake, last, policy, reviewed, completed,
          reopened,                                                        \* ManualIntake
          reviews, objective, tasks, blocked, narrowed,                    \* Directions
          revisions, observed, superseded, rival, source, cited, related,
          imported,                                                        \* Discovery
          content, record, settled, changes                                \* RequestFiles

intakes   == <<ideaRevision, pinned, intake, last, policy, reviewed, completed, reopened>>
direction == <<reviews, objective, tasks, blocked, narrowed>>
discovery == <<revisions, observed, superseded, rival, source, cited, related, imported>>
judging   == <<scope, judged>>
files     == <<content, record, settled, changes>>

Intake    == INSTANCE ManualIntake WITH revision <- ideaRevision, reviews <- reviewed,
                                       Actors <- Agents
Direction == INSTANCE Directions WITH work <- tasks, Works <- Assignments, Written <- ByHand
Discovery == INSTANCE Discovery WITH Kinds <- RelationKinds
Requests  == INSTANCE RequestFiles WITH Keys <- Numbers, Contents <- Texts

ASSUME IntakeNames == MaxRevision \in Nat \ {0} /\ Intake!TheIdea \notin Ventures
ASSUME DirectionNames ==
  /\ Direction!NoAction \notin Actions
  /\ FirstObjective \in Objectives
  /\ ByHand \subseteq Direction!Dispositions
  /\ MaxReviews \in Nat
ASSUME DiscoveryNames ==
  /\ Discovery!Unregistered \notin Websites
  /\ None \notin Digests
  /\ Batches \subseteq SUBSET Ideas

ASSUME RequestNames ==
  /\ Files \in Seq(Requests!Names) /\ NoFile \notin Requests!Names
  /\ \A m, n \in DOMAIN Files : Files[m] = Files[n] => m = n
  /\ <<>> \in Texts
  /\ \A text \in Texts :
        /\ text \in Seq([key : Numbers, question : Questions, answered : BOOLEAN,
                         about : SUBSET Topics])
        /\ \A k \in Numbers :
              Cardinality({i \in DOMAIN text : text[i].key = k}) <= MaxOccurrences
  /\ MaxOccurrences \in Nat /\ MaxChanges \in Nat

\* Discovery: what was observed of a revision is never lost.
ObservationsAreKept == Discovery!ObservationsAreKept

\* ManualIntake: a subject has one first review, its idea and it one at a time.
OneInvestigation == Intake!OneInvestigation

\* Directions: results about work leave the direction of the venture alone.
HeldDirectionStands == Direction!HeldDirectionStands

\* RequestFiles: an apply leaves nothing to do for another one.
ApplySettles == Requests!ApplySettles

\* Each part's state is one it can be in, with what each says of its rows.
TypesOK ==
  /\ TypeOK
  /\ Discovery!TypeOK
  /\ Intake!TypeOK
  /\ Direction!TypeOK
  /\ Requests!TypeOK
=============================================================================
