----------------------------- MODULE Directions -----------------------------
(***************************************************************************)
(* The direction of one venture: the reviews of its workspace (reviews.py),  *)
(* of which the latest says what the venture's disposition and next action   *)
(* are (venture_state.py), and the results that append one when they are     *)
(* accepted (agent_handoffs.py, _accept).                                   *)
(*                                                                         *)
(* A result decides about its work or about the venture.  Only the second   *)
(* may change the direction; whether a next action was decided for the      *)
(* venture is not stored and is found by walking back over the reviews.     *)
(***************************************************************************)
EXTENDS Integers, Sequences, SequencesExt

CONSTANTS Works,         \* work whose results are delivered
          Actions,       \* texts of next actions
          Objectives,    \* what the venture may aim at
          FirstObjective,
          Written,       \* dispositions written by hand
          Imported,      \* legacy dispositions of the campaign
          MaxReviews

VARIABLES reviews,       \* the reviews of the workspace, oldest first
          objective,     \* the venture's objective
          work,          \* status of the work
          blocked,       \* why the work the import queued waits
          narrowed       \* history: the action the venture was last narrowed to

vars == <<reviews, objective, work, blocked, narrowed>>

Dispositions == {"pursue", "hold", "dropped", "internal_only", "use_existing"}

Kinds == {"none", "continue", "narrow", "stop", "defer"}

Review == [disposition : Dispositions, action : Actions, kind : Kinds]

NoAction == "none"

\* Why work waits that the import has queued.
Reasons == {"none", "human_input", "external_access", "other"}

TypeOK ==
    /\ reviews \in Seq(Review) /\ Len(reviews) <= MaxReviews
    /\ objective \in Objectives
    /\ work \in [Works -> {"claimed", "done"}]
    /\ blocked \in Reasons
    /\ narrowed \in Actions \cup {NoAction}

Init ==
    /\ reviews = <<>>
    /\ objective = FirstObjective
    /\ work = [w \in Works |-> "claimed"]
    /\ blocked = "none"
    /\ narrowed = NoAction

-----------------------------------------------------------------------------
Reviewed == reviews # <<>>

Current == Last(reviews)

\* The expected revision is the current one: the others are refused.
Append1(review) ==
    /\ Len(reviews) < MaxReviews
    /\ reviews' = Append(reviews, review)

\* A review written by hand, on the console or the command line.
Write(disposition, action) ==
    /\ Append1([disposition |-> disposition, action |-> action, kind |-> "none"])
    /\ narrowed' = IF action = narrowed THEN narrowed ELSE NoAction
    /\ UNCHANGED <<objective, work, blocked>>

\* What a disposition of the campaign stands for, and what its work waits for.
Legacy(value) ==
    CASE value = "INTERNAL_TRIAL" -> <<"internal_only", "none">>
      [] value = "STOP" -> <<"dropped", "none">>
      [] value = "INPUT_HOLD" -> <<"hold", "human_input">>
      [] value = "HOLD" -> <<"hold", "external_access">>
      [] value = "ADOPT" -> <<"use_existing", "none">>
      [] value = "CONTINUE" -> <<"pursue", "none">>
      [] OTHER -> <<"hold", "other">>

\* The campaign's dispositions are imported where there is no review yet.
ImportLegacy(value, action) ==
    /\ ~Reviewed
    /\ Append1([disposition |-> Legacy(value)[1], action |-> action, kind |-> "none"])
    /\ blocked' = Legacy(value)[2]
    /\ UNCHANGED <<objective, work, narrowed>>

-----------------------------------------------------------------------------
Outcomes == {"continue", "narrow", "hold", "stop", "inconclusive"}

\* The record that a result becomes, whatever it decides about.
KindOf(outcome) ==
    CASE outcome = "stop" -> "stop"
      [] outcome = "narrow" -> "narrow"
      [] outcome = "continue" -> "continue"
      [] OTHER -> "defer"

Before == IF Reviewed THEN Current.disposition ELSE "pursue"

\* Only a decision about the venture changes the disposition.
DispositionAfter(outcome, scope) ==
    IF scope = "work" THEN Before
    ELSE CASE outcome = "hold" -> "hold"
           [] outcome = "stop" -> "dropped"
           [] outcome \in {"continue", "narrow"} -> "pursue"
           [] OTHER -> Before

\* The latest reviews that say the same as the current one.
SameAction ==
    {r \in 1..Len(reviews) :
        \A s \in r..Len(reviews) : reviews[s].action = Current.action}

\* Fault: only the latest review is looked at.
IsNarrowedNow == Current.kind = "narrow"

\* The current next action, or one it was kept from, came with a narrowing.
IsNarrowed == \E r \in SameAction : reviews[r].kind = "narrow"

\* The next action is the venture's (_venture_level_action).
IsVentureLevel == Reviewed /\ (Current.disposition = "hold" \/ IsNarrowed)

ActionAfter(scope, action) ==
    IF scope = "work" /\ IsVentureLevel THEN Current.action ELSE action

\* A complete result finishes its work; only a narrowing of the venture, and
\* each of those, brings an objective.
Accept(w, outcome, scope, action, aim, completes) ==
    /\ work[w] = "claimed"
    /\ aim # objective => outcome = "narrow" /\ scope = "venture"
    /\ Append1([disposition |-> DispositionAfter(outcome, scope),
                action      |-> ActionAfter(scope, action),
                kind        |-> KindOf(outcome)])
    /\ objective' = aim
    /\ work' = IF completes THEN [work EXCEPT ![w] = "done"] ELSE work
    /\ narrowed' = CASE scope = "venture" /\ outcome = "narrow" -> action
                     [] narrowed = ActionAfter(scope, action) -> narrowed
                     [] OTHER -> NoAction
    /\ UNCHANGED blocked

Next ==
    \/ \E disposition \in Written, action \in Actions : Write(disposition, action)
    \/ \E value \in Imported, action \in Actions : ImportLegacy(value, action)
    \/ \E w \in Works, outcome \in Outcomes, scope \in {"work", "venture"},
          action \in Actions, aim \in Objectives, completes \in BOOLEAN :
            Accept(w, outcome, scope, action, aim, completes)

Spec == Init /\ [][Next]_vars

-----------------------------------------------------------------------------
(* Properties.                                                             *)

Held == Reviewed /\ Current.disposition = "hold"

\* A result about its work alone, however many of them follow one another and
\* whatever they conclude, leaves a venture that is on hold, or was narrowed,
\* with the next action and the disposition that were decided for it.
HeldDirectionStands ==
    [][\A w \in Works, outcome \in Outcomes, action \in Actions, completes \in BOOLEAN :
          /\ Accept(w, outcome, "work", action, objective, completes)
          /\ Held \/ (Reviewed /\ narrowed = Current.action)
          => /\ reviews'[Len(reviews')].action = Current.action
             /\ reviews'[Len(reviews')].disposition = Current.disposition]_vars
=============================================================================
