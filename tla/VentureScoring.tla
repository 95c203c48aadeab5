--------------------------- MODULE VentureScoring ---------------------------
(***************************************************************************)
(* Assessments of ventures (venture_scoring.py).  A venture is judged on the *)
(* cards of the ideas, and what its source idea was given is copied once as  *)
(* a starting estimate: when it is promoted, or when the estimates are       *)
(* brought in for all ventures.  What is shown of a venture is its own      *)
(* judgement if there is one, and says whether the scope has changed since.  *)
(***************************************************************************)
EXTENDS Scoring

CONSTANTS Ventures,        \* identities of ventures
          Objectives,      \* what a venture may aim at
          Keys,            \* request keys
          MaxJudged, MaxNews,
          MaxRows          \* bound on all assessments together

VARIABLES scope,           \* each venture's source and objective, and what was recorded
                           \* about it since: evidence, decisions and reviews
          judged           \* the assessments of ventures, numbered for each card

ASSUME JudgingBounds ==
    /\ IsFiniteSet(Ventures) /\ IsFiniteSet(OwnCards)
    /\ MaxJudged \in Nat /\ MaxNews \in Nat

vars == <<scores, scope, judged>>

Absent  == [idea |-> 0, revision |-> -1, aim |-> "none", news |-> 0]
NoIdea  == 0

Exists(v) == scope[v] # Absent

Kinds == {"reviewed", "source_baseline"}

\* The rows of a venture, with what it is about, and of an assessment of one, which
\* keeps the scope of the time.
Scope  == [idea : {NoIdea} \cup Ideas, revision : 0..MaxRevisions, aim : Objectives,
           news : 0..MaxNews]
Judged == [venture : Ventures, card : Cards, kind : Kinds, total : Totals,
           sequence : Nat \ {0}, key : Keys \cup Cards, scope : Scope]

TypeOK ==
    /\ ScoringTypeOK
    /\ scope \in [Ventures -> Scope \cup {Absent}]
    /\ judged \subseteq Judged
    /\ \A a, b \in judged :
          a.venture = b.venture
            /\ (a.key = b.key \/ (a.card = b.card /\ a.sequence = b.sequence)) => a = b

Init ==
    /\ ScoringInit
    /\ scope = [v \in Ventures |-> Absent]
    /\ judged = {}

-----------------------------------------------------------------------------
JudgedOn(v, card) == {a \in judged : a.venture = v /\ a.card = card}

LastSequence(v, card) == Max({0} \cup {a.sequence : a \in JudgedOn(v, card)})

\* The assessments of the idea revision a venture comes from.
SourceOf(s, card) == Of(s.idea, s.revision, card)

\* A card's estimate was copied before.
HasBaseline(v, card) == \E a \in judged : a.venture = v /\ a.key = card

\* What is copied for a venture of scope s from one card.
Baseline(v, s, card) ==
    [venture |-> v, card |-> card, kind |-> "source_baseline",
     total |-> Latest(SourceOf(s, card)).total,
     sequence |-> LastSequence(v, card) + 1, key |-> card, scope |-> s]

\* Of every card the source was assessed on.
Baselines(v, s) ==
    {Baseline(v, s, card) : card \in {c \in Cards : SourceOf(s, c) # {} /\ ~HasBaseline(v, c)}}

Room(new) == /\ Cardinality(judged) + Cardinality(new) <= MaxJudged
             /\ Cardinality(assessed) + Cardinality(judged) + Cardinality(new) <= MaxRows

CreateVenture(v, aim) ==
    /\ ~Exists(v)
    /\ scope' = [scope EXCEPT ![v] = [idea |-> NoIdea, revision |-> 0, aim |-> aim,
                                             news |-> 0]]
    /\ UNCHANGED <<scores, judged>>

\* A venture that is promoted under a name of its own starts with its estimates.
Promote(v, i, aim) ==
    LET s == [idea |-> i, revision |-> revision[i], aim |-> aim, news |-> 0]
    IN  /\ ~Exists(v)
        /\ Room(Baselines(v, s))
        /\ scope' = [scope EXCEPT ![v] = s]
        /\ judged' = judged \cup Baselines(v, s)
        /\ UNCHANGED scores

\* A venture without a source is linked to the current revision.
LinkIdea(v, i) ==
    /\ Exists(v)
    /\ scope[v].idea = NoIdea
    /\ scope' = [scope EXCEPT ![v].idea = i, ![v].revision = revision[i]]
    /\ UNCHANGED <<scores, judged>>

Narrow(v, aim) ==
    /\ Exists(v)
    /\ scope[v].aim # aim
    /\ scope' = [scope EXCEPT ![v].aim = aim]
    /\ UNCHANGED <<scores, judged>>

\* Evidence, a decision or a review is recorded about the venture.
Learn(v) ==
    /\ Exists(v)
    /\ scope[v].news < MaxNews
    /\ scope' = [scope EXCEPT ![v].news = @ + 1]
    /\ UNCHANGED <<scores, judged>>

\* The estimates of every venture with a source (bootstrap).
Bootstrap ==
    LET sourced == {v \in Ventures : Exists(v) /\ scope[v].idea # NoIdea}
        new     == UNION {Baselines(v, scope[v]) : v \in sourced}
    IN  /\ new # {}
        /\ Room(new)
        /\ judged' = judged \cup new
        /\ UNCHANGED <<scores, scope>>

\* One request key, one assessment; the expected sequence is the latest.
Judge(v, card, judgement, key) ==
    LET new == [venture |-> v, card |-> card, kind |-> "reviewed",
                total |-> Total(judgement, Used(card)[card]),
                sequence |-> LastSequence(v, card) + 1, key |-> key, scope |-> scope[v]]
    IN  /\ Exists(v)
        /\ card # Original /\ Usable(card)
        /\ \A a \in judged : ~(a.venture = v /\ a.key = key)
        /\ Room({new})
        /\ judged' = judged \cup {new}
        /\ cards' = Used(card)
        /\ UNCHANGED <<revision, assessed, provenance, ranking, scope>>

Next ==
    \/ /\ ScoringNext
       /\ Cardinality(assessed') + Cardinality(judged) <= MaxRows
       /\ UNCHANGED <<scope, judged>>
    \/ \E v \in Ventures :
          \/ \E aim \in Objectives :
                \/ CreateVenture(v, aim)
                \/ Narrow(v, aim)
                \/ \E i \in Ideas : Promote(v, i, aim)
          \/ \E i \in Ideas : LinkIdea(v, i)
          \/ \E card \in Cards, judgement \in Judgements, key \in Keys :
                Judge(v, card, judgement, key)
          \/ Learn(v)
    \/ Bootstrap

Spec == Init /\ [][Next]_vars

-----------------------------------------------------------------------------
(* What is shown of a venture (show, score_status).                         *)

\* The last of a set of assessments on one card, if there is one.
LastOf(S) == {a \in S : \A b \in S : b.sequence <= a.sequence}

\* Fault: the latest on the card, whoever made it.
LatestOnCard(v, card) == LastOf(JudgedOn(v, card))

\* The latest judgement on the card, else the latest estimate there.
Primary(v, card) ==
    LET own == {a \in JudgedOn(v, card) : a.kind = "reviewed"}
    IN  IF own # {} THEN LastOf(own) ELSE LastOf(JudgedOn(v, card))

Shown(v, card) ==
    IF Primary(v, card) # {} \/ card # Reviewed THEN Primary(v, card)
    ELSE LastOf(JudgedOn(v, Original))

\* An assessment is of another scope when the source or the objective changed;
\* whatever else was recorded only suggests a new one.
ScopeOf(s) == [s EXCEPT !.news = 0]

\* Whether what an assessment says is of another scope than the venture has now.
IsStale(a) == ScopeOf(a.scope) # ScopeOf(scope[a.venture])

State(v, card) ==
    IF Shown(v, card) = {} THEN "none"
    ELSE IF \E a \in Shown(v, card) : IsStale(a) THEN "stale"
    ELSE IF \E a \in Shown(v, card) : a.kind = "source_baseline" THEN "imported"
    ELSE "reviewed"

\* A venture that was judged for itself on a card is never shown the estimate of
\* its idea there again, nor another judgement as current: whatever is assessed,
\* learned, linked and brought in later, what is shown there changes only with a new
\* judgement on that very card, which is shown at once, and ceases to be current only
\* with the scope; what was copied or judged stays what it was.
ReviewedScoreStands ==
    [][/\ \A v \in Ventures, card \in Cards : State(v, card) = "reviewed" =>
             \/ /\ Shown(v, card)' = Shown(v, card)
                /\ ScopeOf(scope'[v]) = ScopeOf(scope[v]) => State(v, card)' = "reviewed"
             \/ \E a \in judged' \ judged :
                   /\ a.venture = v /\ a.card = card /\ a.kind = "reviewed"
                   /\ Shown(v, card)' = {a} /\ State(v, card)' = "reviewed"
       /\ judged \subseteq judged']_vars
=============================================================================
