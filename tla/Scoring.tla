------------------------------ MODULE Scoring -------------------------------
(***************************************************************************)
(* Assessments of ideas on scorecards and the rankings made of them         *)
(* (scoring.py).  An assessment judges one revision of an idea and is        *)
(* numbered per revision and card, and weighed with the rubric the card got  *)
(* when it was first imported or used; the workbook the campaign began with *)
(* is imported onto a card of its own, once for each idea; a ranking pins   *)
(* the assessments it was made from.                                        *)
(*                                                                         *)
(* Writers of one number are told apart by the store's unique key: what is  *)
(* refused changes nothing.                                                 *)
(***************************************************************************)
EXTENDS Integers, FiniteSets, FiniteSetsExt

CONSTANTS Ideas,           \* identities of ideas, numbered in the order of ties
          Rubrics,         \* name -> what a card may weigh: criterion -> hundredths
          Penalties,       \* the criteria that count against an idea
          OwnCards,        \* cards besides the two built-in ones
          Imports,         \* cards with rubrics that callers import: [card, rubric]
          Judgements,      \* criterion -> 1..10 or Unknown: what an author may judge
          Rows,            \* what a row of the workbook may say: a judgement and its total
          Labels,          \* labels of rankings
          MaxRevisions, MaxAssessments

VARIABLES revision,        \* the current revision of each idea
          cards,           \* the rubric of each scorecard in the store
          assessed,        \* the assessments
          provenance,      \* which row was imported onto which revision
          ranking          \* the rankings made so far, by label

scores == <<revision, cards, assessed, provenance, ranking>>

Original == "portfolio-original-v1"
Reviewed == "portfolio-reviewed-v1"
Cards    == {Original, Reviewed} \cup OwnCards
Default  == "default"      \* the weights of the workbook

Unknown == 0
NoTotal == -1
Totals  == {NoTotal} \cup 0..100

ASSUME ScoringBounds ==
    /\ Ideas \subseteq Int /\ IsFiniteSet(Ideas)
    /\ MaxRevisions \in Nat \ {0} /\ MaxAssessments \in Nat

ASSUME ScoringRubrics ==
    /\ Default \in DOMAIN Rubrics
    /\ \A new \in Imports : new.card \in Cards /\ new.rubric \in DOMAIN Rubrics

ASSUME ScoresAreNumbers ==
    \A rubric \in DOMAIN Rubrics :
        /\ IsFiniteSet(DOMAIN Rubrics[rubric])
        /\ \A c \in DOMAIN Rubrics[rubric] :
              /\ Rubrics[rubric][c] \in Int
              /\ \A judgement \in Judgements : judgement[c] \in Int
              /\ \A row \in Rows : row.scores[c] \in Int

\* The tables: the cards that were made, the assessments, the rows of the workbook
\* that were imported, and the entries of a ranking.
Scorecards == UNION {[made -> DOMAIN Rubrics] : made \in SUBSET Cards}
Provenance == [idea : Ideas, revision : 1..MaxRevisions, row : Rows]
Assessment == [idea : Ideas, revision : 1..MaxRevisions, card : Cards,
               number : 1..MaxAssessments, total : Totals]

Entry == [of : Assessment, rank : 1..Cardinality(Ideas)]

ScoringTypeOK ==
    /\ revision \in [Ideas -> 1..MaxRevisions]
    /\ cards \in Scorecards
    /\ \A a \in assessed : a.card \in DOMAIN cards
    /\ assessed \subseteq Assessment
    /\ \A a, b \in assessed :
          a.idea = b.idea /\ a.revision = b.revision /\ a.card = b.card
              /\ a.number = b.number => a = b
    /\ \A a \in assessed : a.revision <= revision[a.idea]
    /\ provenance \subseteq Provenance
    /\ \A l \in DOMAIN ranking : \A e \in ranking[l] : e \in Entry /\ e.of \in assessed

ScoringInit ==
    /\ revision = [i \in Ideas |-> 1]
    /\ cards = [c \in {} |-> Default]
    /\ assessed = {}
    /\ provenance = {}
    /\ ranking = [l \in {} |-> {}]

-----------------------------------------------------------------------------
(* The arithmetic of a scorecard, in hundredths (calculate).                *)

Points(weight, c, raw) == weight[c] * (IF c \in Penalties THEN 1 - raw ELSE raw)

Clamped(x) == IF x < 0 THEN 0 ELSE IF x > 100 THEN 100 ELSE x

\* Ten times the weighted sum.
Tenths(judgement, weight) ==
    MapThenSumSet(LAMBDA c : Points(weight, c, judgement[c]), DOMAIN weight)

\* Halves are rounded up; a missing score leaves the total unknown and is never
\* taken for zero.
Total(judgement, rubric) ==
    LET weight == Rubrics[rubric]
    IN  IF \E c \in DOMAIN weight : judgement[c] = Unknown THEN NoTotal
        ELSE Clamped((Tenths(judgement, weight) + 5) \div 10)

-----------------------------------------------------------------------------
(* Scorecards.                                                             *)

\* A card is what it was when it was made: it can be asked for again with the
\* same rubric, and with no other.
Agrees(card, rubric) == card \in DOMAIN cards => cards[card] = rubric

With(card, rubric) ==
    [c \in DOMAIN cards \cup {card} |-> IF c = card THEN rubric ELSE cards[c]]

ImportScorecard(card, rubric) ==
    /\ card \notin DOMAIN cards
    /\ cards' = With(card, rubric)
    /\ UNCHANGED <<revision, assessed, provenance, ranking>>

\* A built-in card is made with the default rubric when it is first used.
Usable(card) == IF card \in {Original, Reviewed} THEN Agrees(card, Default)
                                                 ELSE card \in DOMAIN cards
Used(card) == IF card \in DOMAIN cards THEN cards ELSE With(card, Default)

-----------------------------------------------------------------------------
(* Assessments.                                                            *)

Of(i, r, card) == {a \in assessed : a.idea = i /\ a.revision = r /\ a.card = card}

\* Fault: the number is that of the current revision, whichever one is judged.
NumberedOfCurrent(i, r, card) == Cardinality(Of(i, revision[i], card))

Numbered(i, r, card) == Cardinality(Of(i, r, card))

Latest(S) == CHOOSE a \in S : \A b \in S : b.number <= a.number

\* The assessment that is appended next.
Appended(i, r, card, judgement) ==
    [idea |-> i, revision |-> r, card |-> card,
     number |-> Numbered(i, r, card) + 1, total |-> Total(judgement, Used(card)[card])]

Revise(i) ==
    /\ revision[i] < MaxRevisions
    /\ revision' = [revision EXCEPT ![i] = @ + 1]
    /\ UNCHANGED <<cards, assessed, provenance, ranking>>

\* The revision is named or is the current one; the original card is closed.
Assess(i, r, card, judgement) ==
    /\ card # Original /\ Usable(card)
    /\ r <= revision[i]
    /\ Cardinality(assessed) < MaxAssessments
    /\ assessed' = assessed \cup {Appended(i, r, card, judgement)}
    /\ cards' = Used(card)
    /\ UNCHANGED <<revision, provenance, ranking>>

-----------------------------------------------------------------------------
(* The workbook.                                                           *)

\* Fault: only the current revision is asked for an imported row.
RowsOfCurrent(i) == {p.row : p \in {q \in provenance : q.idea = i /\ q.revision = revision[i]}}

\* The row of an idea belongs to the revision that first received it.
RowsOf(i) == {p.row : p \in {q \in provenance : q.idea = i}}

\* The workbook computed the same total from the same scores.
InParity(row) == Total(row.scores, Default) = row.total

\* All rows are imported or none: a row that differs from the one its idea has
\* is a conflict, the same row is left alone.
ImportOriginal(table) ==
    LET new == {i \in DOMAIN table : RowsOf(i) = {}}
    IN  /\ Usable(Original)
        /\ \A i \in DOMAIN table : InParity(table[i]) /\ RowsOf(i) \subseteq {table[i]}
        /\ new # {}
        /\ Cardinality(assessed) + Cardinality(new) <= MaxAssessments
        /\ cards' = Used(Original)
        /\ assessed' = assessed \cup
              {Appended(i, revision[i], Original, table[i].scores) : i \in new}
        /\ provenance' = provenance \cup
              {[idea |-> i, revision |-> revision[i], row |-> table[i]] : i \in new}
        /\ UNCHANGED <<revision, ranking>>

-----------------------------------------------------------------------------
(* Rankings.                                                               *)

\* The latest assessments of the current revisions whose totals are known.
Comparable(card) ==
    {a \in {Latest(Of(i, revision[i], card)) :
               i \in {j \in Ideas : Of(j, revision[j], card) # {}}} : a.total # NoTotal}

Before(a, b) == a.total > b.total \/ (a.total = b.total /\ a.idea < b.idea)

Ranked(S) == {[of |-> a, rank |-> Cardinality({b \in S : Before(b, a)}) + 1] : a \in S}

\* A label is used once.
Rank(card, label) ==
    /\ card \in DOMAIN cards
    /\ label \notin DOMAIN ranking
    /\ ranking' = [l \in DOMAIN ranking \cup {label} |->
                     IF l = label THEN Ranked(Comparable(card)) ELSE ranking[l]]
    /\ UNCHANGED <<revision, cards, assessed, provenance>>

ScoringNext ==
    \/ \E i \in Ideas :
          \/ Revise(i)
          \/ \E r \in 1..MaxRevisions, card \in Cards, judgement \in Judgements :
                Assess(i, r, card, judgement)
    \/ \E new \in Imports : ImportScorecard(new.card, new.rubric)
    \/ \E S \in (SUBSET Ideas) \ {{}} : \E table \in [S -> Rows] : ImportOriginal(table)
    \/ \E card \in Cards, label \in Labels : Rank(card, label)

-----------------------------------------------------------------------------
\* The workbook scored an idea once: however often it is imported again, in
\* whichever subsets, between whatever revisions, an idea keeps one original
\* assessment, on the revision that first received its row, and its total is the
\* one the workbook states, whoever made the card of that name.
OriginalScoredOnce ==
    \A i \in Ideas :
        LET original == {a \in assessed : a.idea = i /\ a.card = Original}
        IN  /\ Cardinality(original) <= 1
            /\ \A a \in original : \E p \in provenance :
                  p.idea = i /\ p.revision = a.revision /\ p.row.total = a.total
=============================================================================
