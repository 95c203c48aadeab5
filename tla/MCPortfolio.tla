----------------------------- MODULE MCPortfolio -----------------------------
(***************************************************************************)
(* The parts of Portfolio.  A behaviour is one of one of them; the others    *)
(* stay as they begin.                                                      *)
(***************************************************************************)
EXTENDS Portfolio

VARIABLE part

\* One criterion for and one against, weighed in two ways; the second judgement is
\* incomplete.
BothRubrics == [default |-> [revenue |-> 60, legal |-> 40],
                other   |-> [revenue |-> 30, legal |-> 70]]
Foreign == {[card |-> "own", rubric |-> "other"],
            [card |-> Reviewed, rubric |-> "other"],
            [card |-> Original, rubric |-> "other"]}
Full == [revenue |-> 8, legal |-> 3]
Half == [Full EXCEPT !.legal = Unknown]
AllJudgements == {Full, Half}

\* A row of the workbook, and one whose total is not what its scores give.
WorkbookRows == {[scores |-> Full, total |-> 40], [scores |-> Full, total |-> 41]}

\* Names in letters that every lower case treats alike.
Plain == [n \in {"Acme"} |-> "acme"]

OneBatch == {{2}}

\* One number in two files, once and twice in a file, with and without a venture.
About(q, answered, ventures) ==
    [key |-> "R1", question |-> q, answered |-> answered, about |-> ventures]

TwoFiles == <<"f", "g">>

Sections ==
    {<<>>,
     <<About("q1", FALSE, {"v1"})>>,
     <<About("q2", TRUE, {"v1", "v2"})>>,
     <<About("q2", FALSE, {"v1"}), About("q1", TRUE, {"v2"})>>,
     <<About("q1", FALSE, {}), About("q1", TRUE, {"v2"})>>}

Begin ==
    /\ part \in {"scoring", "judging", "discovery", "intake", "by hand", "direction", "files"}
    /\ Init /\ Discovery!Init /\ Intake!Init /\ Direction!Init /\ Requests!Init

\* Where ventures are judged, all that happens is about the first idea.
AboutOneIdea ==
    /\ \A i \in Ideas \ {1} : revision'[i] = 1
    /\ \A a \in assessed' : a.idea = 1
    /\ \A v \in Ventures : scope'[v].idea \in {NoIdea, 1}

\* Where the market is observed, it is for two ideas, or for one to which an actor is
\* something else as well and that cites nothing.
OneOrTwoIdeas ==
    \/ \A i \in Ideas, r \in 1..MaxRevisions : \A o \in observed'[i][r] : o.role = "rival"
    \/ /\ \A i \in Ideas \ {1} : ~Discovery!Exists(i)'
       /\ cited' = {}

\* Where intakes are moved by hand, it is one person who does so, to those of the
\* idea; a venture is promoted from it, and has its intake lie.
IdeaByHand ==
    /\ \A w \in Intake!Works : intake'[w].owner # "bob"
    /\ reviewed'[Intake!TheIdea] \in {"none", "pursue"}
    /\ \A v \in Ventures :
          /\ pinned'[v] # Intake!Unlinked
          /\ reviewed'[v] = "none"
          /\ \A r \in 0..MaxRevision : intake'[<<v, r>>].status \in {"none", "ready"}

Step ==
    /\ UNCHANGED part
    /\ \/ /\ part = "scoring" /\ ScoringNext
          /\ UNCHANGED <<judging, discovery, intakes, direction, files>>
       \/ /\ part = "judging" /\ Next /\ AboutOneIdea
          /\ UNCHANGED <<discovery, intakes, direction, files>>
       \/ /\ part = "discovery" /\ Discovery!Next /\ OneOrTwoIdeas
          /\ UNCHANGED <<scores, judging, intakes, direction, files>>
       \/ /\ part = "intake" /\ (Intake!SubjectStep \/ Intake!HandoffStep)
          /\ UNCHANGED <<scores, judging, discovery, direction, files>>
       \/ /\ part = "by hand" /\ Intake!Next /\ IdeaByHand
          /\ UNCHANGED <<scores, judging, discovery, direction, files>>
       \/ /\ part = "direction" /\ Direction!Next
          /\ UNCHANGED <<scores, judging, discovery, intakes, files>>
       \/ /\ part = "files" /\ Requests!Next
          /\ UNCHANGED <<scores, judging, discovery, intakes, direction>>

Parts == Begin /\ [][Step]_<<part, scores, judging, discovery, intakes, direction, files>>
=============================================================================
