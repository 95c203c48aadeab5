-------------------------- MODULE HumanInputsProofs --------------------------
(***************************************************************************)
(* Proofs about HumanInputs, for every set of requests, work items,        *)
(* reviewers and texts and for every bound on replies and revisions.       *)
(*                                                                         *)
(* The inductive invariant looks at one request at a time: its definition, *)
(* its replies, the replies found sufficient, its last verdict and the     *)
(* dependencies on it make one row, and Row says what such a row never     *)
(* contradicts.                                                            *)
(* Every operation rewrites one row (a file sync several), so there is one *)
(* lemma about rows for each kind of change (Part 1) and one that puts the *)
(* rows back together (Part 2).  The preview and the gates, which relate a *)
(* request to something outside its row, are followed separately.          *)
(***************************************************************************)
EXTENDS HumanInputs, SequenceTheorems, TLAPS

\* The current reply is to the current wording.
Answers(d, s) == s[Len(s)].revision = d.revision

Typed(d, s, e, v, l) ==
  /\ d \in Definition
  /\ s \in Seq(Reply)
  /\ e \in SUBSET (1..MaxReplies)
  /\ v \in Verdict
  /\ l \in [Works -> Dependency \cup {NotLinked}]

Fits(d, s, e, v, l) ==
  /\ d.status # "absent" <=> d.revision > 0
  /\ Len(s) <= MaxReplies
  /\ \A n \in 1..Len(s) : s[n].revision <= d.revision
  /\ e \subseteq 1..Len(s)
  /\ v.of <= Len(s)
  /\ \A w \in Works : l[w] # NotLinked => l[w].by <= Len(s)

\* The parts of CurrentAnswerCounts for one request.
Satisfies(d, s, e, l, q) ==
  \A w \in Works : (l[w] # NotLinked /\ l[w].by > 0) =>
    /\ l[w].by = Len(s)
    /\ Len(s) \in e
    /\ q \notin SectionRequests => Answers(d, s)
Outcome(d, s, v, q) ==
  d.status \in Reviewed =>
    /\ Len(s) > 0 /\ v.of = Len(s)
    /\ d.status = StatusAfter(v.outcome)
    /\ q \notin SectionRequests => Answers(d, s)
Waits(d, s) ==
  (d.status = "waiting_for_answer" /\ Len(s) > 0) => ~Answers(d, s)

Row(d, s, e, v, l, q) ==
  /\ Typed(d, s, e, v, l)
  /\ Fits(d, s, e, v, l)
  /\ Satisfies(d, s, e, l, q)
  /\ Outcome(d, s, v, q)
  /\ Waits(d, s)

RowOf(q) == Row(request[q], reply[q], sufficient[q], verdict[q], dep[q], q)

\* The shape of the variables that the rows do not cover.
Shape ==
  /\ request \in [Requests -> Definition]
  /\ reply \in [Requests -> Seq(Reply)]
  /\ dep \in [Requests -> [Works -> Dependency \cup {NotLinked}]]
  /\ sufficient \in [Requests -> SUBSET (1..MaxReplies)]
  /\ verdict \in [Requests -> Verdict]
  /\ blocked \in [Works -> Held]
FileShape ==
  /\ lastFile \in [FileRequests -> Texts \cup {NoText}]
  /\ file \in [FileRequests -> Texts \cup {NoText}]
  /\ preview \in Preview \cup {NoPreview}
  /\ preview # NoPreview =>
       \A r \in FileRequests : preview.row[r].diagnostic # "empty" => preview.row[r].text # NoText

\* A preview is of requests that exist, and a line of it whose request has not
\* moved since was compared with the reply that is current now.
PreviewFresh ==
  preview # NoPreview =>
    \A r \in FileRequests : /\ Exists(r)
                            /\ r \notin preview.moved => preview.row[r].base = Current(r)

Inv ==
  /\ Shape
  /\ FileShape
  /\ \A q \in Requests : RowOf(q)
  /\ PreviewFresh

-----------------------------------------------------------------------------
(* Part 1: rows. *)

LEMMA StatusFits ==
  ASSUME NEW d \in Definition, NEW x \in Statuses
  PROVE  /\ InStatus(d, x) \in Definition
         /\ InStatus(d, x).status = x
         /\ InStatus(d, x).revision = d.revision
BY DEF InStatus, Definition

LEMMA TakenFits ==
  ASSUME NEW answer \in Reply,
         NEW status \in WorkStates,
         NEW owner \in Owners
  PROVE  /\ Taken(answer, status, owner) \in Reply
         /\ Taken(answer, status, owner).status = status
         /\ Taken(answer, status, owner).owner = owner
         /\ Taken(answer, status, owner).revision = answer.revision
BY DEF Taken, Reply, WorkStates, Active, Owners

LEMMA OpenFits ==
  ASSUME NEW other \in BOOLEAN
  PROVE  /\ Open(other) \in Dependency
         /\ Open(other).by = 0
         /\ Open(other) # NotLinked
BY InputBoundsAreNat, InputNamesDistinct DEF Open, Dependency

\* Reopening a dependency keeps the link and takes the answer away.
LEMMA OpenedFits ==
  ASSUME NEW l \in [Works -> Dependency \cup {NotLinked}]
  PROVE  /\ Opened(l) \in [Works -> Dependency \cup {NotLinked}]
         /\ \A w \in Works : Opened(l)[w] # NotLinked => Opened(l)[w].by = 0
<1>1. \A w \in Works : l[w] # NotLinked => l[w].other \in BOOLEAN
  BY DEF Dependency
<1>2. \A w \in Works : l[w] # NotLinked => /\ Opened(l)[w] \in Dependency
                                           /\ Opened(l)[w].by = 0
  BY <1>1, OpenFits DEF Opened
<1>3. \A w \in Works : l[w] = NotLinked => Opened(l)[w] = NotLinked
  BY DEF Opened
<1>4. Opened(l) \in [Works -> Dependency \cup {NotLinked}]
  BY <1>2, <1>3 DEF Opened
<1> QED BY <1>2, <1>3, <1>4

\* What a reader of a row may rely on.
LEMMA RowFacts ==
  ASSUME NEW d, NEW s, NEW e, NEW v, NEW l, NEW q, Row(d, s, e, v, l, q)
  PROVE  /\ d \in Definition /\ d.status \in Statuses \cup {"absent"}
         /\ d.revision \in 0..MaxRevisions
         /\ s \in Seq(Reply) /\ Len(s) \in Nat /\ Len(s) <= MaxReplies
         /\ \A n \in 1..Len(s) : /\ s[n] \in Reply
                                 /\ s[n].revision \in 1..MaxRevisions
                                 /\ s[n].revision <= d.revision
         /\ e \subseteq 1..Len(s)
         /\ v \in Verdict /\ v.of <= Len(s)
         /\ l \in [Works -> Dependency \cup {NotLinked}]
         /\ Len(s) > 0 => Len(s) \in 1..Len(s)
         /\ Len(s) > 0 => d.status # "absent"
<1>1. Typed(d, s, e, v, l) /\ Fits(d, s, e, v, l)
  BY DEF Row
<1>2. d \in Definition /\ d.status \in Statuses \cup {"absent"} /\ d.revision \in 0..MaxRevisions
  BY <1>1 DEF Typed, Definition
<1>3. s \in Seq(Reply) /\ Len(s) \in Nat
  BY <1>1 DEF Typed
<1>4. Len(s) <= MaxReplies /\ e \subseteq 1..Len(s) /\ v \in Verdict /\ v.of <= Len(s)
  BY <1>1 DEF Fits, Typed
<1>5. \A n \in 1..Len(s) : s[n] \in Reply
  BY <1>3
<1>6. \A n \in 1..Len(s) : s[n].revision \in 1..MaxRevisions
  BY <1>5 DEF Reply
<1>7. \A n \in 1..Len(s) : s[n].revision <= d.revision
  BY <1>1 DEF Fits
<1>8. Len(s) > 0 => Len(s) \in 1..Len(s)
  BY <1>3
<1>9. Len(s) > 0 => d.status # "absent"
  <2> SUFFICES ASSUME Len(s) > 0
               PROVE  d.revision > 0
    BY <1>1 DEF Fits
  <2>1. s[Len(s)].revision \in 1..MaxRevisions /\ s[Len(s)].revision <= d.revision
    BY <1>6, <1>7, <1>8
  <2> QED BY <2>1, <1>2, InputBoundsAreNat
<1>10. l \in [Works -> Dependency \cup {NotLinked}]
  BY <1>1 DEF Typed
<1> QED BY <1>2, <1>3, <1>4, <1>5, <1>6, <1>7, <1>8, <1>9, <1>10

\* Redefine: nobody has answered the new wording, and nothing counts as answered.
LEMMA Reworded ==
  ASSUME NEW d, NEW s, NEW e, NEW v, NEW l, NEW q,
         Row(d, s, e, v, l, q),
         d.status # "absent", d.revision < MaxRevisions
  PROVE  Row([status |-> "waiting_for_answer", revision |-> d.revision + 1],
             s, e, v, Opened(l), q)
<1> DEFINE new == [status |-> "waiting_for_answer", revision |-> d.revision + 1]
<1>1. new \in Definition /\ new.status = "waiting_for_answer" /\ new.revision = d.revision + 1
  BY RowFacts, InputBoundsAreNat DEF Definition, Statuses
<1> HIDE DEF new
<1>2. Typed(new, s, e, v, Opened(l))
  BY <1>1, RowFacts, OpenedFits DEF Row, Typed
<1>3. Fits(new, s, e, v, Opened(l))
  <2>1. new.status # "absent" /\ new.revision > 0
    BY <1>1, RowFacts
  <2>2. \A n \in 1..Len(s) : s[n].revision <= new.revision
    BY <1>1, RowFacts
  <2>3. \A w \in Works : Opened(l)[w] # NotLinked => Opened(l)[w].by <= Len(s)
    BY RowFacts, OpenedFits
  <2> QED BY <2>1, <2>2, <2>3, RowFacts DEF Fits
<1>4. Satisfies(new, s, e, Opened(l), q)
  BY RowFacts, OpenedFits DEF Satisfies
<1>5. Outcome(new, s, v, q)
  BY <1>1 DEF Outcome, Reviewed
<1>6. Waits(new, s)
  BY <1>1, RowFacts DEF Waits, Answers
<1> QED BY <1>2, <1>3, <1>4, <1>5, <1>6 DEF Row, new

\* SectionChanges: the old answers are to another wording, and only that.
LEMMA SectionReworded ==
  ASSUME NEW d, NEW s, NEW e, NEW v, NEW l, NEW q,
         Row(d, s, e, v, l, q), q \in SectionRequests,
         d.status # "absent", d.revision < MaxRevisions
  PROVE  Row([status |-> d.status, revision |-> d.revision + 1], s, e, v, l, q)
<1> DEFINE new == [status |-> d.status, revision |-> d.revision + 1]
<1>1. new \in Definition /\ new.status = d.status /\ new.revision = d.revision + 1
  BY RowFacts, InputBoundsAreNat DEF Definition, Statuses
<1> HIDE DEF new
<1>2. Typed(new, s, e, v, l)
  BY <1>1 DEF Row, Typed
<1>3. Fits(new, s, e, v, l)
  <2>1. new.status # "absent" /\ new.revision > 0
    BY <1>1, RowFacts
  <2>2. \A n \in 1..Len(s) : s[n].revision <= new.revision
    BY <1>1, RowFacts
  <2> QED BY <2>1, <2>2, RowFacts DEF Fits, Row
<1>4. Satisfies(new, s, e, l, q)
  BY DEF Satisfies, Row
<1>5. Outcome(new, s, v, q)
  BY <1>1 DEF Outcome, Row
<1>6. Len(s) > 0 => ~Answers(new, s)
  BY <1>1, RowFacts DEF Answers
<1>7. Waits(new, s)
  BY <1>1, <1>6 DEF Waits, Row
<1> QED BY <1>2, <1>3, <1>4, <1>5, <1>7 DEF Row, new

\* LinkDependency: one more open dependency.
LEMMA Linked ==
  ASSUME NEW d, NEW s, NEW e, NEW v, NEW l, NEW q, NEW w \in Works, NEW other \in BOOLEAN,
         Row(d, s, e, v, l, q)
  PROVE  Row(d, s, e, v, [l EXCEPT ![w] = Open(other)], q)
<1> DEFINE more == [l EXCEPT ![w] = Open(other)]
<1>1. /\ more \in [Works -> Dependency \cup {NotLinked}]
      /\ more[w].by = 0
      /\ \A u \in Works \ {w} : more[u] = l[u]
  BY RowFacts, OpenFits
<1> HIDE DEF more
<1>2. Typed(d, s, e, v, more)
  BY <1>1 DEF Row, Typed
<1>3. \A u \in Works : more[u] # NotLinked => more[u].by <= Len(s)
  <2> TAKE u \in Works
  <2>1. CASE u = w  BY <2>1, <1>1, RowFacts
  <2>2. CASE u # w  BY <2>2, <1>1 DEF Row, Fits
  <2> QED BY <2>1, <2>2
<1>4. Fits(d, s, e, v, more)
  BY <1>3 DEF Row, Fits
<1>5. Satisfies(d, s, e, more, q)
  <2> SUFFICES ASSUME NEW u \in Works, more[u] # NotLinked, more[u].by > 0
               PROVE  /\ more[u].by = Len(s) /\ Len(s) \in e
                      /\ q \notin SectionRequests => Answers(d, s)
    BY DEF Satisfies
  <2>1. u # w
    BY <1>1
  <2> QED BY <2>1, <1>1 DEF Row, Satisfies
<1> QED BY <1>2, <1>4, <1>5 DEF Row, more

\* An answer that is saved: its review in the queue, to the wording of d.
Fresh(d, text, source) ==
  [text |-> text, source |-> source, revision |-> d.revision,
   status |-> "ready", owner |-> Queue]
Extended(d, s, text, source) == Append(Superseded(s), Fresh(d, text, source))

LEMMA FreshFits ==
  ASSUME NEW d \in Definition, d.revision > 0, NEW text \in Texts, NEW source \in {"ui", "file"}
  PROVE  /\ Fresh(d, text, source) \in Reply
         /\ Fresh(d, text, source).revision = d.revision
         /\ Fresh(d, text, source).text = text
         /\ Fresh(d, text, source).source = source
<1>1. d.revision \in 1..MaxRevisions
  BY InputBoundsAreNat DEF Definition
<1>2. Fresh(d, text, source) \in Reply
  BY <1>1 DEF Fresh, Reply, WorkStates, Active, Owners
<1>3. /\ Fresh(d, text, source).revision = d.revision
      /\ Fresh(d, text, source).text = text
      /\ Fresh(d, text, source).source = source
  BY DEF Fresh
<1> QED BY <1>2, <1>3

\* Cancelling the review of the last answer leaves all else about them alone.
LEMMA SupersededFits ==
  ASSUME NEW s \in Seq(Reply)
  PROVE  /\ Superseded(s) \in Seq(Reply)
         /\ Len(Superseded(s)) = Len(s)
         /\ \A n \in 1..Len(s) : Superseded(s)[n].revision = s[n].revision
<1>1. DOMAIN s = 1..Len(s) /\ Len(s) \in Nat
  BY LenProperties
<1>2. \A n \in 1..Len(s) : s[n] \in Reply
  BY ElementOfSeq
<1>3. \A n \in 1..Len(s) : /\ Taken(s[n], "cancelled", s[n].owner) \in Reply
                           /\ Taken(s[n], "cancelled", s[n].owner).revision = s[n].revision
  <2> TAKE n \in 1..Len(s)
  <2>1. s[n] \in Reply /\ s[n].owner \in Owners
    BY <1>2 DEF Reply
  <2>2. "cancelled" \in WorkStates
    BY DEF WorkStates
  <2> QED BY <2>1, <2>2, TakenFits
<1>4. \A n \in 1..Len(s) : \/ Superseded(s)[n] = s[n]
                           \/ Superseded(s)[n] = Taken(s[n], "cancelled", s[n].owner)
  BY <1>1 DEF Superseded
<1>5. \A n \in 1..Len(s) : Superseded(s)[n] \in Reply
  BY <1>2, <1>3, <1>4
<1>6. Superseded(s) \in [1..Len(s) -> Reply]
  BY <1>1, <1>5 DEF Superseded
<1>7. Superseded(s) \in Seq(Reply) /\ Len(Superseded(s)) = Len(s)
  BY <1>1, <1>6
<1>8. \A n \in 1..Len(s) : Superseded(s)[n].revision = s[n].revision
  BY <1>3, <1>4
<1> QED BY <1>7, <1>8

LEMMA ExtendedFits ==
  ASSUME NEW d \in Definition, d.revision > 0, NEW text \in Texts, NEW source \in {"ui", "file"},
         NEW s \in Seq(Reply)
  PROVE  /\ Extended(d, s, text, source) \in Seq(Reply)
         /\ Len(Extended(d, s, text, source)) = Len(s) + 1
         /\ Extended(d, s, text, source)[Len(s) + 1] = Fresh(d, text, source)
         /\ \A n \in 1..Len(s) : Extended(d, s, text, source)[n] = Superseded(s)[n]
<1>1. Fresh(d, text, source) \in Reply
  BY FreshFits
<1>2. Superseded(s) \in Seq(Reply) /\ Len(Superseded(s)) = Len(s)
  BY SupersededFits
<1> QED BY <1>1, <1>2, AppendProperties DEF Extended

\* Submit and Sync: the new answer waits for its review.
LEMMA Answered ==
  ASSUME NEW d, NEW s, NEW e, NEW v, NEW l, NEW q, NEW text \in Texts, NEW source \in {"ui", "file"},
         Row(d, s, e, v, l, q),
         d.status # "absent", Len(s) < MaxReplies
  PROVE  Row(InStatus(d, "ready_for_review"), Extended(d, s, text, source), e, v, Opened(l), q)
<1> DEFINE new  == InStatus(d, "ready_for_review")
           more == Extended(d, s, text, source)
<1>1. new \in Definition /\ new.status = "ready_for_review" /\ new.revision = d.revision
  BY RowFacts, StatusFits DEF Statuses
<1>2. d.revision > 0
  BY DEF Row, Fits
<1>3. /\ more \in Seq(Reply)
      /\ Len(more) = Len(s) + 1
      /\ more[Len(s) + 1] = Fresh(d, text, source)
      /\ \A n \in 1..Len(s) : more[n] = Superseded(s)[n]
  BY <1>2, RowFacts, ExtendedFits
<1> HIDE DEF new, more
<1>4. Fresh(d, text, source).revision = d.revision
  BY <1>2, RowFacts, FreshFits
<1>5. Typed(new, more, e, v, Opened(l))
  BY <1>1, <1>3, RowFacts, OpenedFits DEF Row, Typed
<1>6. \A n \in 1..Len(s) : more[n].revision = s[n].revision
  BY <1>3, RowFacts, SupersededFits
<1>7. Fits(new, more, e, v, Opened(l))
  <2>1. new.status # "absent" /\ new.revision > 0
    BY <1>1, <1>2
  <2>2. Len(more) <= MaxReplies
    BY <1>3, RowFacts, InputBoundsAreNat
  <2>3. \A n \in 1..Len(more) : n = Len(s) + 1 \/ n \in 1..Len(s)
    BY <1>3, RowFacts
  <2>4. \A n \in 1..Len(s) : more[n].revision <= new.revision
    BY <1>1, <1>6, RowFacts
  <2>5. more[Len(s) + 1].revision <= new.revision
    BY <1>1, <1>3, <1>4, RowFacts
  <2>6. \A n \in 1..Len(more) : more[n].revision <= new.revision
    BY <2>3, <2>4, <2>5
  <2>7. v.of <= Len(more)
    <3>1. v.of \in Nat /\ v.of <= Len(s)
      BY RowFacts, InputBoundsAreNat DEF Verdict
    <3> QED BY <3>1, <1>3, RowFacts
  <2>8. e \subseteq 1..Len(more)
    BY <1>3, RowFacts
  <2>9. \A w \in Works : Opened(l)[w] # NotLinked => Opened(l)[w].by <= Len(more)
    BY <1>3, RowFacts, OpenedFits
  <2> QED BY <2>1, <2>2, <2>6, <2>7, <2>8, <2>9 DEF Fits
<1>8. Satisfies(new, more, e, Opened(l), q)
  BY RowFacts, OpenedFits DEF Satisfies
<1>9. Outcome(new, more, v, q) /\ Waits(new, more)
  BY <1>1 DEF Outcome, Waits, Reviewed
<1> QED BY <1>5, <1>7, <1>8, <1>9 DEF Row, new, more

\* The review work of one answer in another state.
Marked(s, n, status, owner) == [s EXCEPT ![n] = Taken(s[n], status, owner)]

LEMMA MarkedFits ==
  ASSUME NEW s \in Seq(Reply), NEW n \in 1..Len(s),
         NEW status \in WorkStates,
         NEW owner \in Owners
  PROVE  /\ Marked(s, n, status, owner) \in Seq(Reply)
         /\ Len(Marked(s, n, status, owner)) = Len(s)
         /\ \A m \in 1..Len(s) : Marked(s, n, status, owner)[m].revision = s[m].revision
<1>1. s[n] \in Reply
  BY ElementOfSeq
<1> DEFINE answer == Taken(s[n], status, owner)
<1>2. answer \in Reply /\ answer.revision = s[n].revision
  BY <1>1, TakenFits
<1> HIDE DEF answer
<1>3. /\ [s EXCEPT ![n] = answer] \in Seq(Reply)
      /\ Len([s EXCEPT ![n] = answer]) = Len(s)
      /\ \A m \in 1..Len(s) : [s EXCEPT ![n] = answer][m] = IF m = n THEN answer ELSE s[m]
  BY <1>2, ExceptSeq
<1>4. Marked(s, n, status, owner) = [s EXCEPT ![n] = answer]
  BY DEF Marked, answer
<1> QED BY <1>2, <1>3, <1>4

\* Claims, releases and the general operations move the review work of an answer;
\* the request stays as it is, or has its current answer under review again.
LEMMA Reassigned ==
  ASSUME NEW d, NEW s, NEW e, NEW v, NEW l, NEW q, NEW n \in 1..Len(s),
         NEW status \in WorkStates, NEW owner \in Owners, NEW new,
         Row(d, s, e, v, l, q),
         \/ new = d
         \/ \E x \in {"ready_for_review", "reviewing"} : new = InStatus(d, x)
  PROVE  Row(new, Marked(s, n, status, owner), e, v, l, q)
<1> DEFINE after == Marked(s, n, status, owner)
<1>0. s \in Seq(Reply)
  BY RowFacts
<1>1. /\ after \in Seq(Reply)
      /\ Len(after) = Len(s)
      /\ \A m \in 1..Len(s) : after[m].revision = s[m].revision
  BY <1>0, MarkedFits
<1> HIDE DEF after
<1>2. Len(s) > 0 /\ Len(s) \in 1..Len(s) /\ d.status # "absent"
  BY RowFacts
<1>3. d \in Definition
  BY RowFacts
<1>4. \A x \in {"ready_for_review", "reviewing"} :
        /\ InStatus(d, x) \in Definition
        /\ InStatus(d, x).status = x
        /\ InStatus(d, x).revision = d.revision
  BY <1>3, StatusFits DEF Statuses
<1>5. /\ new \in Definition /\ new.revision = d.revision /\ new.status # "absent"
      /\ new = d \/ new.status \in {"ready_for_review", "reviewing"}
  BY <1>2, <1>3, <1>4
<1>6. Typed(new, after, e, v, l)
  BY <1>1, <1>5 DEF Row, Typed
<1>7. Fits(new, after, e, v, l)
  <2>1. d.revision > 0
    BY <1>2 DEF Row, Fits
  <2>2. \A m \in 1..Len(s) : after[m].revision <= new.revision
    BY <1>1, <1>5, RowFacts
  <2> QED BY <1>1, <1>5, <2>1, <2>2 DEF Row, Fits
<1>8. Answers(new, after) <=> Answers(d, s)
  BY <1>1, <1>2, <1>5 DEF Answers
<1>9. Satisfies(new, after, e, l, q)
  BY <1>1, <1>8 DEF Row, Satisfies
<1>10. Outcome(new, after, v, q) /\ Waits(new, after)
  <2>1. CASE new = d
    BY <2>1, <1>1, <1>8 DEF Row, Outcome, Waits
  <2>2. CASE new.status \in {"ready_for_review", "reviewing"}
    BY <2>2 DEF Outcome, Waits, Reviewed
  <2> QED BY <1>5, <2>1, <2>2
<1> QED BY <1>6, <1>7, <1>9, <1>10 DEF Row, after

\* A review that finds an answer sufficient is remembered with the answer.
LEMMA Remembered ==
  ASSUME NEW d, NEW s, NEW e, NEW v, NEW l, NEW q, NEW n \in 1..Len(s), NEW outcome,
         Row(d, s, e, v, l, q)
  PROVE  Row(d, s, Found(e, n, outcome), v, l, q)
<1> DEFINE new == Found(e, n, outcome)
<1>1. e \subseteq new /\ new \subseteq e \cup {n}
  BY DEF Found
<1> HIDE DEF new
<1>2. new \subseteq 1..Len(s)
  BY <1>1, RowFacts
<1>3. new \in SUBSET (1..MaxReplies)
  BY <1>2, RowFacts, InputBoundsAreNat
<1>4. Typed(d, s, new, v, l) /\ Fits(d, s, new, v, l)
  BY <1>2, <1>3 DEF Row, Typed, Fits
<1>5. Satisfies(d, s, new, l, q)
  BY <1>1 DEF Row, Satisfies
<1> QED BY <1>4, <1>5 DEF Row, new

\* Complete, for the current answer to the current wording: the request shows
\* the outcome, which is remembered as its verdict.
LEMMA Judged ==
  ASSUME NEW d, NEW s, NEW e, NEW v, NEW l, NEW q, NEW outcome \in Outcomes,
         Row(d, s, e, v, l, q), Len(s) > 0, Answers(d, s)
  PROVE  Row(InStatus(d, StatusAfter(outcome)), s, e, [of |-> Len(s), outcome |-> outcome], l, q)
<1> DEFINE x   == StatusAfter(outcome)
           new == InStatus(d, x)
           u   == [of |-> Len(s), outcome |-> outcome]
<1>1. x \in Reviewed
  BY DEF StatusAfter, Reviewed, Outcomes
<1>2. u \in Verdict /\ u.of = Len(s) /\ x = StatusAfter(u.outcome)
  BY RowFacts, InputBoundsAreNat DEF Verdict
<1> HIDE DEF x
<1>3. x \in Statuses /\ x # "absent" /\ x # "waiting_for_answer"
  BY <1>1 DEF Statuses, Reviewed
<1>4. new \in Definition /\ new.status = x /\ new.revision = d.revision /\ d.status # "absent"
  BY <1>3, RowFacts, StatusFits
<1> HIDE DEF new, u
<1>5. Answers(new, s)
  BY <1>4 DEF Answers
<1>6. Typed(new, s, e, u, l)
  BY <1>2, <1>4 DEF Row, Typed
<1>7. Fits(new, s, e, u, l)
  <2>1. d.revision > 0 /\ \A n \in 1..Len(s) : s[n].revision <= new.revision
    BY <1>4 DEF Row, Fits
  <2> QED BY <1>2, <1>3, <1>4, <2>1, RowFacts DEF Row, Fits
<1>8. Satisfies(new, s, e, l, q)
  BY <1>5 DEF Row, Satisfies
<1>9. Outcome(new, s, u, q) /\ Waits(new, s)
  BY <1>2, <1>3, <1>4, <1>5 DEF Outcome, Waits
<1> QED BY <1>6, <1>7, <1>8, <1>9 DEF Row, new, u, x

\* Complete: dependencies may count as answered by a current answer that was
\* found sufficient.
LEMMA Settled ==
  ASSUME NEW d, NEW s, NEW e, NEW v, NEW l, NEW q, NEW closes \in SUBSET Works,
         Row(d, s, e, v, l, q), Len(s) > 0, Answers(d, s), Len(s) \in e,
         \A w \in closes : l[w] # NotLinked
  PROVE  Row(d, s, e, v, Met(l, closes, Len(s)), q)
<1> DEFINE links == Met(l, closes, Len(s))
<1>1. \A w \in closes : l[w] \in Dependency /\ l[w].other \in BOOLEAN
  BY RowFacts DEF Dependency
<1>2. \A w \in closes : /\ [by |-> Len(s), other |-> l[w].other] \in Dependency
                        /\ [by |-> Len(s), other |-> l[w].other].by = Len(s)
  BY <1>1, RowFacts, InputBoundsAreNat DEF Dependency
<1>3. \A w \in Works : links[w] = IF w \in closes
                                   THEN [by |-> Len(s), other |-> l[w].other] ELSE l[w]
  BY DEF Met
<1>4. \A w \in Works : links[w] \in Dependency \cup {NotLinked}
  <2>0. l \in [Works -> Dependency \cup {NotLinked}]
    BY RowFacts
  <2> TAKE w \in Works
  <2>1. CASE w \in closes     BY <2>1, <1>3, <1>2
  <2>2. CASE w \notin closes  BY <2>2, <1>3, <2>0
  <2> QED BY <2>1, <2>2
<1>5. links \in [Works -> Dependency \cup {NotLinked}]
  BY <1>4 DEF Met
<1>6. \A w \in closes : links[w].by = Len(s)
  BY <1>2, <1>3
<1>7. \A w \in Works \ closes : links[w] = l[w]
  BY <1>3
<1> HIDE DEF links
<1>8. \A w \in Works : links[w] # NotLinked => links[w].by <= Len(s)
  <2> TAKE w \in Works
  <2>1. CASE w \in closes     BY <2>1, <1>6, RowFacts
  <2>2. CASE w \notin closes  BY <2>2, <1>7 DEF Row, Fits
  <2> QED BY <2>1, <2>2
<1>9. Typed(d, s, e, v, links) /\ Fits(d, s, e, v, links)
  BY <1>5, <1>8 DEF Row, Typed, Fits
<1>10. Satisfies(d, s, e, links, q)
  BY <1>6, <1>7 DEF Row, Satisfies
<1> QED BY <1>9, <1>10 DEF Row, links

-----------------------------------------------------------------------------
(* Part 2: all rows. *)

\* The rows are what the type invariant and the counts look at.
LEMMA InvImpliesTypeOK == Inv => TypeOK
<1> SUFFICES ASSUME Inv PROVE TypeOK
  OBVIOUS
<1>1. \A r \in Requests :
        /\ Exists(r) <=> request[r].revision > 0
        /\ Current(r) <= MaxReplies
        /\ \A n \in 1..Current(r) : reply[r][n].revision <= request[r].revision
        /\ sufficient[r] \subseteq 1..Current(r)
        /\ verdict[r].of <= Current(r)
  BY DEF Inv, RowOf, Row, Fits, Exists, Current
<1>2. \A r \in Requests, w \in Works : dep[r][w] # NotLinked => dep[r][w].by <= Current(r)
  BY DEF Inv, RowOf, Row, Fits, Current
<1> QED BY <1>1, <1>2 DEF Inv, Shape, FileShape, TypeOK

LEMMA InvImpliesCounts == Inv => CurrentAnswerCounts
<1> SUFFICES ASSUME Inv PROVE CurrentAnswerCounts
  OBVIOUS
<1>1. \A r \in Requests : Row(request[r], reply[r], sufficient[r], verdict[r], dep[r], r)
  BY DEF Inv, RowOf
<1>2. \A r \in Requests : Answers(request[r], reply[r]) <=> AnswersQuestion(r, Current(r))
  BY DEF Answers, AnswersQuestion, Current
<1>3. SatisfiedByCurrentAnswer
  <2> SUFFICES ASSUME NEW r \in Requests, NEW w \in Works,
                      dep[r][w] # NotLinked /\ dep[r][w].by > 0
               PROVE  /\ dep[r][w].by = Current(r)
                      /\ Current(r) \in sufficient[r]
                      /\ r \notin SectionRequests => AnswersQuestion(r, Current(r))
    BY DEF SatisfiedByCurrentAnswer
  <2>1. Satisfies(request[r], reply[r], sufficient[r], dep[r], r)
    BY <1>1 DEF Row
  <2> QED BY <2>1, <1>2 DEF Satisfies, Current
<1>4. OutcomeIsOfCurrentAnswer
  <2> SUFFICES ASSUME NEW r \in Requests, request[r].status \in Reviewed
               PROVE  /\ Current(r) > 0 /\ verdict[r].of = Current(r)
                      /\ request[r].status = StatusAfter(verdict[r].outcome)
                      /\ r \notin SectionRequests => AnswersQuestion(r, Current(r))
    BY DEF OutcomeIsOfCurrentAnswer
  <2>1. Outcome(request[r], reply[r], verdict[r], r)
    BY <1>1 DEF Row
  <2> QED BY <2>1, <1>2 DEF Outcome, Current
<1>5. WaitsOnlyUnanswered
  <2> SUFFICES ASSUME NEW r \in Requests,
                      request[r].status = "waiting_for_answer" /\ Current(r) > 0
               PROVE  ~AnswersQuestion(r, Current(r))
    BY DEF WaitsOnlyUnanswered
  <2>1. Waits(request[r], reply[r])
    BY <1>1 DEF Row
  <2> QED BY <2>1, <1>2 DEF Waits, Current
<1> QED BY <1>3, <1>4, <1>5 DEF CurrentAnswerCounts

\* A step that rewrites the row of one request keeps the rows if the new one fits.
LEMMA Rewritten ==
  ASSUME Inv, NEW r \in Requests, NEW d, NEW s, NEW e, NEW v, NEW l, Row(d, s, e, v, l, r),
         request' = [request EXCEPT ![r] = d],
         reply' = [reply EXCEPT ![r] = s],
         sufficient' = [sufficient EXCEPT ![r] = e],
         verdict' = [verdict EXCEPT ![r] = v],
         dep' = [dep EXCEPT ![r] = l],
         blocked' \in [Works -> Held]
  PROVE  Shape' /\ \A q \in Requests : RowOf(q)'
<1>1. Shape
  BY DEF Inv
<1>2. Typed(d, s, e, v, l)
  BY DEF Row
<1>3. request' \in [Requests -> Definition]
  BY <1>1, <1>2 DEF Shape, Typed
<1>4. reply' \in [Requests -> Seq(Reply)]
  BY <1>1, <1>2 DEF Shape, Typed
<1>5. /\ sufficient' \in [Requests -> SUBSET (1..MaxReplies)]
      /\ verdict' \in [Requests -> Verdict]
  BY <1>1, <1>2 DEF Shape, Typed
<1>6. dep' \in [Requests -> [Works -> Dependency \cup {NotLinked}]]
  BY <1>1, <1>2 DEF Shape, Typed
<1>7. Shape'
  BY <1>3, <1>4, <1>5, <1>6 DEF Shape
<1>8. RowOf(r)'
  <2>1. /\ request'[r] = d /\ reply'[r] = s /\ dep'[r] = l
        /\ sufficient'[r] = e /\ verdict'[r] = v
    BY <1>1 DEF Shape
  <2> QED BY <2>1 DEF RowOf
<1>9. ASSUME NEW q \in Requests, q # r
      PROVE  RowOf(q)'
  <2>1. /\ request'[q] = request[q] /\ reply'[q] = reply[q]
        /\ sufficient'[q] = sufficient[q] /\ verdict'[q] = verdict[q] /\ dep'[q] = dep[q]
    BY <1>9, <1>1 DEF Shape
  <2> QED BY <2>1 DEF Inv, RowOf
<1> QED BY <1>7, <1>8, <1>9

\* The parts of a row that a step leaves alone.
LEMMA SameRequest ==
  ASSUME Inv, NEW r \in Requests
  PROVE  request = [request EXCEPT ![r] = request[r]]
BY DEF Inv, Shape

LEMMA SameReply ==
  ASSUME Inv, NEW r \in Requests
  PROVE  reply = [reply EXCEPT ![r] = reply[r]]
BY DEF Inv, Shape

LEMMA SameFindings ==
  ASSUME Inv, NEW r \in Requests
  PROVE  /\ sufficient = [sufficient EXCEPT ![r] = sufficient[r]]
         /\ verdict = [verdict EXCEPT ![r] = verdict[r]]
BY DEF Inv, Shape

LEMMA SameLinks ==
  ASSUME Inv, NEW r \in Requests
  PROVE  dep = [dep EXCEPT ![r] = dep[r]]
BY DEF Inv, Shape

-----------------------------------------------------------------------------
(* Part 3: what each operation does to the rows. *)

\* Create: a request that was absent has no replies, and so nothing to contradict.
LEMMA Created ==
  ASSUME NEW d, NEW s, NEW e, NEW v, NEW l, NEW q, Row(d, s, e, v, l, q), d.status = "absent"
  PROVE  Row([status |-> "waiting_for_answer", revision |-> 1], s, e, v, l, q)
<1> DEFINE new == [status |-> "waiting_for_answer", revision |-> 1]
<1>1. new \in Definition /\ new.status = "waiting_for_answer" /\ new.revision = 1
  BY InputBoundsAreNat DEF Definition, Statuses
<1> HIDE DEF new
<1>2. Len(s) = 0
  BY RowFacts
<1>3. Typed(new, s, e, v, l)
  BY <1>1 DEF Row, Typed
<1>4. Fits(new, s, e, v, l)
  <2>1. new.status # "absent" /\ new.revision > 0
    BY <1>1
  <2>2. \A n \in 1..Len(s) : FALSE
    BY <1>2
  <2> QED BY <2>1, <2>2 DEF Fits, Row
<1>5. \A w \in Works : l[w] # NotLinked => ~(l[w].by > 0)
  <2> TAKE w \in Works
  <2> HAVE l[w] # NotLinked
  <2>1. l[w].by \in Nat
    BY RowFacts, InputBoundsAreNat DEF Dependency
  <2>2. l[w].by <= 0
    BY <1>2 DEF Row, Fits
  <2> QED BY <2>1, <2>2
<1>6. Satisfies(new, s, e, l, q)
  BY <1>5 DEF Satisfies
<1>7. Outcome(new, s, v, q) /\ Waits(new, s)
  BY <1>1, <1>2 DEF Outcome, Waits, Reviewed
<1> QED BY <1>3, <1>4, <1>6, <1>7 DEF Row, new

LEMMA RowIs ==
  ASSUME Inv, NEW r \in Requests
  PROVE  /\ Row(request[r], reply[r], sufficient[r], verdict[r], dep[r], r)
         /\ Current(r) = Len(reply[r])
BY DEF Inv, RowOf, Current

LEMMA BlockedStays ==
  ASSUME Inv, blocked' = blocked
  PROVE  blocked' \in [Works -> Held]
BY DEF Inv, Shape

LEMMA CreateRows ==
  ASSUME Inv, NEW r \in Requests, Create(r)
  PROVE  Shape' /\ \A q \in Requests : RowOf(q)'
<1> DEFINE d == [status |-> "waiting_for_answer", revision |-> 1]
<1>1. Row(d, reply[r], sufficient[r], verdict[r], dep[r], r)
  BY RowIs, Created DEF Create, Exists
<1>2. request' = [request EXCEPT ![r] = d]
  BY DEF Create
<1> HIDE DEF d
<1>3. /\ reply' = [reply EXCEPT ![r] = reply[r]]
      /\ sufficient' = [sufficient EXCEPT ![r] = sufficient[r]]
      /\ verdict' = [verdict EXCEPT ![r] = verdict[r]]
      /\ dep' = [dep EXCEPT ![r] = dep[r]]
  BY SameReply, SameFindings, SameLinks DEF Create
<1>4. blocked' \in [Works -> Held]
  BY BlockedStays DEF Create
<1> QED BY <1>1, <1>2, <1>3, <1>4, Rewritten

LEMMA RedefineRows ==
  ASSUME Inv, NEW r \in Requests, Redefine(r)
  PROVE  Shape' /\ \A q \in Requests : RowOf(q)'
<1> DEFINE d == [status |-> "waiting_for_answer", revision |-> request[r].revision + 1]
<1>1. Row(d, reply[r], sufficient[r], verdict[r], Opened(dep[r]), r)
  BY RowIs, Reworded DEF Redefine, Exists
<1>2. request' = [request EXCEPT ![r] = d]
  BY DEF Redefine
<1> HIDE DEF d
<1>3. /\ reply' = [reply EXCEPT ![r] = reply[r]]
      /\ sufficient' = [sufficient EXCEPT ![r] = sufficient[r]]
      /\ verdict' = [verdict EXCEPT ![r] = verdict[r]]
      /\ dep' = [dep EXCEPT ![r] = Opened(dep[r])]
  BY SameReply, SameFindings DEF Redefine, Invalidated
<1>4. blocked' \in [Works -> Held]
  BY BlockedStays DEF Redefine
<1> QED BY <1>1, <1>2, <1>3, <1>4, Rewritten

LEMMA SectionRows ==
  ASSUME Inv, NEW r \in SectionRequests, SectionChanges(r)
  PROVE  Shape' /\ \A q \in Requests : RowOf(q)'
<1> DEFINE d == [status |-> request[r].status, revision |-> request[r].revision + 1]
<1>0. r \in Requests
  BY FileOrSection
<1>1. Row(d, reply[r], sufficient[r], verdict[r], dep[r], r)
  BY <1>0, RowIs, SectionReworded DEF SectionChanges, Exists
<1>2. request' = [request EXCEPT ![r] = d]
  BY DEF SectionChanges
<1> HIDE DEF d
<1>3. /\ reply' = [reply EXCEPT ![r] = reply[r]]
      /\ sufficient' = [sufficient EXCEPT ![r] = sufficient[r]]
      /\ verdict' = [verdict EXCEPT ![r] = verdict[r]]
      /\ dep' = [dep EXCEPT ![r] = dep[r]]
  BY <1>0, SameReply, SameFindings, SameLinks DEF SectionChanges
<1>4. blocked' \in [Works -> Held]
  BY BlockedStays DEF SectionChanges
<1> QED BY <1>0, <1>1, <1>2, <1>3, <1>4, Rewritten

LEMMA LinkRows ==
  ASSUME Inv, NEW r \in Requests, NEW w \in Works, NEW other \in BOOLEAN,
         LinkDependency(r, w, other)
  PROVE  Shape' /\ \A q \in Requests : RowOf(q)'
<1> DEFINE l == [dep[r] EXCEPT ![w] = Open(other)]
<1>1. Row(request[r], reply[r], sufficient[r], verdict[r], l, r)
  BY RowIs, Linked
<1>2. dep' = [dep EXCEPT ![r] = l]
  BY DEF LinkDependency
<1> HIDE DEF l
<1>3. /\ request' = [request EXCEPT ![r] = request[r]]
      /\ reply' = [reply EXCEPT ![r] = reply[r]]
      /\ sufficient' = [sufficient EXCEPT ![r] = sufficient[r]]
      /\ verdict' = [verdict EXCEPT ![r] = verdict[r]]
  BY SameRequest, SameReply, SameFindings DEF LinkDependency
<1>4. blocked' \in [Works -> Held]
  BY BlockedStays DEF LinkDependency
<1> QED BY <1>1, <1>2, <1>3, <1>4, Rewritten

LEMMA MoveHeldRows ==
  ASSUME Inv, NEW w \in Works, NEW state \in Held, MoveHeldWork(w, state)
  PROVE  Shape' /\ \A q \in Requests : RowOf(q)'
BY DEF Inv, Shape, MoveHeldWork, RowOf

LEMMA SubmitRows ==
  ASSUME Inv, NEW r \in Requests, NEW text \in Texts, Submit(r, text)
  PROVE  Shape' /\ \A q \in Requests : RowOf(q)'
<1> DEFINE d == InStatus(request[r], "ready_for_review")
           s == Extended(request[r], reply[r], text, "ui")
<1>1. Row(d, s, sufficient[r], verdict[r], Opened(dep[r]), r)
  BY RowIs, Answered DEF Submit, Exists
<1>2. request' = [request EXCEPT ![r] = d]
  BY DEF Submit, Shows
<1>3. reply' = [reply EXCEPT ![r] = s]
  BY DEF Submit, Saved, Extended, Fresh
<1> HIDE DEF d, s
<1>4. /\ sufficient' = [sufficient EXCEPT ![r] = sufficient[r]]
      /\ verdict' = [verdict EXCEPT ![r] = verdict[r]]
      /\ dep' = [dep EXCEPT ![r] = Opened(dep[r])]
  BY SameFindings DEF Submit, Invalidated
<1>5. blocked' \in [Works -> Held]
  BY BlockedStays DEF Submit
<1> QED BY <1>1, <1>2, <1>3, <1>4, <1>5, Rewritten

\* Review work changes hands: the part that all operations on it share.
LEMMA HandedRows ==
  ASSUME Inv, NEW r \in Requests, NEW n \in 1..Current(r),
         NEW status \in WorkStates, NEW owner \in Owners,
         reply' = Handed(r, n, status, owner),
         \/ request' = request
         \/ \E x \in {"ready_for_review", "reviewing"} : request' = Shows(r, x),
         UNCHANGED <<dep, blocked, sufficient, verdict>>
  PROVE  Shape' /\ \A q \in Requests : RowOf(q)'
<1> DEFINE s == Marked(reply[r], n, status, owner)
<1>1. Row(request[r], reply[r], sufficient[r], verdict[r], dep[r], r) /\ n \in 1..Len(reply[r])
  BY RowIs
<1>2. PICK d : /\ request' = [request EXCEPT ![r] = d]
               /\ \/ d = request[r]
                  \/ \E x \in {"ready_for_review", "reviewing"} : d = InStatus(request[r], x)
  <2>1. CASE request' = request
    <3>1. request' = [request EXCEPT ![r] = request[r]]
      BY <2>1, SameRequest
    <3> QED BY <3>1
  <2>2. CASE \E x \in {"ready_for_review", "reviewing"} : request' = Shows(r, x)
    BY <2>2 DEF Shows
  <2> QED BY <2>1, <2>2
<1>3. Row(d, s, sufficient[r], verdict[r], dep[r], r)
  BY <1>1, <1>2, Reassigned
<1>4. reply' = [reply EXCEPT ![r] = s]
  BY DEF Handed, Marked, Inv, Shape
<1> HIDE DEF s
<1>5. /\ sufficient' = [sufficient EXCEPT ![r] = sufficient[r]]
      /\ verdict' = [verdict EXCEPT ![r] = verdict[r]]
      /\ dep' = [dep EXCEPT ![r] = dep[r]]
  BY SameFindings, SameLinks
<1>6. blocked' \in [Works -> Held]
  BY BlockedStays
<1>7. request' = [request EXCEPT ![r] = d]
  BY <1>2
<1>8. reply' = [reply EXCEPT ![r] = s]
  BY <1>4
<1>9. Shape' /\ \A q \in Requests : RowOf(q)'
  BY ONLY Inv, <1>3, <1>5, <1>6, <1>7, <1>8, Rewritten, r \in Requests
<1> QED BY <1>9

LEMMA ClaimRows ==
  ASSUME Inv, NEW r \in Requests, NEW a \in Owners, Claim(r, a)
  PROVE  Shape' /\ \A q \in Requests : RowOf(q)'
<1>1. Current(r) \in 1..Current(r)
  BY RowIs, RowFacts DEF Claim
<1>2. "in_progress" \in WorkStates
  BY DEF WorkStates, Active
<1>3. reply' = Handed(r, Current(r), "in_progress", a)
  BY DEF Claim, Claimed
<1>4. request' = Shows(r, "reviewing") /\ UNCHANGED <<dep, blocked, sufficient, verdict>>
  BY DEF Claim
<1> QED BY <1>1, <1>2, <1>3, <1>4, HandedRows

LEMMA ReleaseRows ==
  ASSUME Inv, NEW r \in Requests, NEW n \in 1..Current(r), NEW a \in Owners, Release(r, n, a)
  PROVE  Shape' /\ \A q \in Requests : RowOf(q)'
<1>1. "ready" \in WorkStates /\ Queue \in Owners
  BY DEF WorkStates, Active, Owners
<1>2. reply' = Handed(r, n, "ready", Queue)
  BY DEF Release, Requeued
<1>3. request' = request \/ request' = Shows(r, "ready_for_review")
  BY DEF Release
<1>4. UNCHANGED <<dep, blocked, sufficient, verdict>>
  BY DEF Release
<1> QED BY <1>1, <1>2, <1>3, <1>4, HandedRows

\* What the general operations have in common.
Moved(r, n) ==
  \/ \E a \in Owners : ClaimAsWork(r, n, a) \/ ReleaseAsWork(r, n, a)
  \/ CloseAsWork(r, n) \/ FinishAsWork(r, n)
  \/ \E status \in {"blocked", "ready", "cancelled"} : TreatWork(r, n, status)
  \/ \E status \in WorkStates : SetWorkStatus(r, n, status)

LEMMA GeneralMoves ==
  ASSUME Inv, NEW r \in Requests, NEW n \in 1..Current(r), Moved(r, n)
  PROVE  \E status \in WorkStates, owner \in Owners : MoveReview(r, n, status, owner)
<1>0. /\ {"in_progress", "ready", "done", "cancelled", "blocked"} \subseteq WorkStates
      /\ Queue \in Owners
  BY DEF WorkStates, Active, Owners
<1>1. reply[r][n].owner \in Owners
  BY RowIs, RowFacts DEF Reply
<1>2. ASSUME NEW a \in Owners, ClaimAsWork(r, n, a) \/ ReleaseAsWork(r, n, a)
      PROVE  MoveReview(r, n, "in_progress", a) \/ MoveReview(r, n, "ready", Queue)
  BY <1>2 DEF ClaimAsWork, ReleaseAsWork
<1>3. ASSUME CloseAsWork(r, n) \/ FinishAsWork(r, n)
      PROVE  \E status \in {"cancelled", "done"} : MoveReview(r, n, status, reply[r][n].owner)
  BY <1>3 DEF CloseAsWork, FinishAsWork
<1>4. ASSUME NEW status \in WorkStates, TreatWork(r, n, status) \/ SetWorkStatus(r, n, status)
      PROVE  MoveReview(r, n, status, reply[r][n].owner)
  BY <1>4 DEF TreatWork, SetWorkStatus
<1> QED BY <1>0, <1>1, <1>2, <1>3, <1>4 DEF Moved

LEMMA MoveReviewRows ==
  ASSUME Inv, NEW r \in Requests, NEW n \in 1..Current(r),
         NEW status \in WorkStates, NEW owner \in Owners, MoveReview(r, n, status, owner)
  PROVE  Shape' /\ \A q \in Requests : RowOf(q)'
<1>1. /\ reply' = Handed(r, n, status, owner)
      /\ request' = request
      /\ UNCHANGED <<dep, blocked, sufficient, verdict>>
  BY DEF MoveReview
<1> QED BY <1>1, HandedRows

LEMMA CompleteRows ==
  ASSUME Inv, NEW r \in Requests, NEW n \in 1..Current(r), NEW a \in Owners,
         NEW outcome \in Outcomes, NEW closes \in SUBSET Works,
         Complete(r, n, a, outcome, closes)
  PROVE  Shape' /\ \A q \in Requests : RowOf(q)'
<1> DEFINE s == Marked(reply[r], n, "done", a)
           e == Found(sufficient[r], n, outcome)
<1>0. Row(request[r], reply[r], sufficient[r], verdict[r], dep[r], r) /\ n \in 1..Len(reply[r])
  BY RowIs
<1>1. /\ Len(s) = Len(reply[r])
      /\ Answers(request[r], s) <=> Answers(request[r], reply[r])
  <2>1. "done" \in WorkStates /\ reply[r] \in Seq(Reply) /\ Len(reply[r]) \in 1..Len(reply[r])
    BY <1>0, RowFacts DEF WorkStates
  <2>2. /\ Len(s) = Len(reply[r])
        /\ s[Len(reply[r])].revision = reply[r][Len(reply[r])].revision
    BY <1>0, <2>1, MarkedFits
  <2> QED BY <2>2 DEF Answers
<1>2. Row(request[r], s, e, verdict[r], dep[r], r)
  <2>1. "done" \in WorkStates
    BY DEF WorkStates
  <2>2. Row(request[r], s, sufficient[r], verdict[r], dep[r], r)
    BY <1>0, <2>1, Reassigned
  <2> HIDE DEF s
  <2> QED BY <1>0, <1>1, <2>2, Remembered
<1>3. reply' = [reply EXCEPT ![r] = s]
  BY DEF Complete, Handed, Marked, Inv, Shape
<1>4. sufficient' = [sufficient EXCEPT ![r] = e]
  BY DEF Complete, Inv, Shape
<1>5. blocked' \in [Works -> Held]
  BY DEF Complete, Inv, Shape, Held
<1>6. outcome = "sufficient" => n \in e
  BY DEF Found
<1> HIDE DEF s, e
<1>7. CASE IsCurrent(r, n)
  <2> DEFINE d == InStatus(request[r], StatusAfter(outcome))
             v == [of |-> n, outcome |-> outcome]
             l == Met(dep[r], closes, n)
  <2>1. n = Len(s) /\ Len(s) > 0 /\ Answers(request[r], s)
    BY <1>0, <1>1, <1>7 DEF IsCurrent, AnswersQuestion, Answers, Current
  <2>2. Row(request[r], s, e, verdict[r], l, r)
    <3>1. CASE closes = {}
      <4>1. dep[r] \in [Works -> Dependency \cup {NotLinked}]
        BY DEF Inv, Shape
      <4>2. l = dep[r]
        BY <3>1, <4>1 DEF Met
      <4> QED BY <1>2, <4>2
    <3>2. CASE closes # {}
      <4>1. Len(s) \in e /\ \A w \in closes : dep[r][w] # NotLinked
        BY <1>6, <2>1, <3>2 DEF Complete
      <4>2. Row(request[r], s, e, verdict[r], Met(dep[r], closes, Len(s)), r)
        BY <1>2, <2>1, <4>1, Settled
      <4> QED BY <2>1, <4>2
    <3> QED BY <3>1, <3>2
  <2>3. /\ request' = [request EXCEPT ![r] = d]
        /\ verdict' = [verdict EXCEPT ![r] = v]
        /\ dep' = [dep EXCEPT ![r] = l]
    BY <1>7 DEF Complete, Shows, Satisfied
  <2> HIDE DEF l
  <2>4. Row(d, s, e, [of |-> Len(s), outcome |-> outcome], l, r)
    BY <2>1, <2>2, Judged
  <2>5. Row(d, s, e, v, l, r)
    BY <2>1, <2>4
  <2> HIDE DEF d, v
  <2> QED BY <1>3, <1>4, <1>5, <2>3, <2>5, Rewritten
<1>8. CASE ~IsCurrent(r, n)
  <2>1. closes = {} /\ request' = request /\ verdict' = verdict
    BY <1>8 DEF Complete
  <2>2. request' = [request EXCEPT ![r] = request[r]] /\ verdict' = [verdict EXCEPT ![r] = verdict[r]]
    BY <2>1, SameRequest, SameFindings
  <2>3. Met(dep[r], closes, n) = dep[r]
    <3>1. dep[r] \in [Works -> Dependency \cup {NotLinked}]
      BY DEF Inv, Shape
    <3> QED BY <3>1, <2>1 DEF Met
  <2>4. dep' = [dep EXCEPT ![r] = dep[r]]
    BY <2>3 DEF Complete, Satisfied
  <2> QED BY <1>2, <1>3, <1>4, <1>5, <2>2, <2>4, Rewritten
<1> QED BY <1>7, <1>8

\* What the guard of Sync says of the rows it saves: the request exists, the
\* file shows an answer, and it is the answer and the request of the preview.
LEMMA ImportFacts ==
  ASSUME Inv, NEW choice \in {"none", "keep_ui", "use_file"}, Sync(choice)
  PROVE  /\ Imports(choice) \cup Kept(choice) \subseteq FileRequests
         /\ \A r \in Imports(choice) :
              /\ r \in Requests \ SectionRequests
              /\ Exists(r)
              /\ file[r] \in Texts
              /\ Len(reply[r]) < MaxReplies
              /\ preview.row[r].text = file[r]
              /\ preview.row[r].base = Len(reply[r])
<1>1. Imports(choice) \cup Kept(choice) \subseteq FileRequests
  BY DEF Imports, Kept, Shown
<1>2. ASSUME NEW r \in Imports(choice)
      PROVE  /\ r \in Requests \ SectionRequests
             /\ Exists(r)
             /\ file[r] \in Texts
             /\ Len(reply[r]) < MaxReplies
             /\ preview.row[r].text = file[r]
             /\ preview.row[r].base = Len(reply[r])
  <2>1. r \in FileRequests /\ r \in Requests \ SectionRequests
    BY <1>1, FileOrSection
  <2>2. preview.row[r].diagnostic # "empty"
    BY DEF Imports, Shown
  <2>3. r \in FileRequests \ Shown("empty")
    BY <2>1, <2>2 DEF Shown
  <2>4. preview # NoPreview /\ file[r] = preview.row[r].text /\ r \notin preview.moved
    BY <2>3 DEF Sync, PreviewHolds
  <2>5. preview.row[r].text # NoText
    BY <2>1, <2>2, <2>4 DEF Inv, FileShape
  <2>6. file[r] \in Texts
    BY <2>1, <2>4, <2>5 DEF Inv, FileShape
  <2>7. Exists(r) /\ preview.row[r].base = Len(reply[r])
    BY <2>1, <2>4 DEF Inv, PreviewFresh, Current
  <2>8. Len(reply[r]) < MaxReplies
    BY DEF Sync, Current
  <2> QED BY <2>1, <2>4, <2>6, <2>7, <2>8
<1> QED BY <1>1, <1>2

LEMMA SyncRows ==
  ASSUME Inv, NEW choice \in {"none", "keep_ui", "use_file"}, Sync(choice)
  PROVE  Shape' /\ \A q \in Requests : RowOf(q)'
<1>1. ASSUME NEW q \in Requests, q \in Imports(choice)
      PROVE  /\ RowOf(q)'
             /\ request'[q] \in Definition
             /\ reply'[q] \in Seq(Reply)
             /\ dep'[q] \in [Works -> Dependency \cup {NotLinked}]
  <2> DEFINE d == InStatus(request[q], "ready_for_review")
             s == Extended(request[q], reply[q], file[q], "file")
  <2>1. file[q] \in Texts /\ Len(reply[q]) < MaxReplies /\ request[q].status # "absent"
    BY <1>1, ImportFacts DEF Exists
  <2>2. Row(d, s, sufficient[q], verdict[q], Opened(dep[q]), q)
    BY <2>1, RowIs, Answered
  <2>3. /\ request'[q] = d /\ dep'[q] = Opened(dep[q])
        /\ sufficient'[q] = sufficient[q] /\ verdict'[q] = verdict[q]
    BY <1>1 DEF Sync
  <2>4. reply'[q] = s
    BY <1>1 DEF Sync, Saved, Extended, Fresh
  <2> HIDE DEF d, s
  <2>5. RowOf(q)'
    BY <2>2, <2>3, <2>4 DEF RowOf
  <2> QED BY <2>2, <2>3, <2>4, <2>5 DEF Row, Typed
<1>2. ASSUME NEW q \in Requests, q \notin Imports(choice)
      PROVE  /\ RowOf(q)'
             /\ request'[q] \in Definition
             /\ reply'[q] \in Seq(Reply)
             /\ dep'[q] \in [Works -> Dependency \cup {NotLinked}]
  <2>1. /\ request'[q] = request[q] /\ reply'[q] = reply[q]
        /\ sufficient'[q] = sufficient[q] /\ verdict'[q] = verdict[q] /\ dep'[q] = dep[q]
    BY <1>2 DEF Sync
  <2>2. RowOf(q)'
    BY <2>1 DEF RowOf, Inv
  <2> QED BY <2>1, <2>2 DEF Inv, Shape
<1>3. request' \in [Requests -> Definition]
  BY <1>1, <1>2 DEF Sync
<1>4. reply' \in [Requests -> Seq(Reply)]
  BY <1>1, <1>2 DEF Sync
<1>5. dep' \in [Requests -> [Works -> Dependency \cup {NotLinked}]]
  BY <1>1, <1>2 DEF Sync
<1>6. sufficient' = sufficient /\ verdict' = verdict /\ blocked' = blocked
  BY DEF Sync
<1>7. Shape'
  BY <1>3, <1>4, <1>5, <1>6 DEF Inv, Shape
<1> QED BY <1>1, <1>2, <1>7

\* Editing files and looking at them moves no row.
LEMMA SameRows ==
  ASSUME Inv, UNCHANGED <<request, reply, dep, blocked, sufficient, verdict>>
  PROVE  Shape' /\ \A q \in Requests : RowOf(q)'
BY DEF Inv, Shape, RowOf

-----------------------------------------------------------------------------
(* Part 4: the preview. *)

\* No request disappears, and only those in R get another reply.
Keeps(R) ==
  \A q \in Requests : /\ Exists(q) => Exists(q)'
                      /\ q \notin R => Len(reply'[q]) = Len(reply[q])

LEMMA TouchedPreview ==
  ASSUME Inv, NEW R, Keeps(R), Touch(R), file' = file,
         lastFile' \in [FileRequests -> Texts \cup {NoText}]
  PROVE  FileShape' /\ PreviewFresh'
<1>1. CASE preview = NoPreview
  BY <1>1 DEF Touch, Inv, FileShape, PreviewFresh
<1>2. CASE preview # NoPreview
  <2>1. preview' = [row |-> preview.row, moved |-> preview.moved \cup (R \cap FileRequests)]
    BY <1>2 DEF Touch
  <2>2. preview'.row = preview.row /\ preview'.moved = preview.moved \cup (R \cap FileRequests)
    BY <2>1
  <2>3. preview \in Preview
    BY <1>2 DEF Inv, FileShape
  <2>4. preview.row \in [FileRequests -> Line] /\ preview.moved \in SUBSET FileRequests
    BY <2>3 DEF Preview
  <2>5. preview' \in Preview
    BY <2>1, <2>4 DEF Preview
  <2>6. \A r \in FileRequests :
          preview'.row[r].diagnostic # "empty" => preview'.row[r].text # NoText
    BY <1>2, <2>2 DEF Inv, FileShape
  <2>7. FileShape'
    BY <2>5, <2>6 DEF Inv, FileShape
  <2>8. ASSUME NEW r \in FileRequests
        PROVE  /\ Exists(r)'
               /\ r \notin preview'.moved => preview'.row[r].base = Len(reply'[r])
    <3>1. r \in Requests
      BY FileOrSection
    <3>2. /\ Exists(r)
          /\ r \notin preview.moved => preview.row[r].base = Len(reply[r])
      BY <1>2 DEF Inv, PreviewFresh, Current
    <3>3. Exists(r)'
      BY <3>1, <3>2 DEF Keeps
    <3>4. ASSUME r \notin preview'.moved
          PROVE  preview'.row[r].base = Len(reply'[r])
      <4>1. r \notin preview.moved /\ r \notin R
        BY <3>4, <2>2
      <4>2. Len(reply'[r]) = Len(reply[r])
        BY <4>1, <3>1 DEF Keeps
      <4> QED BY <4>1, <4>2, <3>2, <2>2
    <3> QED BY <3>3, <3>4
  <2>9. PreviewFresh'
    BY <2>8 DEF PreviewFresh, Current
  <2> QED BY <2>7, <2>9
<1> QED BY <1>1, <1>2

LEMMA LastFileStays ==
  ASSUME Inv, lastFile' = lastFile
  PROVE  lastFile' \in [FileRequests -> Texts \cup {NoText}]
BY DEF Inv, FileShape

LEMMA SamePreview ==
  ASSUME Inv, Keeps({}), UNCHANGED <<file, lastFile, preview>>
  PROVE  FileShape' /\ PreviewFresh'
<1>1. FileShape'
  BY DEF Inv, FileShape
<1>2. ASSUME preview # NoPreview, NEW r \in FileRequests
      PROVE  /\ Exists(r)'
             /\ r \notin preview.moved => preview.row[r].base = Len(reply'[r])
  <2>1. r \in Requests
    BY FileOrSection
  <2>2. /\ Exists(r)
        /\ r \notin preview.moved => preview.row[r].base = Len(reply[r])
    BY <1>2 DEF Inv, PreviewFresh, Current
  <2>3. Exists(r)' /\ Len(reply'[r]) = Len(reply[r])
    BY <2>1, <2>2 DEF Keeps
  <2> QED BY <2>2, <2>3
<1>3. PreviewFresh'
  BY <1>2 DEF PreviewFresh, Current
<1> QED BY <1>1, <1>3

\* How the operations write requests and replies.
LEMMA RequestKept ==
  ASSUME Inv, NEW r \in Requests, NEW d, d.status # "absent",
         request' = [request EXCEPT ![r] = d]
  PROVE  \A q \in Requests : Exists(q) => Exists(q)'
BY DEF Inv, Shape, Exists

LEMMA ShownKept ==
  ASSUME Inv, NEW r \in Requests, NEW x \in Statuses, request' = Shows(r, x)
  PROVE  \A q \in Requests : Exists(q) => Exists(q)'
<1>1. InStatus(request[r], x).status # "absent"
  BY DEF InStatus, Statuses, Reviewed
<1> QED BY <1>1, RequestKept DEF Shows

LEMMA HandedKept ==
  ASSUME Inv, NEW r \in Requests, NEW n \in 1..Current(r),
         NEW status \in WorkStates, NEW owner \in Owners,
         reply' = Handed(r, n, status, owner)
  PROVE  \A q \in Requests : Len(reply'[q]) = Len(reply[q])
<1>1. reply \in [Requests -> Seq(Reply)] /\ n \in 1..Len(reply[r])
  BY DEF Inv, Shape, Current
<1>2. Len(Marked(reply[r], n, status, owner)) = Len(reply[r])
  BY <1>1, MarkedFits
<1>3. reply' = [reply EXCEPT ![r] = Marked(reply[r], n, status, owner)]
  BY <1>1 DEF Handed, Marked
<1> QED BY <1>1, <1>2, <1>3

LEMMA SavedKept ==
  ASSUME Inv, NEW r \in Requests, Exists(r), NEW text \in Texts, NEW source \in {"ui", "file"}
  PROVE  /\ Saved(r, text, source) = Extended(request[r], reply[r], text, source)
         /\ Len(Saved(r, text, source)) = Len(reply[r]) + 1
         /\ Saved(r, text, source)[Len(reply[r]) + 1].text = text
         /\ Saved(r, text, source)[Len(reply[r]) + 1].source = source
<1>1. request[r] \in Definition /\ reply[r] \in Seq(Reply)
  BY DEF Inv, Shape
<1>2. request[r].revision > 0
  BY RowIs DEF Row, Fits, Exists
<1>3. Saved(r, text, source) = Extended(request[r], reply[r], text, source)
  BY DEF Saved, Extended, Fresh
<1>4. /\ Len(Extended(request[r], reply[r], text, source)) = Len(reply[r]) + 1
      /\ Extended(request[r], reply[r], text, source)[Len(reply[r]) + 1]
           = Fresh(request[r], text, source)
  BY <1>1, <1>2, ExtendedFits
<1>5. /\ Fresh(request[r], text, source).text = text
      /\ Fresh(request[r], text, source).source = source
  BY DEF Fresh
<1> QED BY <1>3, <1>4, <1>5

LEMMA QuestionPreview ==
  ASSUME Inv, QuestionStep
  PROVE  FileShape' /\ PreviewFresh'
<1>1. ASSUME NEW r \in Requests, Create(r)
      PROVE  FileShape' /\ PreviewFresh'
  <2> DEFINE d == [status |-> "waiting_for_answer", revision |-> 1]
  <2>1. request' = [request EXCEPT ![r] = d] /\ d.status # "absent"
    BY <1>1 DEF Create
  <2> HIDE DEF d
  <2>2. Keeps({})
    BY <1>1, <2>1, RequestKept DEF Create, Keeps
  <2> QED BY <1>1, <2>2, SamePreview DEF Create
<1>2. ASSUME NEW r \in Requests, Redefine(r)
      PROVE  FileShape' /\ PreviewFresh'
  <2> DEFINE d == [status |-> "waiting_for_answer", revision |-> request[r].revision + 1]
  <2>1. request' = [request EXCEPT ![r] = d] /\ d.status # "absent"
    BY <1>2 DEF Redefine
  <2> HIDE DEF d
  <2>2. Keeps({r})
    BY <1>2, <2>1, RequestKept DEF Redefine, Keeps
  <2> QED BY <1>2, <2>2, TouchedPreview, LastFileStays DEF Redefine
<1>3. ASSUME NEW r \in SectionRequests, SectionChanges(r)
      PROVE  FileShape' /\ PreviewFresh'
  <2> DEFINE d == [status |-> request[r].status, revision |-> request[r].revision + 1]
  <2>0. r \in Requests
    BY FileOrSection
  <2>1. request' = [request EXCEPT ![r] = d] /\ d.status # "absent"
    BY <1>3 DEF SectionChanges, Exists
  <2> HIDE DEF d
  <2>2. Keeps({})
    BY <1>3, <2>0, <2>1, RequestKept DEF SectionChanges, Keeps
  <2> QED BY <1>3, <2>2, SamePreview DEF SectionChanges
<1>4. ASSUME NEW r \in Requests, NEW w \in Works, NEW other \in BOOLEAN,
             LinkDependency(r, w, other)
      PROVE  FileShape' /\ PreviewFresh'
  <2>1. Keeps({r})
    BY <1>4 DEF LinkDependency, Keeps, Exists
  <2> QED BY <1>4, <2>1, TouchedPreview, LastFileStays DEF LinkDependency
<1> QED BY <1>1, <1>2, <1>3, <1>4 DEF QuestionStep

LEMMA ReleasePreview ==
  ASSUME Inv, NEW r \in Requests, NEW a \in Owners, NEW n \in 1..Current(r), Release(r, n, a)
  PROVE  FileShape' /\ PreviewFresh'
<1>0. "ready" \in WorkStates /\ Queue \in Owners /\ "ready_for_review" \in Statuses
  BY DEF WorkStates, Active, Owners, Statuses
<1>1. \A q \in Requests : Len(reply'[q]) = Len(reply[q])
  BY <1>0, HandedKept DEF Release, Requeued
<1>2. CASE n = Current(r)
  <2>1. \A q \in Requests : Exists(q) => Exists(q)'
    BY <1>0, <1>2, ShownKept DEF Release
  <2>2. Keeps(IF request[r].status = "ready_for_review" THEN {} ELSE {r})
    BY <1>1, <2>1 DEF Keeps
  <2>3. Touch(IF request[r].status = "ready_for_review" THEN {} ELSE {r})
    BY <1>2 DEF Release
  <2>4. UNCHANGED <<file, lastFile>>
    BY DEF Release
  <2> QED BY <2>2, <2>3, <2>4, TouchedPreview, LastFileStays
<1>3. CASE n # Current(r)
  <2>1. UNCHANGED <<request, file, lastFile, preview>>
    BY <1>3 DEF Release
  <2>2. Keeps({})
    BY <1>1, <2>1 DEF Keeps, Exists
  <2> QED BY <2>1, <2>2, SamePreview
<1> QED BY <1>2, <1>3

LEMMA MoveReviewPreview ==
  ASSUME Inv, NEW r \in Requests, NEW n \in 1..Current(r),
         NEW status \in WorkStates, NEW owner \in Owners, MoveReview(r, n, status, owner)
  PROVE  FileShape' /\ PreviewFresh'
<1>1. \A q \in Requests : Len(reply'[q]) = Len(reply[q])
  BY HandedKept DEF MoveReview
<1>2. Keeps({}) /\ UNCHANGED <<file, lastFile, preview>>
  BY <1>1 DEF MoveReview, Keeps, Exists
<1> QED BY <1>2, SamePreview

LEMMA CompletePreview ==
  ASSUME Inv, NEW r \in Requests, NEW n \in 1..Current(r), NEW a \in Owners,
         NEW o \in Outcomes, NEW closes \in SUBSET Works, Complete(r, n, a, o, closes)
  PROVE  FileShape' /\ PreviewFresh'
<1>0. "done" \in WorkStates
  BY DEF WorkStates
<1>1. \A q \in Requests : Len(reply'[q]) = Len(reply[q])
  BY <1>0, HandedKept DEF Complete
<1>2. UNCHANGED <<file, lastFile>>
  BY DEF Complete
<1>3. CASE IsCurrent(r, n)
  <2>1. StatusAfter(o) \in Statuses
    BY DEF StatusAfter, Statuses, Reviewed, Outcomes
  <2>2. request' = Shows(r, StatusAfter(o)) /\ Touch({r})
    BY <1>3 DEF Complete
  <2>3. \A q \in Requests : Exists(q) => Exists(q)'
    BY <2>1, <2>2, ShownKept
  <2>4. Keeps({r})
    BY <1>1, <2>3 DEF Keeps
  <2> QED BY <1>2, <2>2, <2>4, TouchedPreview, LastFileStays
<1>4. CASE ~IsCurrent(r, n)
  <2>1. UNCHANGED <<request, preview>>
    BY <1>4 DEF Complete
  <2>2. Keeps({})
    BY <1>1, <2>1 DEF Keeps, Exists
  <2> QED BY <1>2, <2>1, <2>2, SamePreview
<1> QED BY <1>3, <1>4

LEMMA ClaimPreview ==
  ASSUME Inv, NEW r \in Requests, NEW a \in Owners, Claim(r, a)
  PROVE  FileShape' /\ PreviewFresh'
<1>0. "in_progress" \in WorkStates /\ "reviewing" \in Statuses
  BY DEF WorkStates, Active, Statuses
<1>1. Current(r) \in 1..Current(r)
  BY RowIs, RowFacts DEF Claim
<1>2. reply' = Handed(r, Current(r), "in_progress", a)
  BY DEF Claim, Claimed
<1>3. \A q \in Requests : Len(reply'[q]) = Len(reply[q])
  BY <1>0, <1>1, <1>2, HandedKept
<1>4. \A q \in Requests : Exists(q) => Exists(q)'
  BY <1>0, ShownKept DEF Claim
<1>5. Keeps({r})
  BY <1>3, <1>4 DEF Keeps
<1> QED BY <1>5, TouchedPreview, LastFileStays DEF Claim

LEMMA SubmitPreview ==
  ASSUME Inv, NEW r \in Requests, NEW text \in Texts, Submit(r, text)
  PROVE  FileShape' /\ PreviewFresh'
<1>1. "ready_for_review" \in Statuses
  BY DEF Statuses
<1>2. \A q \in Requests : Exists(q) => Exists(q)'
  BY <1>1, ShownKept DEF Submit
<1>3. \A q \in Requests \ {r} : Len(reply'[q]) = Len(reply[q])
  BY DEF Submit, Inv, Shape
<1>4. Keeps({r})
  BY <1>2, <1>3 DEF Keeps
<1> QED BY <1>4, TouchedPreview, LastFileStays DEF Submit

LEMMA SyncPreview ==
  ASSUME Inv, NEW choice \in {"none", "keep_ui", "use_file"}, Sync(choice)
  PROVE  FileShape' /\ PreviewFresh'
<1> DEFINE R == Imports(choice) \cup Kept(choice)
<1>1. \A q \in Requests : Exists(q) => Exists(q)'
  <2> TAKE q \in Requests
  <2>1. CASE q \in Imports(choice)
    BY <2>1 DEF Sync, InStatus, Exists
  <2>2. CASE q \notin Imports(choice)
    BY <2>2 DEF Sync, Exists
  <2> QED BY <2>1, <2>2
<1>2. \A q \in Requests : q \notin R => Len(reply'[q]) = Len(reply[q])
  BY DEF Sync
<1>3. Keeps(R)
  BY <1>1, <1>2 DEF Keeps
<1>4. Touch(R)
  BY DEF Sync
<1> HIDE DEF R
<1>5. lastFile' \in [FileRequests -> Texts \cup {NoText}]
  BY DEF Sync, Inv, FileShape
<1>6. file' = file
  BY DEF Sync
<1> QED BY <1>3, <1>4, <1>5, <1>6, TouchedPreview

LEMMA EditPreview ==
  ASSUME Inv, NEW r \in FileRequests, NEW text \in Texts \cup {NoText}, EditFile(r, text)
  PROVE  FileShape' /\ PreviewFresh'
<1>1. file' \in [FileRequests -> Texts \cup {NoText}]
  BY DEF EditFile, Inv, FileShape
<1>2. UNCHANGED <<request, reply, lastFile, preview>>
  BY DEF EditFile
<1>3. FileShape'
  BY <1>1, <1>2 DEF Inv, FileShape
<1>4. PreviewFresh'
  BY <1>2 DEF Inv, PreviewFresh, Exists, Current
<1> QED BY <1>3, <1>4

LEMMA TakenPreview ==
  ASSUME Inv, PreviewFiles
  PROVE  FileShape' /\ PreviewFresh'
<1> DEFINE line(r) == [text |-> file[r], base |-> Current(r), diagnostic |-> Diagnostic(r)]
<1>1. ASSUME NEW r \in FileRequests
      PROVE  /\ line(r) \in Line
             /\ line(r).base = Current(r)
             /\ line(r).diagnostic # "empty" => line(r).text # NoText
  <2>1. r \in Requests /\ file[r] \in Texts \cup {NoText}
    BY FileOrSection DEF Inv, FileShape
  <2>2. Current(r) \in 0..MaxReplies
    BY <2>1, RowIs, RowFacts, InputBoundsAreNat
  <2>3. CASE file[r] = NoText
    <3>1. Diagnostic(r) = "empty"
      BY <2>3 DEF Diagnostic
    <3> QED BY <2>1, <2>2, <3>1 DEF Line
  <2>4. CASE file[r] # NoText
    <3>1. Diagnostic(r) \in {"unsynced", "unchanged", "conflict"}
      BY <2>4 DEF Diagnostic, Compared
    <3> QED BY <2>1, <2>2, <2>4, <3>1 DEF Line
  <2> QED BY <2>3, <2>4
<1>2. preview' = [row |-> [r \in FileRequests |-> line(r)], moved |-> {}]
  BY DEF PreviewFiles
<1> HIDE DEF line
<1>3. [r \in FileRequests |-> line(r)] \in [FileRequests -> Line]
  BY <1>1
<1>4. preview' \in Preview
  BY <1>2, <1>3 DEF Preview
<1>5. \A r \in FileRequests : preview'.row[r] = line(r)
  BY <1>2
<1>6. FileShape'
  BY <1>1, <1>4, <1>5 DEF PreviewFiles, Inv, FileShape
<1>7. PreviewFresh'
  BY <1>1, <1>5 DEF PreviewFiles, PreviewFresh, Exists, Current
<1> QED BY <1>6, <1>7

-----------------------------------------------------------------------------
(* Part 5: the gates. *)

\* One step of the gates.
GatesMove == [Gate!Next]_<<Gates, States>>

LinkedIn(d, w) == \E r \in Requests : d[r][w] # NotLinked

LEMMA GateIs ==
  ASSUME NEW w \in Works
  PROVE  /\ GateOf(w) = IF ~LinkedIn(dep, w) THEN "none"
                        ELSE IF Cleared(dep, w) THEN "met" ELSE "open"
         /\ GateOf(w)' = IF ~LinkedIn(dep', w) THEN "none"
                         ELSE IF Cleared(dep', w) THEN "met" ELSE "open"
<1>1. {r \in Requests : dep[r][w] # NotLinked} = {} <=> ~LinkedIn(dep, w)
  BY DEF LinkedIn
<1>2. {r \in Requests : dep'[r][w] # NotLinked} = {} <=> ~LinkedIn(dep', w)
  BY DEF LinkedIn
<1> QED BY <1>1, <1>2 DEF GateOf

LEMMA StateIs ==
  ASSUME Inv, NEW w \in Works
  PROVE  /\ StateOf(w) = "held" <=> blocked[w] = "blocked"
         /\ blocked[w] = "done" => StateOf(w) = "finished"
         /\ blocked[w] = "other" => StateOf(w) = "other"
BY DEF StateOf, Inv, Shape, Held

LEMMA StateNext ==
  ASSUME NEW w \in Works, blocked'[w] \in Held
  PROVE  /\ StateOf(w)' = "held" <=> blocked'[w] = "blocked"
         /\ blocked'[w] = "done" => StateOf(w)' = "finished"
         /\ blocked'[w] = "other" => StateOf(w)' = "other"
         /\ blocked'[w] = blocked[w] => StateOf(w)' = StateOf(w)
BY DEF StateOf, Held

LEMMA GateSame ==
  ASSUME NEW w \in Works, \A r \in Requests : dep'[r][w] = dep[r][w]
  PROVE  GateOf(w)' = GateOf(w)
<1>1. LinkedIn(dep', w) <=> LinkedIn(dep, w)
  BY DEF LinkedIn
<1>2. Cleared(dep', w) <=> Cleared(dep, w)
  BY DEF Cleared
<1> QED BY <1>1, <1>2, GateIs

\* Nothing about the dependencies or the held work changes.
LEMMA GatesStay ==
  ASSUME Inv, UNCHANGED <<dep, blocked>>
  PROVE  GatesMove
<1>1. \A w \in Works : GateOf(w)' = GateOf(w)
  BY GateSame
<1>2. \A w \in Works : StateOf(w)' = StateOf(w)
  BY DEF StateOf
<1>3. Gates' = Gates /\ States' = States
  BY <1>1, <1>2 DEF Gates, States
<1> QED BY <1>3 DEF GatesMove

\* Dependencies are only taken back: every gate stays, or was met and opens.
LEMMA GatesReopen ==
  ASSUME Inv, NEW R \in SUBSET Requests,
         \A r \in R : dep'[r] = Opened(dep[r]),
         \A r \in Requests \ R : dep'[r] = dep[r],
         blocked' = blocked
  PROVE  GatesMove
<1>1. ASSUME NEW w \in Works
      PROVE  \/ GateOf(w)' = GateOf(w)
             \/ GateOf(w) = "met" /\ GateOf(w)' = "open"
  <2>1. \A r \in Requests : \/ dep'[r][w] = dep[r][w]
                            \/ /\ dep[r][w] # NotLinked
                               /\ dep'[r][w] # NotLinked
                               /\ ~(dep'[r][w].by > 0)
    <3> TAKE r \in Requests
    <3>0. dep[r] \in [Works -> Dependency \cup {NotLinked}]
      BY DEF Inv, Shape
    <3>1. CASE r \notin R  BY <3>1
    <3>2. CASE r \in R /\ dep[r][w] = NotLinked
      <4>1. dep'[r] = Opened(dep[r])
        BY <3>2
      <4>2. Opened(dep[r])[w] = dep[r][w]
        BY <3>2 DEF Opened
      <4> QED BY <4>1, <4>2
    <3>3. CASE r \in R /\ dep[r][w] # NotLinked
      <4>1. dep[r][w].other \in BOOLEAN
        BY <3>0, <3>3 DEF Dependency
      <4>2. dep'[r][w] = Open(dep[r][w].other)
        BY <3>3 DEF Opened
      <4>3. dep'[r][w] # NotLinked /\ dep'[r][w].by = 0
        BY <4>1, <4>2, OpenFits
      <4> QED BY <3>3, <4>3
    <3> QED BY <3>1, <3>2, <3>3
  <2>2. LinkedIn(dep', w) <=> LinkedIn(dep, w)
    BY <2>1 DEF LinkedIn
  <2>3. Cleared(dep', w) => Cleared(dep, w)
    BY <2>1 DEF Cleared
  <2> QED BY <2>2, <2>3, GateIs
<1>2. \A w \in Works : StateOf(w)' = StateOf(w)
  BY DEF StateOf
<1> DEFINE S == {w \in Works : GateOf(w)' # GateOf(w)}
<1>3. \A w \in S : GateOf(w) = "met" /\ GateOf(w)' = "open"
  BY <1>1
<1>4. States' = States
  BY <1>2 DEF States
<1>5. CASE S = {}
  <2>1. Gates' = Gates
    BY <1>5 DEF Gates
  <2> QED BY <1>4, <2>1 DEF GatesMove
<1>6. CASE S # {}
  <2>1. \A w \in S : Gates[w] = "met"
    BY <1>3 DEF Gates
  <2>2. Gates' = [w \in Works |-> IF w \in S THEN "open" ELSE Gates[w]]
    BY <1>3 DEF Gates
  <2>3. Gate!Reopen(S)
    BY <1>4, <1>6, <2>1, <2>2 DEF Gate!Reopen
  <2>4. S \in SUBSET Works
    OBVIOUS
  <2> QED BY <2>3, <2>4 DEF GatesMove, Gate!Next
<1> QED BY <1>5, <1>6

LEMMA LinkGates ==
  ASSUME Inv, NEW r \in Requests, NEW w \in Works, NEW other \in BOOLEAN,
         LinkDependency(r, w, other)
  PROVE  GatesMove
<1>1. /\ dep'[r][w] = Open(other)
      /\ \A q \in Requests, u \in Works \ {w} : dep'[q][u] = dep[q][u]
      /\ blocked' = blocked /\ blocked[w] = "blocked"
  BY DEF LinkDependency, Inv, Shape
<1>2. dep'[r][w] # NotLinked /\ ~(dep'[r][w].by > 0)
  BY <1>1, OpenFits
<1>3. GateOf(w)' = "open"
  <2>1. LinkedIn(dep', w) /\ ~Cleared(dep', w)
    BY <1>2 DEF LinkedIn, Cleared
  <2> QED BY <2>1, GateIs
<1>4. GateOf(w) \in {"none", "open", "met"}
  BY GateIs
<1>5. \A u \in Works \ {w} : GateOf(u)' = GateOf(u)
  BY <1>1, GateSame
<1>6. \A u \in Works : StateOf(u)' = StateOf(u)
  BY <1>1 DEF StateOf
<1>7. States' = States /\ States[w] = "held"
  BY <1>1, <1>6, StateIs DEF States
<1>8. CASE GateOf(w) = "open"
  <2>1. Gates' = Gates
    BY <1>3, <1>5, <1>8 DEF Gates
  <2> QED BY <1>7, <2>1 DEF GatesMove
<1>9. CASE GateOf(w) = "none"
  <2>1. Gates' = [Gates EXCEPT ![w] = "open"] /\ Gates[w] = "none"
    BY <1>3, <1>5, <1>9 DEF Gates
  <2>2. Gate!Link(w)
    BY <1>7, <2>1 DEF Gate!Link
  <2> QED BY <2>2 DEF GatesMove, Gate!Next
<1>10. CASE GateOf(w) = "met"
  <2>1. \A u \in {w} : Gates[u] = "met"
    BY <1>10 DEF Gates
  <2>2. Gates' = [u \in Works |-> IF u \in {w} THEN "open" ELSE Gates[u]]
    BY <1>3, <1>5 DEF Gates
  <2>3. Gate!Reopen({w})
    BY <1>7, <2>1, <2>2 DEF Gate!Reopen
  <2>4. {w} \in SUBSET Works
    OBVIOUS
  <2> QED BY <2>3, <2>4 DEF GatesMove, Gate!Next
<1> QED BY <1>4, <1>8, <1>9, <1>10

LEMMA MoveHeldGates ==
  ASSUME Inv, NEW w \in Works, NEW state \in Held, MoveHeldWork(w, state)
  PROVE  GatesMove
<1>1. /\ dep' = dep
      /\ blocked'[w] = state
      /\ \A u \in Works \ {w} : blocked'[u] = blocked[u]
  BY DEF MoveHeldWork, Inv, Shape
<1>2. \A u \in Works : GateOf(u)' = GateOf(u)
  BY <1>1, GateSame
<1>3. StateOf(w)' \in {"held", "finished", "other"}
  BY DEF StateOf
<1>4. \A u \in Works \ {w} : StateOf(u)' = StateOf(u)
  BY <1>1 DEF StateOf
<1>5. Gates' = Gates
  BY <1>2 DEF Gates
<1>6. States' = [States EXCEPT ![w] = StateOf(w)']
  BY <1>4 DEF States
<1>7. Gate!Move(w)
  BY <1>3, <1>5, <1>6 DEF Gate!Move
<1> QED BY <1>7 DEF GatesMove, Gate!Next

LEMMA CompleteGates ==
  ASSUME Inv, NEW r \in Requests, NEW n \in 1..Current(r), NEW a \in Owners,
         NEW outcome \in Outcomes, NEW closes \in SUBSET Works,
         Complete(r, n, a, outcome, closes)
  PROVE  GatesMove
<1> DEFINE S == {w \in closes : Cleared(dep', w)}
<1>1. \A w \in closes : blocked[w] = "blocked" /\ dep[r][w] # NotLinked
  BY DEF Complete
<1>2. dep' = [dep EXCEPT ![r] = Met(dep[r], closes, n)]
  BY DEF Complete, Satisfied
<1>3. \A q \in Requests, w \in Works \ closes : dep'[q][w] = dep[q][w]
  BY <1>2 DEF Met, Inv, Shape
<1>4. \A w \in closes : dep'[r][w] # NotLinked
  <2> TAKE w \in closes
  <2>1. dep'[r][w] = [by |-> n, other |-> dep[r][w].other]
    BY <1>2 DEF Met, Inv, Shape
  <2>2. dep[r][w] \in Dependency /\ dep[r][w].other \in BOOLEAN
    BY <1>1 DEF Inv, Shape, Dependency
  <2>3. n \in 0..MaxReplies
    BY RowIs, RowFacts, InputBoundsAreNat
  <2>4. dep'[r][w] \in Dependency
    BY <2>1, <2>2, <2>3 DEF Dependency
  <2> QED BY <2>4, InputNamesDistinct
<1>5. \A w \in closes : LinkedIn(dep', w) /\ LinkedIn(dep, w)
  BY <1>1, <1>4 DEF LinkedIn
<1>6. \A w \in closes : GateOf(w) \in {"open", "met"} /\ StateOf(w) = "held"
  BY <1>1, <1>5, GateIs, StateIs
<1>7. \A w \in closes : Cleared(dep, w) => Cleared(dep', w)
  <2> TAKE w \in closes
  <2>1. \A q \in Requests \ {r} : dep'[q][w] = dep[q][w]
    BY <1>2 DEF Inv, Shape
  <2>2. dep'[r][w] = [by |-> n, other |-> dep[r][w].other]
    BY <1>2 DEF Met, Inv, Shape
  <2>3. dep'[r][w].by = n /\ dep'[r][w].other = dep[r][w].other /\ n > 0
    BY <2>2, RowIs, RowFacts
  <2> QED BY <1>1, <2>1, <2>3 DEF Cleared
<1>8. \A w \in S : GateOf(w)' = "met"
  BY <1>5, GateIs
<1>9. \A w \in Works \ S : GateOf(w)' = GateOf(w)
  <2> TAKE w \in Works \ S
  <2>1. CASE w \in closes     BY <2>1, <1>5, <1>7, GateIs
  <2>2. CASE w \notin closes  BY <2>2, <1>3, GateSame
  <2> QED BY <2>1, <2>2
<1>10. blocked' = [w \in Works |-> IF w \in S THEN "done" ELSE blocked[w]]
  BY DEF Complete
<1>11. \A w \in S : StateOf(w)' = "finished"
  <2>1. \A w \in S : w \in Works /\ blocked'[w] = "done"
    BY <1>10
  <2>2. "done" \in Held
    BY DEF Held
  <2> QED BY <2>1, <2>2, StateNext
<1>12. \A w \in Works \ S : StateOf(w)' = StateOf(w)
  BY <1>10 DEF StateOf
<1>13. S \in SUBSET Works /\ S \subseteq closes
  OBVIOUS
<1> HIDE DEF S
<1>14. CASE S = {}
  <2>1. Gates' = Gates /\ States' = States
    BY <1>9, <1>12, <1>14 DEF Gates, States
  <2> QED BY <2>1 DEF GatesMove
<1>15. CASE S # {}
  <2>1. \A w \in S : States[w] = "held" /\ Gates[w] # "none"
    BY <1>6, <1>13 DEF Gates, States
  <2>2. Gates' = [w \in Works |-> IF w \in S THEN "met" ELSE Gates[w]]
    BY <1>8, <1>9 DEF Gates
  <2>3. States' = [w \in Works |-> IF w \in S THEN "finished" ELSE States[w]]
    BY <1>11, <1>12 DEF States
  <2>4. Gate!Meet(S)
    BY <1>15, <2>1, <2>2, <2>3 DEF Gate!Meet
  <2> QED BY <1>13, <2>4 DEF GatesMove, Gate!Next
<1> QED BY <1>14, <1>15

-----------------------------------------------------------------------------
(* Part 6: the invariant, and what follows. *)

LEMMA InitHolds == Init => Inv
<1> SUFFICES ASSUME Init PROVE Inv
  OBVIOUS
<1>0. << >> \in Seq(Reply) /\ Len(<< >>) = 0
  BY EmptySeq
<1>1. Shape
  <2>1. [status |-> "absent", revision |-> 0] \in Definition
    BY InputBoundsAreNat DEF Definition
  <2>2. [of |-> 0, outcome |-> "none"] \in Verdict
    BY InputBoundsAreNat DEF Verdict
  <2>3. "blocked" \in Held
    BY DEF Held
  <2> QED BY <1>0, <2>1, <2>2, <2>3 DEF Init, Shape
<1>2. FileShape
  BY DEF Init, FileShape
<1>3. ASSUME NEW q \in Requests
      PROVE  RowOf(q)
  <2>1. /\ request[q].status = "absent" /\ request[q].revision = 0
        /\ reply[q] = << >>
        /\ sufficient[q] = {} /\ verdict[q] = [of |-> 0, outcome |-> "none"]
        /\ \A w \in Works : dep[q][w] = NotLinked
    BY DEF Init
  <2>2. Len(reply[q]) = 0
    BY <2>1, <1>0
  <2>3. Typed(request[q], reply[q], sufficient[q], verdict[q], dep[q])
    BY <1>1 DEF Shape, Typed
  <2>4. Fits(request[q], reply[q], sufficient[q], verdict[q], dep[q])
    <3>1. \A n \in 1..Len(reply[q]) : FALSE
      BY <2>2
    <3>2. request[q].status # "absent" <=> request[q].revision > 0
      BY <2>1
    <3>3. Len(reply[q]) <= MaxReplies
      BY <2>2, InputBoundsAreNat
    <3> QED BY <2>1, <3>1, <3>2, <3>3 DEF Fits
  <2>5. Satisfies(request[q], reply[q], sufficient[q], dep[q], q)
    BY <2>1 DEF Satisfies
  <2>6. Outcome(request[q], reply[q], verdict[q], q) /\ Waits(request[q], reply[q])
    BY <2>1 DEF Outcome, Waits, Reviewed
  <2> QED BY <2>3, <2>4, <2>5, <2>6 DEF RowOf, Row
<1>4. PreviewFresh
  BY DEF Init, PreviewFresh
<1> QED BY <1>1, <1>2, <1>3, <1>4 DEF Inv

\* What one step does to the rows, to the preview and to the gates.
Moves == /\ Shape' /\ \A q \in Requests : RowOf(q)'
         /\ FileShape' /\ PreviewFresh'
         /\ GatesMove

LEMMA QuestionMoves == Inv /\ QuestionStep => Moves
<1> SUFFICES ASSUME Inv, QuestionStep PROVE Moves
  OBVIOUS
<1>1. FileShape' /\ PreviewFresh'
  BY QuestionPreview
<1>2. ASSUME NEW r \in Requests, Create(r) PROVE Moves
  BY <1>1, <1>2, CreateRows, GatesStay DEF Create, Moves
<1>3. ASSUME NEW r \in Requests, Redefine(r) PROVE Moves
  <2>1. GatesMove
    <3>1. /\ dep'[r] = Opened(dep[r])
          /\ \A q \in Requests \ {r} : dep'[q] = dep[q]
          /\ blocked' = blocked
      BY <1>3 DEF Redefine, Invalidated, Inv, Shape
    <3>2. {r} \in SUBSET Requests
      OBVIOUS
    <3> QED BY <3>1, <3>2, GatesReopen
  <2> QED BY <1>1, <1>3, <2>1, RedefineRows DEF Moves
<1>4. ASSUME NEW r \in SectionRequests, SectionChanges(r) PROVE Moves
  BY <1>1, <1>4, SectionRows, GatesStay DEF SectionChanges, Moves
<1>5. ASSUME NEW r \in Requests, NEW w \in Works, NEW other \in BOOLEAN,
             LinkDependency(r, w, other)
      PROVE  Moves
  BY <1>1, <1>5, LinkRows, LinkGates DEF Moves
<1> QED BY <1>2, <1>3, <1>4, <1>5 DEF QuestionStep

LEMMA AnswerMoves == Inv /\ AnswerStep => Moves
<1> SUFFICES ASSUME Inv, NEW r \in Requests, NEW text \in Texts, Submit(r, text) PROVE Moves
  BY DEF AnswerStep
<1>1. /\ dep'[r] = Opened(dep[r])
      /\ \A q \in Requests \ {r} : dep'[q] = dep[q]
      /\ blocked' = blocked
  BY DEF Submit, Invalidated, Inv, Shape
<1>2. {r} \in SUBSET Requests
  OBVIOUS
<1>3. GatesMove
  BY <1>1, <1>2, GatesReopen
<1> QED BY <1>3, SubmitPreview, SubmitRows DEF Moves

LEMMA ReviewMoves == Inv /\ ReviewStep => Moves
<1> SUFFICES ASSUME Inv, NEW r \in Requests, NEW a \in Owners,
                    \/ Claim(r, a)
                    \/ \E n \in 1..Current(r) :
                         \/ Release(r, n, a)
                         \/ \E o \in Outcomes, closes \in SUBSET Works :
                              Complete(r, n, a, o, closes)
             PROVE  Moves
  BY DEF ReviewStep
<1>1. CASE Claim(r, a)
  BY <1>1, ClaimPreview, ClaimRows, GatesStay DEF Claim, Moves
<1>2. ASSUME NEW n \in 1..Current(r), Release(r, n, a) PROVE Moves
  BY <1>2, ReleasePreview, ReleaseRows, GatesStay DEF Release, Moves
<1>3. ASSUME NEW n \in 1..Current(r), NEW o \in Outcomes, NEW closes \in SUBSET Works,
             Complete(r, n, a, o, closes)
      PROVE  Moves
  BY <1>3, CompletePreview, CompleteRows, CompleteGates DEF Moves
<1> QED BY <1>1, <1>2, <1>3

LEMMA WorkMoves == Inv /\ WorkStep => Moves
<1> SUFFICES ASSUME Inv, WorkStep PROVE Moves
  OBVIOUS
<1>1. ASSUME NEW w \in Works, NEW state \in Held, MoveHeldWork(w, state) PROVE Moves
  <2>1. Keeps({})
    BY <1>1 DEF MoveHeldWork, Keeps, Exists
  <2>2. FileShape' /\ PreviewFresh'
    BY <1>1, <2>1, SamePreview DEF MoveHeldWork
  <2> QED BY <1>1, <2>2, MoveHeldRows, MoveHeldGates DEF Moves
<1>2. ASSUME NEW r \in Requests, NEW n \in 1..Current(r), Moved(r, n) PROVE Moves
  <2>1. PICK status \in WorkStates, owner \in Owners : MoveReview(r, n, status, owner)
    BY <1>2, GeneralMoves
  <2> QED BY <2>1, MoveReviewPreview, MoveReviewRows, GatesStay DEF MoveReview, Moves
<1> QED BY <1>1, <1>2 DEF WorkStep, Moved

LEMMA FileMoves == Inv /\ FileStep => Moves
<1> SUFFICES ASSUME Inv, FileStep PROVE Moves
  OBVIOUS
<1>1. ASSUME NEW r \in FileRequests, NEW t \in Texts \cup {NoText}, EditFile(r, t) PROVE Moves
  BY <1>1, EditPreview, SameRows, GatesStay DEF EditFile, Moves
<1>2. ASSUME PreviewFiles PROVE Moves
  BY <1>2, TakenPreview, SameRows, GatesStay DEF PreviewFiles, Moves
<1>3. ASSUME NEW choice \in {"none", "keep_ui", "use_file"}, Sync(choice) PROVE Moves
  <2>1. GatesMove
    <3> DEFINE R == Imports(choice) \cap Requests
    <3>1. /\ \A r \in R : dep'[r] = Opened(dep[r])
          /\ \A r \in Requests \ R : dep'[r] = dep[r]
          /\ blocked' = blocked
      BY <1>3 DEF Sync
    <3>2. R \in SUBSET Requests
      OBVIOUS
    <3> HIDE DEF R
    <3> QED BY <3>1, <3>2, GatesReopen
  <2> QED BY <1>3, <2>1, SyncPreview, SyncRows DEF Moves
<1> QED BY <1>1, <1>2, <1>3 DEF FileStep

LEMMA StepMoves == Inv /\ [Next]_vars => Moves
<1> SUFFICES ASSUME Inv, [Next]_vars PROVE Moves
  OBVIOUS
<1>1. CASE UNCHANGED vars
  <2>1. FileShape' /\ PreviewFresh'
    BY <1>1 DEF vars, Inv, FileShape, PreviewFresh, Exists, Current
  <2> QED BY <1>1, <2>1, SameRows, GatesStay DEF vars, Moves
<1> QED BY <1>1, QuestionMoves, AnswerMoves, ReviewMoves, WorkMoves, FileMoves DEF Next

LEMMA InvHolds == Spec => []Inv
<1>1. Init => Inv
  BY InitHolds
<1>2. Inv /\ [Next]_vars => Inv'
  BY StepMoves DEF Moves, Inv
<1> QED BY <1>1, <1>2, PTL DEF Spec

(* Every row is well formed: replies belong to revisions the request has    *)
(* had, and a dependency is met by a reply that was saved, as a verdict is  *)
(* about one, whatever the general operations do to the work of both.       *)
THEOREM TypeCorrect == Spec => []TypeOK
<1>1. Inv => TypeOK
  BY InvImpliesTypeOK
<1> QED BY <1>1, InvHolds, PTL

(* What a request shows, and what counts as answered by it, are always      *)
(* about its current answer and a finished review of it, however answers,   *)
(* reviews, wordings and file syncs of any number of requests interleave    *)
(* with the general operations on the work of reviews and of those who wait.*)
THEOREM OnlyTheCurrentAnswerCounts == Spec => []CurrentAnswerCounts
<1>1. Inv => CurrentAnswerCounts
  BY InvImpliesCounts
<1> QED BY <1>1, InvHolds, PTL

(* "Corrections/revised questions invalidate satisfaction" (DEVELOPMENT.md) *)
(* of every request whose wording no request file manages: what counts as   *)
(* answered is answered as the question is worded now.  Only sections of a  *)
(* request file can be the exception that RevisionInvalidatesSatisfaction   *)
(* has.                                                                     *)
THEOREM RegisteredRevisionsInvalidate ==
  Spec => [](\A r \in Requests \ SectionRequests, w \in Works :
               (dep[r][w] # NotLinked /\ dep[r][w].by > 0)
                 => AnswersQuestion(r, dep[r][w].by))
<1>1. CurrentAnswerCounts
        => \A r \in Requests \ SectionRequests, w \in Works :
             (dep[r][w] # NotLinked /\ dep[r][w].by > 0)
               => AnswersQuestion(r, dep[r][w].by)
  BY DEF CurrentAnswerCounts, SatisfiedByCurrentAnswer
<1> QED BY <1>1, OnlyTheCurrentAnswerCounts, PTL

\* A reply of a file is written by a sync only, as its preview showed it.
SavedAsShown ==
  \A r \in FileRequests :
    (Len(reply'[r]) > Current(r) /\ reply'[r][Len(reply'[r])].source = "file")
      => /\ preview.row[r].text = reply'[r][Len(reply'[r])].text
         /\ preview.row[r].base = Current(r)

LEMMA OnlySavingAdds ==
  ASSUME Inv, \A r \in Requests : Len(reply'[r]) = Len(reply[r])
  PROVE  SavedAsShown
<1> SUFFICES ASSUME NEW r \in FileRequests PROVE ~(Len(reply'[r]) > Current(r))
  BY DEF SavedAsShown
<1>1. r \in Requests
  BY FileOrSection
<1>2. Current(r) = Len(reply[r]) /\ Len(reply[r]) \in Nat
  BY <1>1, RowIs, RowFacts
<1> QED BY <1>1, <1>2

LEMMA StepSavesAsShown == Inv /\ [Next]_vars => [SavedAsShown]_vars
<1> SUFFICES ASSUME Inv, Next PROVE SavedAsShown
  BY DEF SavedAsShown
<1>0. {"in_progress", "ready", "done"} \subseteq WorkStates /\ Queue \in Owners
  BY DEF WorkStates, Active, Owners
<1>1. ASSUME reply' = reply PROVE SavedAsShown
  BY <1>1, OnlySavingAdds
<1>2. CASE QuestionStep
  <2>1. reply' = reply
    BY <1>2 DEF QuestionStep, Create, Redefine, SectionChanges, LinkDependency
  <2> QED BY <2>1, <1>1
<1>3. CASE ReviewStep
  <2>1. PICK r \in Requests, a \in Owners :
          \/ Claim(r, a)
          \/ \E n \in 1..Current(r) :
               \/ Release(r, n, a)
               \/ \E o \in Outcomes, closes \in SUBSET Works : Complete(r, n, a, o, closes)
    BY <1>3 DEF ReviewStep
  <2>2. \E n \in 1..Current(r), status \in WorkStates, owner \in Owners :
          reply' = Handed(r, n, status, owner)
    <3>1. CASE Claim(r, a)
      <4>1. Current(r) \in 1..Current(r)
        BY <3>1, RowIs, RowFacts DEF Claim
      <4>2. reply' = Handed(r, Current(r), "in_progress", a)
        BY <3>1 DEF Claim, Claimed
      <4> QED BY <1>0, <4>1, <4>2
    <3>2. ASSUME NEW n \in 1..Current(r), Release(r, n, a)
          PROVE  reply' = Handed(r, n, "ready", Queue)
      BY <3>2 DEF Release, Requeued
    <3>3. ASSUME NEW n \in 1..Current(r), NEW o \in Outcomes, NEW closes \in SUBSET Works,
                 Complete(r, n, a, o, closes)
          PROVE  reply' = Handed(r, n, "done", a)
      BY <3>3 DEF Complete
    <3> QED BY <1>0, <2>1, <3>1, <3>2, <3>3
  <2> QED BY <2>2, HandedKept, OnlySavingAdds
<1>4. ASSUME NEW r \in Requests, NEW t \in Texts, Submit(r, t) PROVE SavedAsShown
  <2> SUFFICES ASSUME NEW q \in FileRequests,
                      Len(reply'[q]) > Current(q), reply'[q][Len(reply'[q])].source = "file"
               PROVE  FALSE
    BY DEF SavedAsShown
  <2>1. q \in Requests /\ reply' = [reply EXCEPT ![r] = Saved(r, t, "ui")]
    BY <1>4, FileOrSection DEF Submit
  <2>2. CASE q = r
    <3>1. reply'[q] = Saved(r, t, "ui")
      BY <2>1, <2>2 DEF Inv, Shape
    <3>2. /\ Len(Saved(r, t, "ui")) = Len(reply[r]) + 1
          /\ Saved(r, t, "ui")[Len(reply[r]) + 1].source = "ui"
      BY <1>4, SavedKept DEF Submit
    <3> QED BY <3>1, <3>2
  <2>3. CASE q # r
    <3>1. reply'[q] = reply[q]
      BY <2>1, <2>3
    <3>2. Current(q) = Len(reply[q]) /\ Len(reply[q]) \in Nat
      BY <2>1, RowIs, RowFacts
    <3> QED BY <3>1, <3>2
  <2> QED BY <2>2, <2>3
<1>5. CASE WorkStep
  <2>1. ASSUME NEW r \in Requests, NEW n \in 1..Current(r), Moved(r, n) PROVE SavedAsShown
    <3>1. PICK status \in WorkStates, owner \in Owners : MoveReview(r, n, status, owner)
      BY <2>1, GeneralMoves
    <3>2. \A q \in Requests : Len(reply'[q]) = Len(reply[q])
      BY <3>1, HandedKept DEF MoveReview
    <3> QED BY <3>2, OnlySavingAdds
  <2>2. ASSUME NEW w \in Works, NEW state \in Held, MoveHeldWork(w, state) PROVE SavedAsShown
    BY <2>2, <1>1 DEF MoveHeldWork
  <2> QED BY <1>5, <2>1, <2>2 DEF WorkStep, Moved
<1>6. ASSUME NEW choice \in {"none", "keep_ui", "use_file"}, Sync(choice) PROVE SavedAsShown
  <2> SUFFICES ASSUME NEW q \in FileRequests, Len(reply'[q]) > Current(q)
               PROVE  /\ preview.row[q].text = reply'[q][Len(reply'[q])].text
                      /\ preview.row[q].base = Current(q)
    BY DEF SavedAsShown
  <2>1. q \in Requests /\ Current(q) = Len(reply[q]) /\ Len(reply[q]) \in Nat
    BY FileOrSection, RowIs, RowFacts
  <2>2. q \in Imports(choice)
    <3> SUFFICES ASSUME q \notin Imports(choice) PROVE FALSE
      OBVIOUS
    <3>1. reply'[q] = reply[q]
      BY <1>6, <2>1 DEF Sync
    <3> QED BY <2>1, <3>1
  <2>3. reply'[q] = Saved(q, file[q], "file")
    BY <1>6, <2>1, <2>2 DEF Sync
  <2>4. /\ Exists(q) /\ file[q] \in Texts
        /\ preview.row[q].text = file[q]
        /\ preview.row[q].base = Len(reply[q])
    BY <1>6, <2>2, ImportFacts
  <2>5. /\ Len(Saved(q, file[q], "file")) = Len(reply[q]) + 1
        /\ Saved(q, file[q], "file")[Len(reply[q]) + 1].text = file[q]
    BY <2>1, <2>4, SavedKept
  <2> QED BY <2>1, <2>3, <2>4, <2>5
<1>7. CASE AnswerStep
  BY <1>4, <1>7 DEF AnswerStep
<1>8. CASE FileStep
  <2>1. \/ reply' = reply
        \/ \E choice \in {"none", "keep_ui", "use_file"} : Sync(choice)
    BY <1>8 DEF FileStep, EditFile, PreviewFiles
  <2> QED BY <1>1, <1>6, <2>1
<1> QED BY <1>2, <1>3, <1>5, <1>7, <1>8 DEF Next

(* What a file sync saves is the answer its preview showed, set against the *)
(* reply it was compared with, whatever happened between the two.           *)
THEOREM SyncSavesThePreview == Spec => SyncSavesWhatWasShown
<1>1. Inv /\ [Next]_vars => [SavedAsShown]_vars
  BY StepSavesAsShown
<1> QED BY <1>1, InvHolds, PTL DEF Spec, SyncSavesWhatWasShown, SavedAsShown

LEMMA GateInit == Init => Gate!Init
<1> SUFFICES ASSUME Init PROVE Gate!Init
  OBVIOUS
<1>1. \A w \in Works : ~LinkedIn(dep, w)
  BY DEF Init, LinkedIn
<1>2. Gates = [w \in Works |-> "none"]
  BY <1>1, GateIs DEF Gates
<1>3. \A w \in Works : StateOf(w) = "held"
  BY DEF Init, StateOf
<1>4. States \in [Works -> {"held", "other"}]
  BY <1>3 DEF States
<1> QED BY <1>2, <1>4 DEF Gate!Init

LEMMA GateStep == Inv /\ [Next]_vars => [Gate!Next]_<<Gates, States>>
BY StepMoves DEF Moves, GatesMove

(* The service keeps the promise of InputGate: only held work is linked,    *)
(* its gate is met in a step that finishes it, and an answer that is        *)
(* corrected or a question that is revised opens it again.                  *)
THEOREM TheGateIsKept == Spec => ImplementsGate
  BY GateInit, GateStep, InvHolds, PTL
     DEF Spec, ImplementsGate, Gate!Spec, Gate!gateVars

=============================================================================
