--------------------------- MODULE HandoffsProofs ---------------------------
(***************************************************************************)
(* The acceptance of results, for any number of contexts, results, work    *)
(* items and agents, and for any length of a history.                      *)
(*                                                                         *)
(* The argument is about the revision of the workspace review.  A context  *)
(* pins it, every acceptance needs the pinned one to be current and then   *)
(* appends the next: whatever was prepared before an acceptance pins an    *)
(* earlier revision than the current one from then on.                     *)
(***************************************************************************)
EXTENDS Handoffs, TLAPS

\* The two halves of TypeOK: the world, and what has been saved about it.
World ==
  /\ revs \in Seq(Revision) /\ Len(revs) \in 1..MaxRevisions
  /\ work \in [Works -> Row]
  /\ scope \in Contents
  /\ record \in [Records -> Contents]
  /\ input \in [Works -> Inputs]
  /\ evidence \in Seq(Contents) /\ Len(evidence) <= MaxEvidence
  /\ reviewed \in [1..MaxEvidence -> Contents \cup {Nothing}]
  /\ review \in 0..MaxReviews
  /\ outsides \in 0..MaxOutside

Artifacts ==
  /\ context \in [Contexts -> Context \cup {Nothing}]
  /\ result \in [Results -> Result \cup {Nothing}]
  /\ receipt \in [Results -> Resolved \cup {"none"}]
  /\ \A k \in Contexts : context[k] # Nothing => ContextOK(context[k])
  /\ \A r \in Saved : ResultOK(result[r])
  /\ \A r \in Results : receipt[r] # "none" => r \in Saved

\* The review revision that the context of result r pins.
Pinned(r) == context[result[r].context].ground.review

\* Everything that q replaces pins an earlier review than the current one.  S is
\* what had been submitted when q was accepted.
Retires(q, S) ==
  /\ S \in SUBSET Saved /\ Closed(S)
  /\ result[q].supersedes \in S \cup {Nothing}
  /\ \A x \in S : Pinned(x) < review

Ordered ==
  /\ \A k \in Contexts : context[k] # Nothing => context[k].ground.review <= review
  /\ \A r \in Saved : result[r].supersedes \in Saved \cup {Nothing}
  /\ \A r \in Results : receipt[r] = "accept" => Pinned(r) < review
  /\ OneAcceptancePerContext
  /\ \A q \in Results : receipt[q] = "accept" => \E S : Retires(q, S)

Inv == World /\ Artifacts /\ Ordered

\* TypeOK is the conjunction of its two halves.
LEMMA TypeHalves == TypeOK <=> World /\ Artifacts
BY DEF TypeOK, World, Artifacts

-----------------------------------------------------------------------------
(* Rows and the map. *)

\* A treatment that stays within the bound on versions leaves a row.
LEMMA TreatedRow ==
  ASSUME NEW row, row.status \in Statuses, row.owner \in Actors \cup {Queue}, row.version \in Nat \ {0},
         row = [status |-> row.status, owner |-> row.owner, version |-> row.version],
         NEW t, Treated(row, t).version <= MaxVersion
  PROVE  Treated(row, t) \in Row
<1>1. MaxVersion \in Nat
  BY HandoffBounds
<1> QED
  BY <1>1 DEF Treated, Row, Statuses, Active

\* Recording a map appends to the history and changes none of it.
LEMMA Appended ==
  ASSUME revs \in Seq(Revision), Len(revs) \in 1..MaxRevisions, Len(revs) < MaxRevisions,
         NEW v \in Revision, revs' = Append(revs, v)
  PROVE  /\ revs' \in Seq(Revision) /\ Len(revs') \in 1..MaxRevisions
         /\ Len(revs') = Len(revs) + 1
         /\ \A n \in 1..Len(revs) : revs'[n] = revs[n]
<1>1. MaxRevisions \in Nat
  BY HandoffBounds
<1> QED
  BY <1>1

\* The current map is a map.
LEMMA LatestType ==
  ASSUME World
  PROVE  Latest \in Revision
BY DEF World, Latest

-----------------------------------------------------------------------------
(* What a step that leaves the saved artifacts alone keeps. *)

\* A context that was well formed is so for any longer history of the map.
LEMMA ContextKept ==
  ASSUME Len(revs') >= Len(revs), Len(revs) \in Nat, Len(revs') \in Nat,
         \A n \in 1..Len(revs) : revs'[n] = revs[n],
         NEW c, ContextOK(c)
  PROVE  ContextOK(c)'
BY DEF ContextOK, Task

\* The world only grows: the history of the map, the evidence and the review.
Grows ==
  /\ Len(revs') >= Len(revs) /\ \A n \in 1..Len(revs) : revs'[n] = revs[n]
  /\ DOMAIN evidence \subseteq DOMAIN evidence'
  /\ review' >= review

\* The saved artifacts stay well formed while only receipts are written.
LEMMA ArtifactsKept ==
  ASSUME Inv, World', Grows, UNCHANGED <<context, result>>,
         receipt' \in [Results -> Resolved \cup {"none"}],
         \A r \in Results : receipt'[r] # "none" => r \in Saved
  PROVE  Artifacts'
<1>1. Len(revs) \in Nat /\ Len(revs') \in Nat
  BY DEF Inv, World
<1>2. \A c : ContextOK(c) => ContextOK(c)'
  BY <1>1, ContextKept DEF Grows
<1>3. \A q : ResultOK(q) => ResultOK(q)'
  BY DEF ResultOK, Grows
<1>4. \A k \in Contexts : (context[k] # Nothing => ContextOK(context[k]))'
  BY <1>2 DEF Inv, Artifacts
<1>5. \A r \in Saved : ResultOK(result[r])'
  BY <1>3 DEF Inv, Artifacts
<1> QED
  BY <1>4, <1>5 DEF Inv, Artifacts, Saved

\* What orders contexts by reviews stays while nobody writes an artifact.
LEMMA OrderKept ==
  ASSUME Inv, World', Grows, UNCHANGED saved
  PROVE  Ordered'
<1>1. \A k \in Contexts : context[k] # Nothing => context[k].ground.review \in Nat
  BY DEF Inv, Artifacts, Context, Pins
<1>2. \A r \in Saved : Pinned(r) \in Nat
  BY <1>1 DEF Inv, Artifacts, ResultOK, Saved, Pinned, Result
<1>3. review \in Nat /\ review' \in Nat /\ review' >= review
  BY HandoffBounds DEF Inv, World, Grows
<1>4. \A q, S : Retires(q, S) => Retires(q, S)'
  BY <1>2, <1>3 DEF Retires, Saved, Closed, Pinned, saved
<1>5. \A r \in Results : receipt[r] = "accept" => r \in Saved
  BY DEF Inv, Artifacts
<1>6. \A k \in Contexts : context'[k] # Nothing => context'[k].ground.review <= review'
  BY <1>1, <1>3 DEF Inv, Ordered, saved
<1>7. \A r \in Results : receipt'[r] = "accept" => Pinned(r)' < review'
  BY <1>2, <1>3, <1>5 DEF Inv, Ordered, saved, Pinned
<1>8. \A q \in Results : receipt'[q] = "accept" => \E S : Retires(q, S)'
  BY <1>4 DEF Inv, Ordered, saved
<1> QED
  BY <1>6, <1>7, <1>8 DEF Inv, Ordered, saved, Saved, OneAcceptancePerContext

\* Both together: a step that writes no artifact keeps the invariant.
LEMMA WorldStep ==
  ASSUME Inv, World', Grows, UNCHANGED saved
  PROVE  Inv'
<1>1. Artifacts'
  BY ArtifactsKept DEF Inv, Artifacts, saved
<1> QED
  BY <1>1, OrderKept DEF Inv

-----------------------------------------------------------------------------
(* The steps. *)

\* A workspace without contexts.
LEMMA InitInv ==
  ASSUME Init
  PROVE  Inv
<1>1. PICK first \in First : /\ revs = <<first>>
                             /\ scope = first.scope
                             /\ record = [x \in Records |-> first.scope]
  BY DEF Init
<1>2. first \in Revision /\ first.scope \in Contents
  BY HandoffInputs DEF Revision
<1>3. World
  <2>1. revs \in Seq(Revision) /\ Len(revs) = 1
    BY <1>1, <1>2
  <2>2. work \in [Works -> Row]
    BY HandoffBounds DEF Init, Row, Statuses, Active
  <2>3. 1 \in 1..MaxRevisions /\ 0 \in 0..MaxReviews /\ 0 \in 0..MaxOutside /\ 0 <= MaxEvidence
    BY HandoffBounds
  <2>4. evidence \in Seq(Contents) /\ Len(evidence) = 0
    BY DEF Init
  <2> QED
    BY <1>1, <1>2, <2>1, <2>2, <2>3, <2>4 DEF Init, World, Inputs
<1>4. Artifacts
  BY DEF Init, Artifacts, Saved
<1>5. Ordered
  BY DEF Init, Ordered, OneAcceptancePerContext, Saved
<1> QED
  BY <1>3, <1>4, <1>5 DEF Inv

\* What prepare saves is a context.
LEMMA NewContext ==
  ASSUME Inv, NEW a \in Actors, NEW w \in Works, NEW seen \in Selectable
  PROVE  LET c == [actor |-> a, work |-> w, head |-> Len(revs), task |-> Task(Latest.map, w),
                   ground |-> Ground(w), seen |-> seen, complete |-> Covers(seen)]
         IN  c \in Context /\ c # Nothing
<1> DEFINE c == [actor |-> a, work |-> w, head |-> Len(revs), task |-> Task(Latest.map, w),
                 ground |-> Ground(w), seen |-> seen, complete |-> Covers(seen)]
<1>1. Task(Latest.map, w) \in [TaskParts[w] -> Texts] /\ TaskParts[w] \in SUBSET Parts
  <2>1. Latest.map \in Maps
    BY LatestType DEF Inv, Revision
  <2> QED
    BY <2>1, HandoffParts DEF Task, Maps
<1>2. Ground(w) \in Pins
  <2>1. work[w].version \in Nat
    BY HandoffBounds DEF Inv, World, Row
  <2>2. review \in Nat
    BY HandoffBounds DEF Inv, World
  <2>3. [r \in TaskRecords |-> record[r]] \in [TaskRecords -> Contents]
    BY HandoffRecords DEF Inv, World
  <2> QED
    BY <2>1, <2>2, <2>3 DEF Inv, World, Ground, Pins
<1>3. seen \in SUBSET Nat
  <2>1. evidence \in Seq(Contents)
    BY DEF Inv, World
  <2> QED
    BY <2>1 DEF Selectable
<1>4. Covers(seen) \in BOOLEAN
  BY DEF Covers
<1>5. Len(revs) \in Nat
  BY HandoffBounds DEF Inv, World
<1>6. c \in Context
  BY <1>1, <1>2, <1>3, <1>4, <1>5 DEF Context
<1> QED
  BY <1>6, HandoffNames

\* A context that is prepared pins the current review and the current map.
LEMMA PrepareStep ==
  ASSUME Inv, NEW k \in Contexts, NEW a \in Actors, NEW w \in Works, NEW seen \in Selectable,
         Prepare(k, a, w, seen)
  PROVE  Inv'
<1> DEFINE c == [actor |-> a, work |-> w, head |-> Len(revs), task |-> Task(Latest.map, w),
                 ground |-> Ground(w), seen |-> seen, complete |-> Covers(seen)]
<1>1. context' = [context EXCEPT ![k] = c]
  BY DEF Prepare
<1>4. seen \in SUBSET Nat /\ seen \subseteq DOMAIN evidence
  <2>1. evidence \in Seq(Contents)
    BY DEF Inv, World
  <2> QED
    BY <2>1 DEF Selectable
<1>6. Len(revs) \in Nat
  BY HandoffBounds DEF Inv, World
<1>7. c \in Context /\ c # Nothing
  BY NewContext
<1>9. ContextOK(c)
  BY <1>4, <1>6 DEF Inv, World, ContextOK, Ground, Latest
<1>10. World'
  BY DEF Inv, World, Prepare, outside
<1>11. /\ context'[k] = c
       /\ \A j \in Contexts \ {k} : context'[j] = context[j]
       /\ context' \in [Contexts -> Context \cup {Nothing}]
  BY <1>1, <1>7 DEF Inv, Artifacts
<1>12. UNCHANGED <<result, receipt, revs, review>>
  BY DEF Prepare
<1>13. context[k] = Nothing
  BY DEF Prepare
<1>14. \A j \in Contexts : (context[j] # Nothing => ContextOK(context[j]))'
  <2> HIDE DEF c
  <2>1. \A j \in Contexts : context'[j] # Nothing => ContextOK(context'[j])
    BY <1>9, <1>11 DEF Inv, Artifacts
  <2> QED
    BY <2>1, <1>12 DEF ContextOK, Task
<1>15. Artifacts'
  <2>1. Saved' = Saved
    BY <1>12 DEF Saved
  <2>2. \A r \in Saved : ResultOK(result[r])'
    <3>1. \A r \in Saved : result[r] \in Result
      BY DEF Inv, Artifacts, Saved
    <3>2. \A r \in Saved : result[r].context \in Contexts
      BY <3>1 DEF Result
    <3>3. \A r \in Saved : ResultOK(result[r])
      BY DEF Inv, Artifacts
    <3>4. evidence' = evidence
      BY DEF Prepare
    <3> HIDE DEF c
    <3> QED
      BY <1>7, <1>11, <1>12, <3>2, <3>3, <3>4 DEF ResultOK
  <2>3. \A r \in Results : receipt'[r] # "none" => r \in Saved
    BY <1>12 DEF Inv, Artifacts
  <2>4. result' \in [Results -> Result \cup {Nothing}] /\ receipt' \in [Results -> Resolved \cup {"none"}]
    BY <1>12 DEF Inv, Artifacts
  <2> HIDE DEF c
  <2> QED
    BY <1>11, <1>14, <2>1, <2>2, <2>3, <2>4 DEF Artifacts
<1>16. \A r \in Saved : Pinned(r)' = Pinned(r)
  BY <1>11, <1>12, <1>13 DEF Inv, Artifacts, ResultOK, Saved, Pinned, Result
<1>17. \A q, S : Retires(q, S) => Retires(q, S)'
  BY <1>12, <1>16 DEF Retires, Saved, Closed
<1>18. Ordered'
  <2>1. c.ground.review <= review
    BY HandoffBounds DEF Inv, World, Ground
  <2>2. \A j \in Contexts : context'[j] # Nothing => context'[j].ground.review <= review'
    BY <2>1, <1>11, <1>12 DEF Inv, Ordered
  <2>3. \A r \in Results : receipt'[r] = "accept" => Pinned(r)' < review'
    BY <1>12, <1>16 DEF Inv, Ordered, Artifacts
  <2>4. \A q \in Results : receipt'[q] = "accept" => \E S : Retires(q, S)'
    BY <1>12, <1>17 DEF Inv, Ordered
  <2> QED
    BY <2>2, <2>3, <2>4, <1>12 DEF Inv, Ordered, Saved, OneAcceptancePerContext
<1> QED
  BY <1>10, <1>15, <1>18 DEF Inv

\* What submit saves is a result.
LEMMA NewResult ==
  ASSUME Inv, NEW k \in Contexts, NEW p \in Proposals, NEW earlier \in Results \cup {Nothing},
         p.cites \subseteq DOMAIN evidence
  PROVE  LET q == [context |-> k, proposal |-> p, supersedes |-> earlier,
                   records  |-> [x \in DOMAIN p.judges |-> record[x]],
                   evidence |-> [e \in p.cites |-> evidence[e]]]
         IN  q \in Result /\ q # Nothing
<1> DEFINE q == [context |-> k, proposal |-> p, supersedes |-> earlier,
                 records  |-> [x \in DOMAIN p.judges |-> record[x]],
                 evidence |-> [e \in p.cites |-> evidence[e]]]
<1>1. p \in Proposal
  BY HandoffInputs
<1>2. [x \in DOMAIN p.judges |-> record[x]] \in UNION {[R -> Contents] : R \in SUBSET Records}
  <2>1. PICK R \in SUBSET Records : p.judges \in [R -> Contents]
    BY <1>1 DEF Proposal
  <2>2. DOMAIN p.judges = R
    BY <2>1
  <2>3. [x \in R |-> record[x]] \in [R -> Contents]
    BY <2>1 DEF Inv, World
  <2> QED
    BY <2>1, <2>2, <2>3
<1>3. [e \in p.cites |-> evidence[e]] \in UNION {[E -> Contents] : E \in SUBSET (1..MaxEvidence)}
  <2>1. p.cites \in SUBSET (1..MaxEvidence)
    BY <1>1 DEF Proposal
  <2>2. evidence \in Seq(Contents) /\ p.cites \subseteq DOMAIN evidence
    BY DEF Inv, World
  <2>3. [e \in p.cites |-> evidence[e]] \in [p.cites -> Contents]
    BY <2>2
  <2> QED
    BY <2>1, <2>3
<1>4. q \in Result
  BY <1>2, <1>3 DEF Result
<1> QED
  BY <1>4, HandoffNames

\* A new result replaces only results that were there before it.
LEMMA SubmitStep ==
  ASSUME Inv, NEW r \in Results, NEW k \in Contexts, NEW p \in Proposals,
         NEW earlier \in Results \cup {Nothing}, Submit(r, k, p, earlier)
  PROVE  Inv'
<1> DEFINE q == [context |-> k, proposal |-> p, supersedes |-> earlier,
                 records  |-> [x \in DOMAIN p.judges |-> record[x]],
                 evidence |-> [e \in p.cites |-> evidence[e]]]
<1>1. result' = [result EXCEPT ![r] = q] /\ result[r] = Nothing
  BY DEF Submit
<1>5. q \in Result /\ q # Nothing
  BY NewResult DEF Submit
<1>7. /\ result'[r] = q
      /\ \A x \in Results \ {r} : result'[x] = result[x]
      /\ result' \in [Results -> Result \cup {Nothing}]
  BY <1>1, <1>5 DEF Inv, Artifacts
<1>8. UNCHANGED <<context, receipt, revs, review>>
  BY DEF Submit
<1>9. World'
  BY DEF Inv, World, Submit, outside
<1>10. Saved' = Saved \cup {r} /\ r \notin Saved
  BY <1>1, <1>5, <1>7 DEF Saved
<1>11. Artifacts'
  <2>1. context[k] # Nothing
    BY DEF Submit
  <2>2. \A j \in Contexts : (context[j] # Nothing => ContextOK(context[j]))'
    BY <1>8 DEF Inv, Artifacts, ContextOK, Task
  <2>3. \A x \in Saved' : ResultOK(result[x])'
    <3>1. q.context = k /\ q.proposal.cites \subseteq DOMAIN evidence
      BY DEF Submit
    <3>2. \A x \in Saved : ResultOK(result[x])
      BY DEF Inv, Artifacts
    <3>3. evidence' = evidence
      BY DEF Submit
    <3> HIDE DEF q
    <3> QED
      BY <2>1, <3>1, <3>2, <3>3, <1>7, <1>8, <1>10 DEF ResultOK, Saved
  <2>4. \A x \in Results : receipt'[x] # "none" => x \in Saved'
    BY <1>8, <1>10 DEF Inv, Artifacts
  <2>5. context' \in [Contexts -> Context \cup {Nothing}] /\ receipt' \in [Results -> Resolved \cup {"none"}]
    BY <1>8 DEF Inv, Artifacts
  <2> HIDE DEF q
  <2> QED
    BY <2>2, <2>3, <2>4, <2>5, <1>7 DEF Artifacts
<1>12. earlier \in Saved \cup {Nothing}
  BY DEF Submit, Saved
<1>13. \A x \in Saved : result'[x] = result[x] /\ Pinned(x)' = Pinned(x)
  BY <1>7, <1>8, <1>10 DEF Pinned, Saved
<1>14. \A x \in Results : receipt[x] = "accept" => x \in Saved
  BY DEF Inv, Artifacts
<1>15. Ordered'
  <2>1. \A x \in Saved' : result'[x].supersedes \in Saved' \cup {Nothing}
    BY <1>7, <1>10, <1>12, <1>13 DEF Inv, Ordered
  <2>2. \A x \in Results : receipt'[x] = "accept" => Pinned(x)' < review'
    BY <1>8, <1>13, <1>14 DEF Inv, Ordered
  <2>3. OneAcceptancePerContext'
    BY <1>8, <1>13, <1>14 DEF Inv, Ordered, OneAcceptancePerContext
  <2>4. ASSUME NEW x \in Results, receipt'[x] = "accept"
        PROVE  \E S : Retires(x, S)'
    <3>1. PICK S : Retires(x, S)
      BY <2>4, <1>8 DEF Inv, Ordered
    <3>2. x \in Saved
      BY <2>4, <1>8, <1>14
    <3>3. Retires(x, S)'
      BY <3>1, <3>2, <1>8, <1>10, <1>13 DEF Retires, Closed
    <3> QED
      BY <3>3
  <2> QED
    BY <2>1, <2>2, <2>3, <2>4, <1>8 DEF Inv, Ordered
<1> QED
  BY <1>9, <1>11, <1>15 DEF Inv

\* A rejection writes a receipt only, and no acceptance.
LEMMA RejectStep ==
  ASSUME Inv, NEW r \in Results, Reject(r)
  PROVE  Inv'
<1>1. /\ receipt'[r] = "reject"
      /\ \A x \in Results \ {r} : receipt'[x] = receipt[x]
      /\ receipt' \in [Results -> Resolved \cup {"none"}]
  BY DEF Reject, Resolved, Inv, Artifacts
<1>2. UNCHANGED <<revs, work, outside, evidence, reviewed, review, context, result, outsides>>
  BY DEF Reject
<1>3. World'
  BY <1>2 DEF Inv, World, outside
<1>4. \A x \in Results : receipt'[x] # "none" => x \in Saved
  BY <1>1 DEF Inv, Artifacts, Reject, Unresolved, Saved
<1>5. Grows
  BY <1>2 DEF Inv, World, Grows
<1>6. Artifacts'
  BY <1>1, <1>2, <1>3, <1>4, <1>5, ArtifactsKept
<1>7. \A x \in Results : receipt'[x] = "accept" => receipt[x] = "accept"
  BY <1>1
<1>8. \A q, S : Retires(q, S) => Retires(q, S)'
  BY <1>2 DEF Retires, Saved, Closed, Pinned
<1>9. Ordered'
  BY <1>2, <1>7, <1>8 DEF Inv, Ordered, OneAcceptancePerContext, Saved, Pinned
<1> QED
  BY <1>3, <1>6, <1>9 DEF Inv

\* A result that may be accepted pins the current review.
LEMMA AcceptablePins ==
  ASSUME Inv, NEW r \in Results, Acceptable(r)
  PROVE  r \in Saved /\ Pinned(r) = review /\ receipt[r] # "accept"
BY DEF Acceptable, Unresolved, Resolved, Fresh, ContextHolds, Ground, Pinned, Saved

\* Everything that an acceptance writes is well formed.
LEMMA AcceptWorld ==
  ASSUME Inv, NEW r \in Results, Acceptable(r), NEW who \in Actors, NEW ts \in [Works -> Changes],
         NEW found \in UNION {[1..n -> Contents] : n \in 0..MaxEvidence},
         Accept(r, who, ts, found)
  PROVE  World' /\ Grows
<1> DEFINE p == result[r].proposal
           c == context[result[r].context]
           done == [w \in Works |-> IF p.completes /\ w = c.work THEN Completed(work[w])
                                    ELSE work[w]]
<1>1. result[r] \in Result /\ c \in Context /\ ContextOK(c) /\ ResultOK(result[r])
  <2>1. r \in Saved
    BY AcceptablePins
  <2>2. result[r] \in Result /\ ResultOK(result[r])
    BY <2>1 DEF Inv, Artifacts, Saved
  <2>3. result[r].context \in Contexts /\ c # Nothing
    BY <2>2 DEF Result, ResultOK
  <2> QED
    BY <2>2, <2>3 DEF Inv, Artifacts
<1>2. p \in Proposal
  BY <1>1, HandoffInputs DEF Result
<1>3. found \in Seq(Contents) /\ Len(found) \in Nat
  <2>1. PICK n \in 0..MaxEvidence : found \in [1..n -> Contents]
    OBVIOUS
  <2>2. n \in Nat
    BY HandoffBounds
  <2> QED
    BY <2>1, <2>2
<1>4. /\ evidence' \in Seq(Contents) /\ Len(evidence') <= MaxEvidence
      /\ DOMAIN evidence \subseteq DOMAIN evidence'
  <2>1. evidence' = evidence \o found /\ Len(evidence) + Len(found) <= MaxEvidence
    BY DEF Accept
  <2>2. evidence \in Seq(Contents)
    BY DEF Inv, World
  <2> QED
    BY <2>1, <2>2, <1>3
<1>5. record' \in [Records -> Contents]
  <2>1. PICK R \in SUBSET Records : p.judges \in [R -> Contents]
    BY <1>2 DEF Proposal
  <2>2. \A x \in Records : (IF x \in DOMAIN p.judges THEN p.judges[x] ELSE record[x]) \in Contents
    BY <2>1 DEF Inv, World
  <2> QED
    BY <2>2 DEF Accept
<1>6. scope' \in Contents
  BY <1>2 DEF Accept, Proposal, Inv, World
<1>7. review' \in 0..MaxReviews /\ review' >= review /\ review' = review + 1
  BY HandoffBounds DEF Accept, NextReview, Inv, World
<1>8. work' \in [Works -> Row]
  <2>1. work' = [w \in Works |-> Treated(done[w], ts[w])] /\ Bounded(work')
    BY DEF Accept
  <2>2. ASSUME NEW w \in Works
        PROVE  Treated(done[w], ts[w]) \in Row
    <3> DEFINE row == done[w]
    <3>1. row = work[w] \/ row = Completed(work[w])
      OBVIOUS
    <3>2. work[w] \in Row /\ work[w].version \in Nat \ {0}
      BY HandoffBounds DEF Inv, World, Row
    <3>3. /\ row.status \in Statuses /\ row.owner \in Actors \cup {Queue} /\ row.version \in Nat \ {0}
          /\ row = [status |-> row.status, owner |-> row.owner, version |-> row.version]
      <4> HIDE DEF row
      <4> QED
        BY <3>1, <3>2 DEF Completed, Row, Statuses
    <3>4. Treated(row, ts[w]).version <= MaxVersion
      BY <2>1 DEF Bounded
    <3>5. Treated(row, ts[w]) \in Row
      <4> HIDE DEF row
      <4> QED
        BY <3>3, <3>4, TreatedRow
    <3> QED
      BY <3>5
  <2> QED
    BY <2>1, <2>2
<1>9. /\ revs' \in Seq(Revision) /\ Len(revs') \in 1..MaxRevisions
      /\ Len(revs') = Len(revs) + 1
      /\ \A n \in 1..Len(revs) : revs'[n] = revs[n]
  <2>1. ProposedMap(p) \in Maps
    <3>1. Latest.map \in Maps
      BY LatestType DEF Inv, Revision
    <3>2. p.map \in Maps \cup {Nothing}
      BY <1>2 DEF Proposal
    <3> HIDE DEF p
    <3> QED
      BY <3>1, <3>2, HandoffParts DEF ProposedMap, Maps
  <2> DEFINE v == [actor |-> who, map |-> ProposedMap(p), scope |-> scope']
  <2>2. v \in Revision
    BY <2>1, <1>6 DEF Revision
  <2>3. revs' = Append(revs, v) /\ Len(revs) < MaxRevisions
    BY DEF Accept
  <2>4. revs \in Seq(Revision) /\ Len(revs) \in 1..MaxRevisions
    BY DEF Inv, World
  <2> HIDE DEF v
  <2> QED
    BY <2>2, <2>3, <2>4, Appended
<1>10. reviewed' \in [1..MaxEvidence -> Contents \cup {Nothing}]
  <2>1. reviewed' = Covered(c, p, evidence')
    BY DEF Accept
  <2>2. p.cites \subseteq DOMAIN evidence
    BY <1>1 DEF ResultOK
  <2>3. c.ground.evidence \in Seq(Contents) /\ c.seen \subseteq DOMAIN c.ground.evidence
    BY <1>1 DEF Context, Pins, ContextOK
  <2>4. \A e \in c.seen : c.ground.evidence[e] \in Contents
    BY <2>3
  <2>5. \A e \in p.cites \cup ((Len(evidence) + 1)..Len(evidence')) : evidence'[e] \in Contents
    <3>1. DOMAIN evidence' = 1..Len(evidence') /\ Len(evidence) \in Nat
      BY <1>4 DEF Inv, World
    <3>2. p.cites \cup ((Len(evidence) + 1)..Len(evidence')) \subseteq DOMAIN evidence'
      BY <1>4, <2>2, <3>1
    <3> QED
      BY <3>2, <1>4
  <2>6. reviewed \in [1..MaxEvidence -> Contents \cup {Nothing}]
    BY DEF Inv, World
  <2> HIDE DEF c, p
  <2> QED
    BY <2>1, <2>4, <2>5, <2>6 DEF Covered
<1>11. input' \in [Works -> Inputs] /\ outsides' \in 0..MaxOutside
  BY DEF Accept, Inv, World
<1>12. Grows
  BY <1>4, <1>7, <1>9 DEF Grows, Inv, World
<1>13. World'
  BY <1>4, <1>5, <1>6, <1>7, <1>8, <1>9, <1>10, <1>11 DEF World
<1> QED
  BY <1>12, <1>13

\* An accepted result pins the review that the acceptance supersedes: it is the
\* first from its context, and what had been submitted is retired.
LEMMA AcceptStep ==
  ASSUME Inv, NEW r \in Results, Acceptable(r), NEW who \in Actors, NEW ts \in [Works -> Changes],
         NEW found \in UNION {[1..n -> Contents] : n \in 0..MaxEvidence},
         Accept(r, who, ts, found)
  PROVE  Inv'
<1>1. World' /\ Grows
  BY AcceptWorld
<1>2. r \in Saved /\ Pinned(r) = review /\ receipt[r] # "accept"
  BY AcceptablePins
<1>3. UNCHANGED <<context, result>> /\ review' = review + 1
  BY DEF Accept, NextReview
<1>4. /\ receipt'[r] = "accept"
      /\ \A x \in Results \ {r} : receipt'[x] = receipt[x]
      /\ receipt' \in [Results -> Resolved \cup {"none"}]
  BY DEF Accept, Resolved, Inv, Artifacts
<1>5. \A x \in Results : receipt'[x] # "none" => x \in Saved
  BY <1>2, <1>4 DEF Inv, Artifacts
<1>6. Artifacts'
  BY <1>1, <1>3, <1>4, <1>5, ArtifactsKept
<1>7. review \in Nat
  BY HandoffBounds DEF Inv, World
<1>8. \A k \in Contexts : context[k] # Nothing =>
        context[k].ground.review \in Nat /\ context[k].ground.review <= review
  BY DEF Inv, Artifacts, Ordered, Context, Pins
<1>9. \A x \in Saved : Pinned(x) \in Nat /\ Pinned(x) <= review
  BY <1>8 DEF Inv, Artifacts, ResultOK, Saved, Pinned, Result
<1>10. Saved' = Saved /\ \A x : Pinned(x)' = Pinned(x)
  BY <1>3 DEF Saved, Pinned
<1>11. \A q \in Results \ {r} : receipt'[q] = "accept" => Pinned(q) < review
  BY <1>4 DEF Inv, Ordered
<1>12. OneAcceptancePerContext'
  <2>1. \A q \in Results \ {r} : receipt'[q] = "accept" => result[q].context # result[r].context
    BY <1>2, <1>7, <1>11 DEF Pinned
  <2> QED
    BY <2>1, <1>3, <1>4 DEF Inv, Ordered, OneAcceptancePerContext
<1>13. \A q \in Results : receipt'[q] = "accept" => \E S : Retires(q, S)'
  <2>1. Retires(r, Saved)'
    BY <1>2, <1>3, <1>7, <1>9, <1>10 DEF Inv, Ordered, Retires, Closed
  <2>2. \A q, S : Retires(q, S) => Retires(q, S)'
    BY <1>3, <1>7, <1>9, <1>10 DEF Retires, Closed
  <2> QED
    BY <2>1, <2>2, <1>4 DEF Inv, Ordered
<1>14. \A k \in Contexts : (context[k] # Nothing => context[k].ground.review <= review)'
  BY <1>3, <1>7, <1>8
<1>15. \A x \in Results : (receipt[x] = "accept" => Pinned(x) < review)'
  BY <1>3, <1>5, <1>7, <1>9, <1>10
<1>16. Ordered'
  BY <1>3, <1>10, <1>12, <1>13, <1>14, <1>15 DEF Inv, Ordered
<1> QED
  BY <1>1, <1>6, <1>16 DEF Inv

\* What others do to the map and to the work.
LEMMA WorkSteps ==
  ASSUME Inv,
         \/ \E a \in Actors, m \in Drafts, ts \in [Works -> Changes] : Revise(a, m, ts)
         \/ \E a \in Actors, w \in Works : Claim(a, w) \/ Release(a, w)
  PROVE  World' /\ Grows /\ UNCHANGED saved
<1>1. \A w \in Works : work[w] \in Row /\ work[w].version \in Nat \ {0}
  BY HandoffBounds DEF Inv, World, Row
<1>2. revs \in Seq(Revision) /\ Len(revs) \in 1..MaxRevisions /\ scope \in Contents
      /\ review \in Nat /\ evidence \in Seq(Contents)
  BY HandoffBounds DEF Inv, World
<1>3. CASE \E a \in Actors, m \in Drafts, ts \in [Works -> Changes] : Revise(a, m, ts)
  <2>1. PICK a \in Actors, m \in Drafts, ts \in [Works -> Changes] : Revise(a, m, ts)
    BY <1>3
  <2>2. ASSUME NEW w \in Works
        PROVE  Treated(work[w], ts[w]) \in Row
    <3> DEFINE row == work[w]
    <3>1. /\ row.status \in Statuses /\ row.owner \in Actors \cup {Queue} /\ row.version \in Nat \ {0}
          /\ row = [status |-> row.status, owner |-> row.owner, version |-> row.version]
      BY <1>1 DEF Row
    <3>2. Treated(row, ts[w]).version <= MaxVersion
      BY <2>1 DEF Revise, Bounded
    <3>3. Treated(row, ts[w]) \in Row
      <4> HIDE DEF row
      <4> QED
        BY <3>1, <3>2, TreatedRow
    <3> QED
      BY <3>3
  <2>3. work' \in [Works -> Row]
    BY <2>1, <2>2 DEF Revise
  <2> DEFINE v == [actor |-> a, map |-> m, scope |-> scope]
  <2>4. v \in Revision
    BY <1>2, HandoffInputs DEF Revision
  <2>5. /\ revs' \in Seq(Revision) /\ Len(revs') \in 1..MaxRevisions
        /\ Len(revs') = Len(revs) + 1
        /\ \A n \in 1..Len(revs) : revs'[n] = revs[n]
    <3>1. revs' = Append(revs, v) /\ Len(revs) < MaxRevisions
      BY <2>1 DEF Revise
    <3> HIDE DEF v
    <3> QED
      BY <3>1, <2>4, <1>2, Appended
  <2>6. UNCHANGED <<outside, evidence, reviewed, review, saved, outsides>>
    BY <2>1 DEF Revise
  <2>7. Grows
    BY <1>2, <2>5, <2>6 DEF Grows
  <2> QED
    BY <2>3, <2>5, <2>6, <2>7 DEF Inv, World, outside
<1>4. CASE \E a \in Actors, w \in Works : Claim(a, w) \/ Release(a, w)
  <2>1. PICK w \in Works, status \in Statuses, owner \in Actors \cup {Queue} : Moves(w, status, owner)
    BY <1>4 DEF Claim, Release, Statuses, Active
  <2>2. [status |-> status, owner |-> owner, version |-> work[w].version + 1] \in Row
    BY <1>1, <2>1, HandoffBounds DEF Moves, Row
  <2>3. work' \in [Works -> Row]
    BY <2>1, <2>2 DEF Moves, Inv, World
  <2>4. UNCHANGED <<revs, outside, evidence, reviewed, review, saved, outsides>>
    BY <2>1 DEF Moves
  <2> QED
    BY <1>2, <2>3, <2>4 DEF Inv, World, outside, Grows
<1> QED
  BY <1>3, <1>4

\* What others do to the rest of what a context pins.
LEMMA OutsideSteps ==
  ASSUME Inv,
         \/ \E content \in Contents :
              \/ Capture(content) \/ ChangeScope(content)
              \/ \E e \in DOMAIN evidence : ChangeEvidence(e, content)
              \/ \E x \in Records : ChangeRecord(x, content)
         \/ AppendReview
         \/ \E w \in Works, state \in Inputs : ChangeInput(w, state)
  PROVE  World' /\ Grows /\ UNCHANGED saved
<1>1. revs \in Seq(Revision) /\ review \in Nat /\ review \in 0..MaxReviews
      /\ evidence \in Seq(Contents) /\ outsides \in 0..MaxOutside
  BY HandoffBounds DEF Inv, World
<1>2. ASSUME Outside PROVE outsides' \in 0..MaxOutside
  BY <1>1, <1>2, HandoffBounds DEF Outside
<1>3. ASSUME NEW content \in Contents, Capture(content)
      PROVE  World' /\ Grows /\ UNCHANGED saved
  <2>1. evidence' \in Seq(Contents) /\ Len(evidence') <= MaxEvidence
        /\ DOMAIN evidence \subseteq DOMAIN evidence'
    BY <1>1, <1>3, HandoffBounds DEF Capture
  <2> QED
    BY <1>1, <1>2, <1>3, <2>1 DEF Capture, Inv, World, outside, Grows
<1>4. ASSUME NEW content \in Contents, NEW e \in DOMAIN evidence, ChangeEvidence(e, content)
      PROVE  World' /\ Grows /\ UNCHANGED saved
  <2>1. evidence' \in Seq(Contents) /\ Len(evidence') = Len(evidence)
        /\ DOMAIN evidence' = DOMAIN evidence
    BY <1>1, <1>4 DEF ChangeEvidence
  <2> QED
    BY <1>1, <1>2, <1>4, <2>1 DEF ChangeEvidence, Inv, World, outside, Grows
<1>5. ASSUME NEW content \in Contents, ChangeScope(content)
      PROVE  World' /\ Grows /\ UNCHANGED saved
  BY <1>1, <1>2, <1>5 DEF ChangeScope, Inv, World, Grows
<1>6. ASSUME NEW content \in Contents, NEW x \in Records, ChangeRecord(x, content)
      PROVE  World' /\ Grows /\ UNCHANGED saved
  BY <1>1, <1>2, <1>6 DEF ChangeRecord, Inv, World, Grows
<1>7. ASSUME AppendReview
      PROVE  World' /\ Grows /\ UNCHANGED saved
  BY <1>1, <1>2, <1>7, HandoffBounds DEF AppendReview, Inv, World, outside, Grows
<1>8. ASSUME NEW w \in Works, NEW state \in Inputs, ChangeInput(w, state)
      PROVE  World' /\ Grows /\ UNCHANGED saved
  BY <1>1, <1>2, <1>8 DEF ChangeInput, Inv, World, Grows
<1> QED
  BY <1>3, <1>4, <1>5, <1>6, <1>7, <1>8

\* No step breaks the invariant.
LEMMA NextInv ==
  ASSUME Inv, [Next]_vars
  PROVE  Inv'
<1>1. CASE HandoffStep
  BY <1>1, PrepareStep, SubmitStep, RejectStep, AcceptStep DEF HandoffStep
<1>2. CASE OtherStep
  BY <1>2, WorkSteps, OutsideSteps, WorldStep DEF OtherStep
<1>3. CASE UNCHANGED vars
  <2>1. World' /\ Grows /\ UNCHANGED saved
    BY <1>3 DEF vars, outside, Inv, World, Grows
  <2> QED
    BY <2>1, WorldStep
<1> QED
  BY <1>1, <1>2, <1>3 DEF Next

-----------------------------------------------------------------------------
(* The theorems. *)

\* The invariant holds in every reachable state.
THEOREM InvariantHolds == Spec => []Inv
<1>1. Init => Inv
  BY InitInv
<1>2. Inv /\ [Next]_vars => Inv'
  BY NextInv
<1> QED
  BY <1>1, <1>2, PTL DEF Spec

\* Everything saved is well formed, whatever happens between the calls.
THEOREM TypeCorrect == Spec => []TypeOK
<1>1. Inv => TypeOK
  BY TypeHalves DEF Inv
<1> QED
  BY <1>1, InvariantHolds, PTL

\* Of all the results made from one context at most one is ever accepted.
THEOREM AcceptedOnce == Spec => []OneAcceptancePerContext
<1>1. Inv => OneAcceptancePerContext
  BY DEF Inv, Ordered
<1> QED
  BY <1>1, InvariantHolds, PTL

\* Receipts change by rejections and acceptances only, and never again.
LEMMA ReceiptSteps ==
  ASSUME Inv, [Next]_vars, NEW r \in Results, receipt'[r] # receipt[r]
  PROVE  /\ receipt[r] \notin Resolved
         /\ receipt'[r] = "accept" => Acceptable(r)
<1>1. receipt \in [Results -> Resolved \cup {"none"}]
  BY DEF Inv, Artifacts
<1>2. CASE HandoffStep
  <2>1. CASE \E x \in Results : Reject(x)
    BY <1>1, <2>1 DEF Reject, Unresolved
  <2>2. CASE \E x \in {q \in Results : Acceptable(q)}, who \in Actors, ts \in [Works -> Changes],
                found \in UNION {[1..n -> Contents] : n \in 0..MaxEvidence} : Accept(x, who, ts, found)
    <3>1. PICK x \in Results : Acceptable(x) /\ receipt' = [receipt EXCEPT ![x] = "accept"]
      BY <2>2 DEF Accept
    <3> QED
      BY <1>1, <3>1 DEF Acceptable, Unresolved
  <2>3. CASE UNCHANGED receipt
    BY <2>3
  <2> QED
    BY <1>2, <2>1, <2>2, <2>3 DEF HandoffStep, Prepare, Submit
<1>3. CASE OtherStep
  BY <1>3, WorkSteps, OutsideSteps DEF OtherStep, saved
<1>4. CASE UNCHANGED vars
  BY <1>4 DEF vars, saved
<1> QED
  BY <1>2, <1>3, <1>4 DEF Next

\* A resolved result stays resolved the way it was.
THEOREM ReceiptsStand == Spec => ReceiptStands
<1>1. Inv /\ [Next]_vars
        => [\A r \in Results : receipt[r] \in Resolved => receipt'[r] = receipt[r]]_vars
  BY ReceiptSteps
<1> QED
  BY <1>1, InvariantHolds, PTL DEF Spec, ReceiptStands

\* Nothing that an accepted result replaces, directly or through others, is
\* accepted after it.
THEOREM ReplacedStayOut == Spec => SupersededNeverAccepted
<1>1. ASSUME Inv, [Next]_vars, NEW r \in Results, NEW q \in Results,
             AcceptedNow(r), receipt[q] = "accept"
      PROVE  r \notin Replaced(q)
  <2>1. Acceptable(r)
    BY <1>1, ReceiptSteps DEF AcceptedNow
  <2>2. Pinned(r) = review
    BY <1>1, <2>1, AcceptablePins
  <2>3. PICK S : Retires(q, S)
    BY <1>1 DEF Inv, Ordered
  <2>4. r \notin S
    BY <1>1, <2>2, <2>3, HandoffBounds DEF Retires, Inv, World
  <2> QED
    BY <2>3, <2>4 DEF Retires, Replaced
<1>2. Inv /\ [Next]_vars
        => [\A r, q \in Results :
              (AcceptedNow(r) /\ receipt[q] = "accept") => r \notin Replaced(q)]_vars
  BY <1>1
<1> QED
  BY <1>2, InvariantHolds, PTL DEF Spec, SupersededNeverAccepted

-----------------------------------------------------------------------------
(* What a complete context covers, and what voids a context.               *)

\* All the evidence that context c pins is in it, or was covered as pinned.
Covering(c) ==
  \A e \in DOMAIN c.ground.evidence : e \in c.seen \/ reviewed[e] = c.ground.evidence[e]

\* A complete context covers what it pins for as long as its review is current:
\* only an acceptance writes what was covered, and it appends a review.
Coverage ==
  \A k \in Contexts :
    (context[k] # Nothing /\ context[k].complete /\ context[k].ground.review = review)
      => Covering(context[k])

\* Until the next review nothing that a saved context covers is lost.
LEMMA CoverageKept ==
  ASSUME Inv, Coverage, review' >= review, review' \in Nat, UNCHANGED context,
         reviewed' = reviewed \/ review' > review
  PROVE  Coverage'
<1>1. \A k \in Contexts : context[k] # Nothing =>
        context[k].ground.review \in Nat /\ context[k].ground.review <= review
  BY DEF Inv, Artifacts, Ordered, Context, Pins
<1>2. review \in Nat
  BY HandoffBounds DEF Inv, World
<1>3. CASE review' > review
  <2>1. \A k \in Contexts : context[k] # Nothing => context[k].ground.review # review'
    BY <1>1, <1>2, <1>3
  <2> QED
    BY <2>1 DEF Coverage
<1>4. CASE review' = review /\ reviewed' = reviewed
  BY <1>4 DEF Coverage, Covering
<1> QED
  BY <1>2, <1>3, <1>4

LEMMA CoverageStep ==
  ASSUME Inv, Coverage, [Next]_vars
  PROVE  Coverage'
<1>0. review \in Nat
  BY HandoffBounds DEF Inv, World
<1>1. ASSUME NEW k \in Contexts, NEW a \in Actors, NEW w \in Works, NEW seen \in Selectable,
             Prepare(k, a, w, seen)
      PROVE  Coverage'
  <2> DEFINE c == [actor |-> a, work |-> w, head |-> Len(revs), task |-> Task(Latest.map, w),
                   ground |-> Ground(w), seen |-> seen, complete |-> Covers(seen)]
  <2>1. c.ground.evidence = evidence /\ c.seen = seen /\ (c.complete <=> Covers(seen))
    BY DEF Ground
  <2>2. context'[k] = c /\ \A j \in Contexts \ {k} : context'[j] = context[j]
    BY <1>1 DEF Prepare, Inv, Artifacts
  <2> HIDE DEF c
  <2>3. reviewed' = reviewed /\ review' = review
    BY <1>1 DEF Prepare
  <2>4. c.complete => Covering(c)
    BY <2>1 DEF Covering, Covers
  <2>5. \A j \in Contexts :
          (context'[j] # Nothing /\ context'[j].complete /\ context'[j].ground.review = review)
            => Covering(context'[j])
    BY <2>2, <2>4 DEF Coverage
  <2> QED
    BY <2>3, <2>5 DEF Coverage, Covering
<1>2. ASSUME NEW r \in Results, NEW k \in Contexts, NEW p \in Proposals,
             NEW earlier \in Results \cup {Nothing}, Submit(r, k, p, earlier)
      PROVE  Coverage'
  BY <1>0, <1>2, CoverageKept DEF Submit
<1>3. ASSUME NEW r \in Results, Reject(r)
      PROVE  Coverage'
  BY <1>0, <1>3, CoverageKept DEF Reject
<1>4. ASSUME NEW r \in Results, NEW who \in Actors, NEW ts \in [Works -> Changes],
             NEW found \in UNION {[1..n -> Contents] : n \in 0..MaxEvidence},
             Accept(r, who, ts, found)
      PROVE  Coverage'
  <2>1. UNCHANGED context /\ review' = review + 1
    BY <1>4 DEF Accept, NextReview
  <2> QED
    BY <1>0, <2>1, CoverageKept
<1>5. CASE OtherStep
  <2>1. World' /\ Grows /\ UNCHANGED saved
    BY <1>5, WorkSteps, OutsideSteps DEF OtherStep
  <2>2. UNCHANGED reviewed
    BY <1>5 DEF OtherStep, Revise, Claim, Release, Moves, Capture, ChangeScope, ChangeEvidence,
                ChangeRecord, AppendReview, ChangeInput
  <2>3. review' \in Nat /\ review' >= review
    BY <2>1, HandoffBounds DEF World, Grows
  <2> QED
    BY <2>1, <2>2, <2>3, CoverageKept DEF saved
<1>6. CASE UNCHANGED vars
  BY <1>0, <1>6, CoverageKept DEF vars, saved
<1> QED
  BY <1>1, <1>2, <1>3, <1>4, <1>5, <1>6 DEF Next, HandoffStep

LEMMA CoverageHolds == Spec => []Coverage
<1>1. Init => Coverage
  BY DEF Init, Coverage
<1>2. Inv /\ Coverage /\ [Next]_vars => Coverage'
  BY CoverageStep
<1> QED
  BY <1>1, <1>2, InvariantHolds, PTL DEF Spec

\* An acceptance covers what its context pins, what it cites and what it finds.
LEMMA AcceptCovers ==
  ASSUME Inv, Coverage, NEW r \in Results, Acceptable(r), NEW who \in Actors,
         NEW ts \in [Works -> Changes],
         NEW found \in UNION {[1..n -> Contents] : n \in 0..MaxEvidence},
         Accept(r, who, ts, found), context[result[r].context].complete
  PROVE  \A e \in DOMAIN evidence' : reviewed'[e] = evidence'[e]
<1> DEFINE p == result[r].proposal
           c == context[result[r].context]
<1>1. r \in Saved /\ Pinned(r) = review
  BY AcceptablePins
<1>2. result[r].context \in Contexts /\ c # Nothing
  BY <1>1 DEF Inv, Artifacts, ResultOK, Saved, Result
<1>3. c.ground.evidence = evidence /\ c.ground.review = review
  BY DEF Acceptable, Fresh, ContextHolds, Ground
<1>4. \A e \in DOMAIN evidence : e \in c.seen \/ reviewed[e] = evidence[e]
  BY <1>2, <1>3 DEF Coverage, Covering
<1>5. evidence \in Seq(Contents) /\ found \in Seq(Contents)
  BY HandoffBounds DEF Inv, World
<1>6. evidence' = evidence \o found /\ Len(evidence') <= MaxEvidence
  BY <1>5 DEF Accept
<1>7. /\ evidence' \in Seq(Contents)
      /\ DOMAIN evidence' = 1..Len(evidence')
      /\ \A e \in DOMAIN evidence : evidence'[e] = evidence[e]
      /\ \A e \in DOMAIN evidence' : e \in DOMAIN evidence \/ e \in (Len(evidence) + 1)..Len(evidence')
  BY <1>5, <1>6
<1>8. reviewed' = Covered(c, p, evidence')
  BY DEF Accept
<1> HIDE DEF p, c
<1>9. \A e \in 1..MaxEvidence :
        reviewed'[e] = IF e \in p.cites \cup ((Len(evidence) + 1)..Len(evidence')) THEN evidence'[e]
                       ELSE IF e \in c.seen THEN c.ground.evidence[e] ELSE reviewed[e]
  BY <1>8 DEF Covered
<1>10. DOMAIN evidence' \subseteq 1..MaxEvidence
  BY <1>6, <1>7, HandoffBounds
<1> QED
  BY <1>3, <1>4, <1>7, <1>9, <1>10

\* A result accepted from a complete context leaves no evidence uncovered, and
\* none that was captured, changed or found by others escapes it.
THEOREM AcceptanceCoversAll == Spec => CompleteAcceptanceCoversAll
<1>1. ASSUME Inv, Coverage, [Next]_vars, NEW r \in Results, AcceptedNow(r),
             context[result[r].context].complete
      PROVE  \A e \in DOMAIN evidence' : reviewed'[e] = evidence'[e]
  <2>1. receipt'[r] # receipt[r] /\ receipt'[r] = "accept"
    BY <1>1 DEF AcceptedNow
  <2>2. Acceptable(r)
    BY <1>1, <2>1, ReceiptSteps
  <2>3. \E who \in Actors, ts \in [Works -> Changes],
           found \in UNION {[1..n -> Contents] : n \in 0..MaxEvidence} : Accept(r, who, ts, found)
    <3>1. receipt \in [Results -> Resolved \cup {"none"}]
      BY <1>1 DEF Inv, Artifacts
    <3>2. CASE HandoffStep
      <4>1. ~\E x \in Results : Reject(x)
        BY <2>1, <3>1 DEF Reject
      <4>2. ASSUME NEW x \in Results, NEW who \in Actors, NEW ts \in [Works -> Changes],
                   NEW found \in UNION {[1..n -> Contents] : n \in 0..MaxEvidence},
                   Accept(x, who, ts, found)
            PROVE  x = r
        BY <2>1, <3>1, <4>2 DEF Accept
      <4> QED
        BY <2>1, <3>2, <4>1, <4>2 DEF HandoffStep, Prepare, Submit
    <3>3. CASE OtherStep
      BY <1>1, <2>1, <3>3, WorkSteps, OutsideSteps DEF OtherStep, saved
    <3>4. CASE UNCHANGED vars
      BY <2>1, <3>4 DEF vars, saved
    <3> QED
      BY <1>1, <3>2, <3>3, <3>4 DEF Next
  <2> QED
    BY <1>1, <2>2, <2>3, AcceptCovers
<1>2. Inv /\ Coverage /\ [Next]_vars
        => [\A r \in Results :
              (AcceptedNow(r) /\ context[result[r].context].complete)
                 => \A e \in DOMAIN evidence' : reviewed'[e] = evidence'[e]]_vars
  BY <1>1
<1> QED
  BY <1>2, InvariantHolds, CoverageHolds, PTL DEF Spec, CompleteAcceptanceCoversAll

\* A result that can be accepted has seen no revision but its claimant's.
LEMMA AcceptableIsNotVoided ==
  ASSUME Inv, NEW r \in Results, Acceptable(r)
  PROVE  ~Voided(result[r].context)
<1>1. r \in Saved /\ Fresh(r)
  BY AcceptablePins DEF Acceptable
<1> SUFFICES ASSUME NEW n \in (context[result[r].context].head + 1)..Len(revs)
             PROVE  revs[n].actor = context[result[r].context].actor
  BY DEF Voided
<1>2. context[result[r].context].head \in Nat /\ Len(revs) \in Nat
  BY <1>1, HandoffBounds DEF Inv, World, Artifacts, ResultOK, ContextOK, Saved, Result
<1>3. Len(revs) # context[result[r].context].head
  BY <1>2
<1> QED
  BY <1>1, <1>3 DEF Fresh, ContextHolds, Compatible

\* A context that somebody else's revision has voided stays void: no later step, of
\* the claimant or of others, revives it or accepts a result of it.
THEOREM ForeignRevisionVoidsForGood == Spec => VoidedForGood
<1>1. ASSUME Inv, [Next]_vars, NEW k \in Contexts, Voided(k)
      PROVE  /\ Voided(k)'
             /\ \A r \in Results : AcceptedNow(r) => result[r].context # k
  <2>1. /\ Len(revs') >= Len(revs) /\ Len(revs) \in Nat /\ Len(revs') \in Nat
        /\ \A n \in 1..Len(revs) : revs'[n] = revs[n]
    <3>1. revs \in Seq(Revision) /\ Len(revs) \in Nat
      BY <1>1 DEF Inv, World
    <3>2. ASSUME NEW r \in Results, NEW who \in Actors, NEW ts \in [Works -> Changes],
                 NEW found \in UNION {[1..n -> Contents] : n \in 0..MaxEvidence},
                 Acceptable(r), Accept(r, who, ts, found)
          PROVE  World' /\ Grows
      BY <1>1, <3>2, AcceptWorld
    <3>3. CASE HandoffStep
      BY <3>1, <3>2, <3>3 DEF HandoffStep, Prepare, Submit, Reject, World, Grows
    <3>4. CASE OtherStep
      BY <1>1, <3>1, <3>4, WorkSteps, OutsideSteps DEF OtherStep, World, Grows
    <3>5. CASE UNCHANGED vars
      BY <3>1, <3>5 DEF vars
    <3> QED
      BY <1>1, <3>3, <3>4, <3>5 DEF Next
  <2>2. context'[k] = context[k]
    <3>1. CASE HandoffStep
      <4>1. ASSUME NEW j \in Contexts, NEW a \in Actors, NEW w \in Works, NEW seen \in Selectable,
                   Prepare(j, a, w, seen)
            PROVE  context'[k] = context[k]
        BY <1>1, <4>1 DEF Prepare, Voided, Inv, Artifacts
      <4> QED
        BY <3>1, <4>1 DEF HandoffStep, Submit, Reject, Accept
    <3>2. CASE OtherStep
      BY <1>1, <3>2, WorkSteps, OutsideSteps DEF OtherStep, saved
    <3>3. CASE UNCHANGED vars
      BY <3>3 DEF vars, saved
    <3> QED
      BY <1>1, <3>1, <3>2, <3>3 DEF Next
  <2>3. context[k].head \in Nat
    BY <1>1 DEF Voided, Inv, Artifacts, Context
  <2>4. PICK n \in (context[k].head + 1)..Len(revs) : revs[n].actor # context[k].actor
    BY <1>1 DEF Voided
  <2>5. n \in 1..Len(revs) /\ n \in (context[k].head + 1)..Len(revs')
    BY <2>1, <2>3
  <2>6. Voided(k)'
    BY <1>1, <2>1, <2>2, <2>4, <2>5 DEF Voided
  <2>7. ASSUME NEW r \in Results, AcceptedNow(r)
        PROVE  result[r].context # k
    <3>1. Acceptable(r)
      BY <1>1, <2>7, ReceiptSteps DEF AcceptedNow
    <3> QED
      BY <1>1, <3>1, AcceptableIsNotVoided
  <2> QED
    BY <2>6, <2>7
<1>2. Inv /\ [Next]_vars
        => [\A k \in Contexts : Voided(k) =>
              /\ Voided(k)'
              /\ \A r \in Results : AcceptedNow(r) => result[r].context # k]_vars
  BY <1>1
<1> QED
  BY <1>2, InvariantHolds, PTL DEF Spec, VoidedForGood

-----------------------------------------------------------------------------
(* Contexts as offers. *)

ShownNow     == [w \in Works |-> Shown(w)]
ContextsAre  == [k \in Contexts |-> ContextStatus(k)]
ContextsRest == [k \in Contexts |-> ContextBasis(k)]

\* Nobody has accepted a result of k.
Unused(k) == \A r \in Results : ~(receipt[r] = "accept" /\ result[r].context = k)

\* A step after which the same contexts are used up is nothing to them.
LEMMA ContextsStay ==
  ASSUME UNCHANGED context, \A k \in Contexts : Unused(k)' <=> Unused(k)
  PROVE  ContextOffers!Next
<1>1. \A k \in Contexts : ContextStatus(k)' = ContextStatus(k) /\ ContextBasis(k)' = ContextBasis(k)
  BY DEF ContextStatus, ContextBasis, Unused
<1> QED
  BY <1>1 DEF ContextOffers!Next, ContextOffers!Change

LEMMA ContextOffered ==
  ASSUME Inv, NEW k \in Contexts, NEW a \in Actors, NEW w \in Works, NEW seen \in Selectable,
         Prepare(k, a, w, seen)
  PROVE  ContextOffers!Make(k)
<1> DEFINE c == [actor |-> a, work |-> w, head |-> Len(revs), task |-> Task(Latest.map, w),
                 ground |-> Ground(w), seen |-> seen, complete |-> Covers(seen)]
<1>1. context[k] = Nothing /\ context' = [context EXCEPT ![k] = c] /\ UNCHANGED <<result, receipt>>
  BY DEF Prepare
<1>2. context'[k] = c /\ \A j \in Contexts \ {k} : context'[j] = context[j]
  BY <1>1 DEF Inv, Artifacts
<1>3. c # Nothing
  BY NewContext
<1>4. c.work = w /\ c.ground = Ground(w) /\ c.task = Task(Latest.map, w)
  OBVIOUS
<1> HIDE DEF c
<1>5. Unused(k)
  BY <1>1 DEF Unused, Inv, Artifacts, ResultOK, Saved
<1>6. ContextStatus(k) = "absent" /\ ContextStatus(k)' = "open"
  BY <1>1, <1>2, <1>3, <1>5 DEF ContextStatus, Unused
<1>7. ContextBasis(k)' = [t \in {w} |-> ShownNow[t]]
  BY <1>2, <1>3, <1>4 DEF ContextBasis, ShownNow, Shown
<1>8. \A j \in Contexts \ {k} : ContextStatus(j)' = ContextStatus(j) /\ ContextBasis(j)' = ContextBasis(j)
  BY <1>1, <1>2 DEF ContextStatus, ContextBasis
<1>9. ContextsAre' = [ContextsAre EXCEPT ![k] = "open"]
  BY <1>6, <1>8 DEF ContextsAre
<1>10. \E on \in SUBSET Works : ContextsRest' = [ContextsRest EXCEPT ![k] = [t \in on |-> ShownNow[t]]]
  BY <1>7, <1>8, {w} \in SUBSET Works DEF ContextsRest
<1> QED
  BY <1>6, <1>9, <1>10 DEF ContextOffers!Make, ContextsAre, ContextsRest, ShownNow

\* Each saved result has its context, and an accepted one pins an earlier review.
LEMMA ContextOfResult ==
  ASSUME Inv, NEW r \in Saved
  PROVE  /\ result[r] \in Result /\ result[r].context \in Contexts
         /\ context[result[r].context] \in Context /\ context[result[r].context] # Nothing
         /\ ContextOK(context[result[r].context])
<1>1. result[r] \in Result /\ ResultOK(result[r])
  BY DEF Inv, Artifacts, Saved
<1>2. result[r].context \in Contexts
  BY <1>1 DEF Result
<1> QED
  BY <1>1, <1>2 DEF Inv, Artifacts, ResultOK

LEMMA ContextAccepted ==
  ASSUME Inv, NEW r \in Results, Acceptable(r), NEW who \in Actors, NEW ts \in [Works -> Changes],
         NEW found, Accept(r, who, ts, found)
  PROVE  ContextOffers!Accept(result[r].context)
<1>1. r \in Saved /\ Pinned(r) = review /\ receipt[r] # "accept"
  BY AcceptablePins
<1>2. PICK k \in Contexts, c \in Context :
         k = result[r].context /\ c = context[k] /\ c # Nothing /\ ContextOK(c)
  BY <1>1, ContextOfResult
<1>3. ASSUME NEW q \in Results, receipt[q] = "accept"
      PROVE  result[q].context # k
  <2>1. Pinned(q) < review /\ review \in Nat
    BY <1>3, HandoffBounds DEF Inv, Ordered, World
  <2> QED
    BY <1>1, <1>2, <2>1 DEF Pinned
<1>4. ContextStatus(k) = "open"
  BY <1>2, <1>3 DEF ContextStatus
<1>5. receipt' = [receipt EXCEPT ![r] = "accept"] /\ UNCHANGED <<context, result>>
  BY DEF Accept
<1>6. receipt'[r] = "accept" /\ \A q \in Results \ {r} : receipt'[q] = receipt[q]
  BY <1>5 DEF Inv, Artifacts
<1>7. ContextStatus(k)' = "accepted"
  BY <1>2, <1>5, <1>6 DEF ContextStatus
<1>8. \A j \in Contexts \ {k} : ContextStatus(j)' = ContextStatus(j)
  BY <1>1, <1>2, <1>5, <1>6 DEF ContextStatus
<1>9. \A j \in Contexts : ContextBasis(j)' = ContextBasis(j)
  BY <1>5 DEF ContextBasis
<1>10. ContextsAre' = [ContextsAre EXCEPT ![k] = "accepted"] /\ ContextsRest' = ContextsRest
  BY <1>7, <1>8, <1>9 DEF ContextsAre, ContextsRest
<1>11. c.work \in Works /\ c.ground = Ground(c.work) /\ ContextHolds(c)
  BY <1>2 DEF Context, Acceptable, Fresh, ContextHolds
<1>12. c.task = Task(Latest.map, c.work)
  <2>1. Len(revs) \in Nat /\ c.head \in 1..Len(revs) /\ c.task = Task(revs[c.head].map, c.work)
    BY <1>2 DEF ContextOK, Inv, World
  <2>2. CASE Len(revs) = c.head
    BY <2>1, <2>2 DEF Latest
  <2>3. CASE Len(revs) # c.head
    <3>1. Len(revs) \in (c.head + 1)..Len(revs)
      BY <2>1, <2>3
    <3>2. Compatible(c)
      BY <1>11, <2>3 DEF ContextHolds
    <3> QED
      BY <3>1, <3>2 DEF Compatible, Latest
  <2> QED
    BY <2>2, <2>3
<1>13. \A t \in DOMAIN ContextBasis(k) : ContextBasis(k)[t] = ShownNow[t]
  BY <1>2, <1>11, <1>12 DEF ContextBasis, ShownNow, Shown
<1> QED
  BY <1>2, <1>4, <1>10, <1>13 DEF ContextOffers!Accept, ContextsAre, ContextsRest, ShownNow

LEMMA ContextStep ==
  Inv /\ [Next]_vars => [ContextOffers!Next]_<<ShownNow, ContextsAre, ContextsRest>>
<1> SUFFICES ASSUME Inv, [Next]_vars
             PROVE  ContextOffers!Next
  OBVIOUS
<1>1. ASSUME UNCHANGED saved PROVE ContextOffers!Next
  BY <1>1, ContextsStay DEF saved, Unused
<1>2. CASE UNCHANGED vars
  BY <1>1, <1>2 DEF vars
<1>3. CASE OtherStep
  BY <1>1, <1>3 DEF OtherStep, Revise, Claim, Release, Moves, Capture, ChangeScope, ChangeEvidence,
                    ChangeRecord, AppendReview, ChangeInput, saved
<1>4. CASE HandoffStep
  <2>1. ASSUME NEW k \in Contexts, NEW a \in Actors, NEW w \in Works, NEW seen \in Selectable,
               Prepare(k, a, w, seen)
        PROVE  ContextOffers!Next
    BY <2>1, ContextOffered DEF ContextOffers!Next
  <2>2. ASSUME NEW r \in Results, NEW k \in Contexts, NEW p \in Proposals,
               NEW earlier \in Results \cup {Nothing}, Submit(r, k, p, earlier)
        PROVE  ContextOffers!Next
    <3>1. /\ result[r] = Nothing /\ UNCHANGED <<context, receipt>>
          /\ \A q \in Results \ {r} : result'[q] = result[q]
      BY <2>2 DEF Submit, Inv, Artifacts
    <3>2. receipt[r] = "none"
      BY <3>1 DEF Inv, Artifacts, Saved
    <3>3. \A k2 \in Contexts : Unused(k2)' <=> Unused(k2)
      BY <3>1, <3>2 DEF Unused
    <3> QED
      BY <3>1, <3>3, ContextsStay
  <2>3. ASSUME NEW r \in Results, Reject(r)
        PROVE  ContextOffers!Next
    <3>1. /\ UNCHANGED <<context, result>> /\ receipt[r] # "accept" /\ receipt'[r] # "accept"
          /\ \A q \in Results \ {r} : receipt'[q] = receipt[q]
      BY <2>3 DEF Reject, Unresolved, Resolved, Inv, Artifacts
    <3>2. \A k \in Contexts : Unused(k)' <=> Unused(k)
      BY <3>1 DEF Unused
    <3> QED
      BY <3>1, <3>2, ContextsStay
  <2>4. ASSUME NEW r \in Results, Acceptable(r), NEW who \in Actors, NEW ts \in [Works -> Changes],
               NEW found, Accept(r, who, ts, found)
        PROVE  ContextOffers!Next
    BY <2>4, ContextAccepted, AcceptablePins, ContextOfResult DEF ContextOffers!Next
  <2> QED
    BY <1>4, <2>1, <2>2, <2>3, <2>4 DEF HandoffStep
<1> QED
  BY <1>2, <1>3, <1>4 DEF Next

LEMMA ContextInit == Init => ContextOffers!Init
BY DEF Init, ContextOffers!Init, ContextStatus, ContextBasis

\* Contexts implement OptimisticAcceptance: a result is accepted over the task and
\* the state of its work that the context recorded, and no two of one context.
THEOREM ContextsAreOptimistic == Spec => AcceptsWhatWasShown
  BY ContextInit, ContextStep, InvariantHolds, PTL
     DEF Spec, AcceptsWhatWasShown, ContextOffers!Spec, ShownNow, ContextsAre, ContextsRest

-----------------------------------------------------------------------------
(* Results as offers. *)

LooksNow    == [x \in References |-> Looks(x)]
ResultsAre  == [r \in Results |-> ResultStatus(r)]
ResultsRest == [r \in Results |-> ResultBasis(r)]

\* A result holds what it cites of the evidence, and that exists.
Cited == \A r \in Saved : DOMAIN result[r].evidence = result[r].proposal.cites

LEMMA CitedStep == Inv /\ Cited /\ [Next]_vars => Cited'
<1> SUFFICES ASSUME Inv, Cited, [Next]_vars
             PROVE  Cited'
  OBVIOUS
<1>1. ASSUME result' = result PROVE Cited'
  BY <1>1 DEF Cited, Saved
<1>2. ASSUME NEW r \in Results, NEW k \in Contexts, NEW p \in Proposals,
             NEW earlier \in Results \cup {Nothing}, Submit(r, k, p, earlier)
      PROVE  Cited'
  <2> DEFINE q == [context |-> k, proposal |-> p, supersedes |-> earlier,
                   records  |-> [x \in DOMAIN p.judges |-> record[x]],
                   evidence |-> [e \in p.cites |-> evidence[e]]]
  <2>1. result' = [result EXCEPT ![r] = q]
    BY <1>2 DEF Submit
  <2>2. result'[r] = q /\ \A x \in Results \ {r} : result'[x] = result[x]
    BY <2>1 DEF Inv, Artifacts
  <2>3. DOMAIN q.evidence = q.proposal.cites
    OBVIOUS
  <2> HIDE DEF q
  <2> QED
    BY <2>2, <2>3 DEF Cited, Saved
<1>3. CASE OtherStep \/ UNCHANGED vars
  BY <1>1, <1>3 DEF OtherStep, Revise, Claim, Release, Moves, Capture, ChangeScope, ChangeEvidence,
                    ChangeRecord, AppendReview, ChangeInput, saved, vars
<1>4. CASE HandoffStep
  BY <1>1, <1>2, <1>4 DEF HandoffStep, Prepare, Reject, Accept
<1> QED
  BY <1>3, <1>4 DEF Next

LEMMA CitedHolds == Spec => [](Inv /\ Cited)
<1>1. Init => Cited
  BY DEF Init, Cited, Saved
<1> QED
  BY <1>1, CitedStep, InvariantHolds, PTL DEF Spec

\* One result changes its status, and its basis or not.
LEMMA OneResult ==
  ASSUME NEW r \in Results,
         \A q \in Results \ {r} : result'[q] = result[q] /\ receipt'[q] = receipt[q]
  PROVE  /\ ResultsAre' = [ResultsAre EXCEPT ![r] = ResultStatus(r)']
         /\ ResultsRest' = [ResultsRest EXCEPT ![r] = ResultBasis(r)']
         /\ result'[r] = result[r] => ResultsRest' = ResultsRest
<1>1. \A q \in Results \ {r} : ResultStatus(q)' = ResultStatus(q) /\ ResultBasis(q)' = ResultBasis(q)
  BY DEF ResultStatus, ResultBasis
<1>2. result'[r] = result[r] => ResultBasis(r)' = ResultBasis(r)
  BY DEF ResultBasis
<1> QED
  BY <1>1, <1>2 DEF ResultsAre, ResultsRest

LEMMA ResultOffered ==
  ASSUME Inv, NEW r \in Results, NEW k \in Contexts, NEW p \in Proposals,
         NEW earlier \in Results \cup {Nothing}, Submit(r, k, p, earlier)
  PROVE  ResultOffers!Make(r)
<1> DEFINE q == [context |-> k, proposal |-> p, supersedes |-> earlier,
                 records  |-> [x \in DOMAIN p.judges |-> record[x]],
                 evidence |-> [e \in p.cites |-> evidence[e]]]
           on == ({"record"} \X DOMAIN p.judges) \cup ({"evidence"} \X p.cites)
<1>1. /\ result[r] = Nothing /\ result' = [result EXCEPT ![r] = q] /\ receipt' = receipt
      /\ p.cites \subseteq DOMAIN evidence
  BY DEF Submit
<1>2. result'[r] = q /\ \A x \in Results \ {r} : result'[x] = result[x]
  BY <1>1 DEF Inv, Artifacts
<1>3. q # Nothing
  BY <1>1, NewResult
<1>4. receipt[r] = "none"
  BY <1>1 DEF Inv, Artifacts, Saved
<1>5. q.records = [x \in DOMAIN p.judges |-> record[x]] /\ q.evidence = [e \in p.cites |-> evidence[e]]
  OBVIOUS
<1> HIDE DEF q
<1>6. ResultStatus(r) = "absent" /\ ResultStatus(r)' = "open"
  BY <1>1, <1>2, <1>3, <1>4 DEF ResultStatus
<1>7. DOMAIN p.judges \subseteq Records /\ p.cites \subseteq 1..MaxEvidence
  <2>1. p \in Proposal
    BY HandoffInputs
  <2> QED
    BY <2>1 DEF Proposal
<1>8. on \in SUBSET References
  BY <1>7 DEF References
<1>9. ResultBasis(r)' = [x \in on |-> LooksNow[x]]
  <2>1. ResultBasis(r)' = [x \in on |-> IF x[1] = "record" THEN q.records[x[2]] ELSE q.evidence[x[2]]]
    BY <1>2, <1>3, <1>5 DEF ResultBasis
  <2>2. ASSUME NEW x \in on
        PROVE  (IF x[1] = "record" THEN q.records[x[2]] ELSE q.evidence[x[2]]) = LooksNow[x]
    <3>1. LooksNow[x] = Looks(x)
      BY <1>8 DEF LooksNow
    <3> QED
      BY <1>1, <1>5, <3>1 DEF Looks
  <2> HIDE DEF on
  <2> QED
    BY <2>1, <2>2
<1>10. /\ ResultsAre' = [ResultsAre EXCEPT ![r] = "open"]
       /\ ResultsRest' = [ResultsRest EXCEPT ![r] = [x \in on |-> LooksNow[x]]]
  BY <1>1, <1>2, <1>6, <1>9, OneResult
<1> HIDE DEF on
<1>11. \E s \in SUBSET References : ResultsRest' = [ResultsRest EXCEPT ![r] = [x \in s |-> LooksNow[x]]]
  BY <1>8, <1>10
<1> QED
  BY <1>6, <1>10, <1>11 DEF ResultOffers!Make, ResultsAre, ResultsRest, LooksNow

LEMMA ResultRejected ==
  ASSUME Inv, NEW r \in Results, Reject(r)
  PROVE  ResultOffers!Withdraw(r)
<1>1. /\ result[r] # Nothing /\ receipt[r] \notin Resolved /\ receipt'[r] = "reject"
      /\ \A q \in Results \ {r} : receipt'[q] = receipt[q]
      /\ UNCHANGED <<result, record, evidence>>
  BY DEF Reject, Unresolved, Inv, Artifacts, outside
<1>2. ResultStatus(r) = "open" /\ ResultStatus(r)' = "withdrawn"
  BY <1>1 DEF ResultStatus, Resolved
<1>3. ResultsAre' = [ResultsAre EXCEPT ![r] = "withdrawn"] /\ ResultsRest' = ResultsRest
  BY <1>1, <1>2, OneResult
<1>4. LooksNow' = LooksNow
  BY <1>1 DEF LooksNow, Looks
<1> QED
  BY <1>2, <1>3, <1>4 DEF ResultOffers!Withdraw, ResultsAre, ResultsRest, LooksNow

LEMMA ResultAccepted ==
  ASSUME Inv, Cited, NEW r \in Results, Acceptable(r), NEW who \in Actors,
         NEW ts \in [Works -> Changes], NEW found, Accept(r, who, ts, found)
  PROVE  ResultOffers!Accept(r)
<1>1. /\ result[r] # Nothing /\ receipt[r] \notin Resolved /\ Fresh(r) /\ r \in Saved
  BY DEF Acceptable, Unresolved, Saved
<1>2. receipt'[r] = "accept" /\ result' = result
      /\ \A q \in Results \ {r} : receipt'[q] = receipt[q]
  BY DEF Accept, Inv, Artifacts
<1>3. ResultStatus(r) = "open" /\ ResultStatus(r)' = "accepted"
  BY <1>1, <1>2 DEF ResultStatus, Resolved
<1>4. ResultsAre' = [ResultsAre EXCEPT ![r] = "accepted"] /\ ResultsRest' = ResultsRest
  BY <1>2, <1>3, OneResult
<1>5. /\ DOMAIN result[r].records \subseteq Records
      /\ DOMAIN result[r].evidence \subseteq 1..MaxEvidence
      /\ DOMAIN result[r].evidence \subseteq DOMAIN evidence
  <2>1. result[r] \in Result /\ ResultOK(result[r])
    BY <1>1 DEF Inv, Artifacts
  <2> QED
    BY <1>1, <2>1 DEF Result, ResultOK, Cited
<1> DEFINE on == ({"record"} \X DOMAIN result[r].records)
                    \cup ({"evidence"} \X DOMAIN result[r].evidence)
<1>6. ResultBasis(r) = [x \in on |-> IF x[1] = "record" THEN result[r].records[x[2]]
                                     ELSE result[r].evidence[x[2]]]
  BY <1>1 DEF ResultBasis
<1>7. ASSUME NEW x \in on
      PROVE  (IF x[1] = "record" THEN result[r].records[x[2]] ELSE result[r].evidence[x[2]])
                = LooksNow[x]
  <2>1. x \in References
    BY <1>5 DEF References
  <2>2. LooksNow[x] = Looks(x)
    BY <2>1 DEF LooksNow
  <2> QED
    BY <1>1, <1>5, <2>2 DEF Fresh, Looks
<1> HIDE DEF on
<1>8. \A x \in DOMAIN ResultBasis(r) : ResultBasis(r)[x] = LooksNow[x]
  BY <1>6, <1>7
<1> QED
  BY <1>3, <1>4, <1>8 DEF ResultOffers!Accept, ResultsAre, ResultsRest, LooksNow

LEMMA ResultStep ==
  Inv /\ Cited /\ [Next]_vars => [ResultOffers!Next]_<<LooksNow, ResultsAre, ResultsRest>>
<1> SUFFICES ASSUME Inv, Cited, [Next]_vars
             PROVE  ResultOffers!Next
  OBVIOUS
<1>1. ASSUME UNCHANGED <<result, receipt>> PROVE ResultOffers!Next
  <2>1. \A r \in Results : ResultStatus(r)' = ResultStatus(r) /\ ResultBasis(r)' = ResultBasis(r)
    BY <1>1 DEF ResultStatus, ResultBasis
  <2> QED
    BY <2>1 DEF ResultOffers!Next, ResultOffers!Change
<1>2. CASE OtherStep \/ UNCHANGED vars
  BY <1>1, <1>2 DEF OtherStep, Revise, Claim, Release, Moves, Capture, ChangeScope, ChangeEvidence,
                    ChangeRecord, AppendReview, ChangeInput, saved, vars
<1>3. CASE HandoffStep
  <2>1. ASSUME NEW k \in Contexts, NEW a \in Actors, NEW w \in Works, NEW seen \in Selectable,
               Prepare(k, a, w, seen)
        PROVE  ResultOffers!Next
    BY <1>1, <2>1 DEF Prepare
  <2>2. ASSUME NEW r \in Results, NEW k \in Contexts, NEW p \in Proposals,
               NEW earlier \in Results \cup {Nothing}, Submit(r, k, p, earlier)
        PROVE  ResultOffers!Next
    BY <2>2, ResultOffered DEF ResultOffers!Next
  <2>3. ASSUME NEW r \in Results, Reject(r)
        PROVE  ResultOffers!Next
    BY <2>3, ResultRejected DEF ResultOffers!Next
  <2>4. ASSUME NEW r \in Results, Acceptable(r), NEW who \in Actors, NEW ts \in [Works -> Changes],
               NEW found, Accept(r, who, ts, found)
        PROVE  ResultOffers!Next
    BY <2>4, ResultAccepted DEF ResultOffers!Next
  <2> QED
    BY <1>3, <2>1, <2>2, <2>3, <2>4 DEF HandoffStep
<1> QED
  BY <1>2, <1>3 DEF Next

LEMMA ResultInit == Init => ResultOffers!Init
BY DEF Init, ResultOffers!Init, ResultStatus, ResultBasis

\* Results implement OptimisticAcceptance: one is accepted over the records and the
\* evidence it was submitted with, and ends once.
THEOREM ResultsAreOptimistic == Spec => AcceptsWhatWasCited
  BY ResultInit, ResultStep, CitedHolds, PTL
     DEF Spec, AcceptsWhatWasCited, ResultOffers!Spec, LooksNow, ResultsAre, ResultsRest

=============================================================================
