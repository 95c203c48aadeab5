------------------------- MODULE DecisionMapsProofs -------------------------
(***************************************************************************)
(* Type correctness of DecisionMaps, and that no active work on which the  *)
(* map records a review is ever started, for any number of work items,     *)
(* records, callers and drafts.                                            *)
(***************************************************************************)
EXTENDS DecisionMaps, MapGraphProofs

-----------------------------------------------------------------------------
(* Rows. *)

\* A treatment of active work gives a row with the next version, and starts nothing.
LEMMA TreatedRowFacts ==
  ASSUME NEW row \in Row, NEW t \in Treatment, row.status \in Active,
         row.version + 1 <= MaxVersion
  PROVE  /\ TreatedRow(row, t) \in Row
         /\ TreatedRow(row, t).version = row.version + 1
         /\ TreatedRow(row, t).status # "absent"
         /\ TreatedRow(row, t).status = "in_progress" => row.status = "in_progress"
<1>1. /\ row.status \in Statuses \cup {"absent"}
      /\ row.owner \in Actors \cup {Unclaimed}
      /\ row.version \in 1..MaxVersion
      /\ row.reason \in Reasons
      /\ row.content \in Contents
  BY DEF Row
<1>2. row.version + 1 \in 1..MaxVersion
  BY <1>1, BoundsAreNat
<1>3. t.action \in {"keep", "pause", "cancel", "revise"}
      /\ (t.action = "revise" => t.content \in Contents)
  BY DEF Treatment
<1>4. /\ TreatedStatus(row, t) \in Statuses
      /\ TreatedStatus(row, t) # "absent"
      /\ TreatedStatus(row, t) = "in_progress" => row.status = "in_progress"
  BY <1>1, <1>3 DEF TreatedStatus, Statuses, Active
<1>5. TreatedReason(row, t) \in Reasons
  BY <1>1, <1>3 DEF TreatedReason, Reasons
<1> QED
  BY <1>1, <1>2, <1>3, <1>4, <1>5 DEF TreatedRow, Row

\* What a revision may do to the rows: a treated or an affected active row gets
\* the next version, every other row stays as it is.
LEMMA RevisedRowsFacts ==
  ASSUME NEW rows \in [Works -> Row], NEW ts, DOMAIN ts \subseteq Works,
         \A w \in DOMAIN ts : ts[w] \in Treatment /\ IsActive(rows, w),
         NEW affected,
         \A w \in Works : ~(RevisedRows(rows, ts, affected)[w].version > MaxVersion),
         NEW w \in Works
  PROVE  LET new == RevisedRows(rows, ts, affected)[w]
         IN  /\ new \in Row
             /\ new = rows[w] \/ new.version = rows[w].version + 1
             /\ w \in DOMAIN ts => new.version = rows[w].version + 1
             /\ (w \in affected /\ IsActive(rows, w)) => new.version = rows[w].version + 1
             /\ rows[w].status # "absent" => new.status # "absent"
             /\ new.status = "in_progress" => rows[w].status = "in_progress"
<1> DEFINE new == RevisedRows(rows, ts, affected)[w]
<1>1. rows[w] \in Row /\ rows[w].version \in Nat
  BY BoundsAreNat DEF Row
<1>2. CASE w \in DOMAIN ts
  <2>1. new = TreatedRow(rows[w], ts[w])
    BY <1>2 DEF RevisedRows
  <2>2. ts[w] \in Treatment /\ rows[w].status \in Active
    BY <1>2 DEF IsActive
  <2>3. TreatedRow(rows[w], ts[w]).version = rows[w].version + 1
    BY <1>1 DEF TreatedRow, Row
  <2>4. rows[w].version + 1 <= MaxVersion
    BY <1>1, <2>1, <2>3, BoundsAreNat
  <2> QED
    BY <1>1, <2>1, <2>2, <2>4, TreatedRowFacts
<1>3. CASE w \notin DOMAIN ts /\ w \in affected /\ IsActive(rows, w)
  <2>1. new = NextRow(rows[w], rows[w].status, rows[w].owner)
    BY <1>3 DEF RevisedRows
  <2>2. rows[w].version + 1 \in 1..MaxVersion
    BY <1>1, <2>1, BoundsAreNat DEF NextRow
  <2> QED
    BY <1>1, <1>3, <2>1, <2>2 DEF Row, NextRow
<1>4. CASE w \notin DOMAIN ts /\ ~(w \in affected /\ IsActive(rows, w))
  BY <1>1, <1>4 DEF RevisedRows
<1> QED
  BY <1>2, <1>3, <1>4

-----------------------------------------------------------------------------
(* Drafts. *)

\* Adding new work to a valid draft gives a valid draft.
LEMMA WithWorkFacts ==
  ASSUME NEW d, GraphRules(d), NEW w \in Works, w \notin Nodes(d), NEW c
  PROVE  /\ GraphRules(WithWork(d, w, c))
         /\ Refs(WithWork(d, w, c)) \subseteq Refs(d) \cup {w}
<1> DEFINE new  == WithWork(d, w, c)
           goals == {n \in Nodes(d) : d.node[n].kind = "goal"}
           add(g) == [source |-> w, target |-> g, kind |-> "contributes_to", text |-> NoRef]
<1>1. /\ Nodes(new) = Nodes(d) \cup {w}
      /\ new.node[w] = [kind |-> "record", ref |-> w, text |-> c]
      /\ \A n \in Nodes(d) : new.node[n] = d.node[n]
      /\ new.focus = {w}
  BY DEF WithWork, Nodes
<1>2. new.edge = d.edge \/ \E g \in Nodes(d) : new.edge = d.edge \cup {add(g)}
  BY DEF WithWork
<1>3. \A e \in new.edge : e \in d.edge \/ \E g \in Nodes(d) : e = add(g)
  BY <1>2
<1>4. \A e \in d.edge : e.source \in Nodes(d) /\ e.target \in Nodes(d)
  BY DEF GraphRules, EndpointsExist
<1> HIDE DEF new
<1>5. EndpointsExist(new)
  BY <1>1, <1>3, <1>4 DEF EndpointsExist
<1>6. NoDuplicateEdge(new)
  BY <1>2, <1>4 DEF GraphRules, NoDuplicateEdge
<1>7. RefOnRecordsOnly(new)
  BY <1>1, RefsDistinct DEF GraphRules, RefOnRecordsOnly
<1>8. AcyclicPrerequisites(new)
  <2>1. SUFFICES ASSUME NEW S \in (SUBSET Nodes(new)) \ {{}}
                 PROVE  \E n \in S : \A e \in new.edge :
                          (e.kind = "depends_on" /\ e.source = n) => e.target \notin S
    BY DEF AcyclicPrerequisites
  <2>2. \A e \in new.edge : e.kind = "depends_on" => e \in d.edge
    BY <1>3
  <2>3. CASE S \cap Nodes(d) = {}
    BY <1>1, <1>4, <2>1, <2>2, <2>3
  <2>4. CASE S \cap Nodes(d) # {}
    <3>1. PICK n \in S \cap Nodes(d) : \A e \in d.edge :
            (e.kind = "depends_on" /\ e.source = n) => e.target \notin S \cap Nodes(d)
      BY <2>4 DEF GraphRules, AcyclicPrerequisites
    <3> QED
      BY <1>4, <2>2, <3>1
  <2> QED
    BY <2>3, <2>4
<1>9. Refs(new) \subseteq Refs(d) \cup {w}
  BY <1>1 DEF Refs
<1> QED
  BY <1>1, <1>5, <1>6, <1>7, <1>8, <1>9 DEF GraphRules, new

-----------------------------------------------------------------------------
(* Staleness and change. *)

\* A revision counts every node whose pinned content is out of date as changed.
LEMMA StaleNodesAreChanged ==
  ASSUME NEW rows, NEW h, NEW new, DOMAIN h.digest = Refs(h.draft)
  PROVE  StaleNodes(rows, h) \subseteq Changed(rows, h, new)
<1>1. SUFFICES ASSUME NEW n \in StaleNodes(rows, h)
               PROVE  n \in Changed(rows, h, new)
  OBVIOUS
<1>2. n \in Nodes(h.draft)
  BY DEF StaleNodes
<1>3. CASE h.scope # scope
  BY <1>2, <1>3 DEF Changed
<1>4. CASE n \in ChangedNodes(h.draft, new)
  BY <1>4 DEF Changed
<1>5. CASE h.scope = scope /\ n \notin ChangedNodes(h.draft, new)
  <2>1. n \in Nodes(new) /\ new.node[n] = h.draft.node[n]
    BY <1>2, <1>5 DEF ChangedNodes
  <2>2. /\ h.draft.node[n].ref # NoRef
        /\ h.digest[h.draft.node[n].ref] # DigestOf(rows, h.draft.node[n].ref)
    BY <1>5 DEF StaleNodes
  <2>3. h.draft.node[n].ref \in DOMAIN h.digest
    BY <1>2, <2>2 DEF Refs
  <2>4. n \in ChangedByReferences(rows, h, new)
    BY <2>1, <2>2, <2>3 DEF ChangedByReferences
  <2> QED
    BY <2>4 DEF Changed
<1> QED
  BY <1>3, <1>4, <1>5

\* Work that stale references put up for review is affected by every revision.
LEMMA StaleWorkIsAffected ==
  ASSUME NEW rows, NEW h, NEW new, DOMAIN h.digest = Refs(h.draft)
  PROVE  DependentWork(h.draft, StaleNodes(rows, h)) \subseteq Affected(rows, h, new)
<1> DEFINE stale   == StaleNodes(rows, h)
           changed == Changed(rows, h, new)
<1>1. DependentWork(h.draft, stale) \subseteq DependentWork(h.draft, changed)
  BY StaleNodesAreChanged, DependentWorkMonotone
<1>2. DependentWork(h.draft, stale) \subseteq WorkOf(h.draft, Nodes(h.draft))
  BY DependentWorkIsInMap
<1> QED
  BY <1>1, <1>2 DEF Affected

-----------------------------------------------------------------------------
(* The inductive invariant.                                                *)
(*                                                                         *)
(* A direct status change holds a version it read together with the answer *)
(* to its eligibility check.  CliFresh says that this answer stands for as *)
(* long as the version does: whatever puts the work up for review also     *)
(* gives it a new version, or does not find it startable.                  *)

Startable == Active \ {"in_progress"}

CliKnown ==
  cli # Idle => /\ work[cli.work].status # "absent"
                /\ cli.version <= work[cli.work].version

CliFresh ==
  (/\ cli # Idle
   /\ cli.status = "in_progress"
   /\ cli.version = work[cli.work].version
   /\ work[cli.work].status \in Startable
   /\ head # NoMap)
    => cli.work \notin head.pending

Inv == TypeOK /\ CliKnown /\ CliFresh

\* rows are the stored rows, save for work that is created in this step.
Fits(rows) ==
  /\ rows \in [Works -> Row]
  /\ \A w \in Works : \/ rows[w] = work[w]
                      \/ /\ work[w].status = "absent"
                         /\ rows[w].status \notin {"absent", "in_progress"}

-----------------------------------------------------------------------------
(* One revision. *)

\* The reviews that are owed are of work items.
LEMMA ReviewsAreOfWork ==
  ASSUME TypeOK, NEW rows, NEW a, NEW new
  PROVE  Owed(rows) \subseteq Works /\ AffectedForOthers(rows, a, new) \subseteq Works
<1>1. Owed(rows) \subseteq Works
  BY DependentWorkIsWork DEF TypeOK, Owed, DerivedReviews
<1>2. AffectedForOthers(rows, a, new) \subseteq Works
  BY DEF AffectedForOthers, Affected, WorkOf
<1> QED
  BY <1>1, <1>2

\* A revision keeps the invariant and starts nothing.
LEMMA RecordStep ==
  ASSUME Inv, NEW rows, Fits(rows), NEW a \in Actors,
         NEW new, GraphRules(new), Refs(new) \subseteq Works \cup Records,
         NEW ts, DOMAIN ts \subseteq Works, \A w \in DOMAIN ts : ts[w] \in Treatment,
         Record(rows, a, new, ts, AffectedForOthers(rows, a, new), Owed(rows)),
         UNCHANGED <<record, scope, input, cli>>
  PROVE  Inv' /\ \A w \in Works : ~Starts(w)
<1> DEFINE affected == AffectedForOthers(rows, a, new)
           owed     == Owed(rows)
           pending  == NextPending(rows, ts, affected, owed)
<1>1. /\ work' = RevisedRows(rows, ts, affected)
      /\ head' = NewHead(work', a, new, ts, pending)
      /\ head.seq < MaxRevisions
      /\ \A w \in Refs(new) \cap Works : rows[w].status # "absent"
      /\ \A w \in DOMAIN ts : IsActive(rows, w)
      /\ \A w \in Works : ~(work'[w].version > MaxVersion)
  BY DEF Record
<1>2. /\ head'.seq = head.seq + 1
      /\ head'.actor = a
      /\ head'.draft = new
      /\ head'.scope = scope
      /\ head'.digest = [r \in Refs(new) |-> DigestOf(work', r)]
      /\ head'.pending = pending
  BY <1>1 DEF NewHead
<1>3. rows \in [Works -> Row]
  BY DEF Fits
<1>4. ASSUME NEW w \in Works
      PROVE  /\ work'[w] \in Row
             /\ work'[w] = rows[w] \/ work'[w].version = rows[w].version + 1
             /\ w \in DOMAIN ts => work'[w].version = rows[w].version + 1
             /\ (w \in affected /\ IsActive(rows, w)) => work'[w].version = rows[w].version + 1
             /\ rows[w].status # "absent" => work'[w].status # "absent"
             /\ work'[w].status = "in_progress" => rows[w].status = "in_progress"
  <2> HIDE DEF affected
  <2> QED
    BY <1>1, <1>3, RevisedRowsFacts
<1>5. owed \subseteq Works /\ affected \subseteq Works
  BY ReviewsAreOfWork DEF Inv
<1> HIDE DEF affected, owed
<1>6. pending \subseteq Works
  BY <1>5 DEF NextPending, PausedBy
<1>7. TypeOK'
  <2>1. work' \in [Works -> Row]
    <3>1. work' = [w \in Works |-> work'[w]]
      BY <1>1 DEF RevisedRows
    <3> QED
      BY <3>1, <1>4
  <2>2. record' \in [Records -> Contents] /\ scope' \in Contents
        /\ input' \in [Works -> {"none", "open", "met"}]
        /\ cli' \in {Idle} \cup [work : Works, status : Statuses, version : 1..MaxVersion]
    BY DEF Inv, TypeOK
  <2>3. head'.seq \in 1..MaxRevisions
    BY <1>1, <1>2, BoundsAreNat DEF Inv, TypeOK, NoMap
  <2>4. \A w \in Refs(new) \cap Works : work'[w].status # "absent"
    BY <1>1, <1>4
  <2>5. \A r \in Refs(new) : DigestOf(work', r) \in Contents
    <3>1. \A w \in Works : work'[w].content \in Contents
      BY <1>4 DEF Row
    <3>2. \A r \in Records : record[r] \in Contents
      BY DEF Inv, TypeOK
    <3> QED
      BY <3>1, <3>2 DEF DigestOf
  <2>6. head'.digest \in [Refs(new) -> Contents]
    BY <1>2, <2>5
  <2>7. head'.scope \in Contents
    BY <1>2 DEF Inv, TypeOK
  <2> HIDE DEF pending
  <2> QED
    BY <1>2, <1>6, <2>1, <2>2, <2>3, <2>4, <2>6, <2>7 DEF TypeOK
<1>8. ASSUME cli # Idle
      PROVE  /\ cli.work \in Works
             /\ cli.version \in Nat
             /\ rows[cli.work] = work[cli.work]
             /\ rows[cli.work].status # "absent"
             /\ rows[cli.work].version \in Nat
             /\ cli.version <= rows[cli.work].version
  <2>1. cli.work \in Works /\ cli.version \in 1..MaxVersion
    BY <1>8 DEF Inv, TypeOK
  <2>2. rows[cli.work] = work[cli.work]
    BY <1>8, <2>1 DEF Inv, CliKnown, Fits
  <2>3. rows[cli.work].version \in 1..MaxVersion
    BY <1>3, <2>1 DEF Row
  <2> QED
    BY <1>8, <2>1, <2>2, <2>3, BoundsAreNat DEF Inv, CliKnown
<1>9. CliKnown'
  BY <1>4, <1>8 DEF CliKnown
<1>10. CliFresh'
  <2> DEFINE w == cli.work
  <2>1. SUFFICES ASSUME cli # Idle, cli.status = "in_progress",
                        cli.version = work'[w].version, work'[w].status \in Startable,
                        w \in pending
                 PROVE  FALSE
    BY <1>2 DEF CliFresh
  <2>2. w \in Works /\ work'[w] = rows[w] /\ rows[w] = work[w]
    BY <1>4, <1>8, <2>1
  <2>3. w \notin DOMAIN ts /\ ~(w \in affected /\ IsActive(rows, w))
    BY <1>4, <1>8, <2>1, <2>2
  <2>4. w \in owed
    BY <2>1, <2>3 DEF NextPending, PausedBy
  <2>5. IsActive(rows, w) /\ w \notin affected
    BY <2>1, <2>2, <2>3 DEF IsActive, Startable
  <2>6. head # NoMap
    BY <2>4 DEF owed, Owed
  <2>7. w \notin head.pending
    BY <2>1, <2>2, <2>6 DEF Inv, CliFresh
  <2>8. w \in DependentWork(head.draft, StaleNodes(rows, head))
    BY <2>4, <2>6, <2>7 DEF owed, Owed, DerivedReviews
  <2>9. w \in Affected(rows, head, new)
    <3>1. DOMAIN head.digest = Refs(head.draft)
      BY <2>6 DEF Inv, TypeOK
    <3> QED
      BY <2>8, <3>1, StaleWorkIsAffected
  <2>10. ~ClaimedBy(rows, a, w)
    BY <2>1, <2>2 DEF ClaimedBy, Startable
  <2> QED
    BY <2>5, <2>6, <2>9, <2>10 DEF affected, AffectedForOthers
<1>11. ASSUME NEW w \in Works
       PROVE  ~Starts(w)
  BY <1>4 DEF Starts, Fits, Active
<1> QED
  BY <1>7, <1>9, <1>10, <1>11 DEF Inv

-----------------------------------------------------------------------------
(* One step of each operation. *)

\* What a step must do: keep the invariant and start no work under review.
Keeps == /\ Inv'
         /\ \A w \in Works : (Starts(w) /\ head # NoMap) => w \notin head.pending

\* A step that leaves rows and head alone keeps them well formed.
LEMMA OtherStateStep ==
  ASSUME Inv, UNCHANGED <<work, head, cli>>, TypeOK'
  PROVE  Keeps
BY DEF Keeps, Inv, CliKnown, CliFresh, Starts

\* A step that gives one row its next version.
LEMMA RowStep ==
  ASSUME Inv, NEW w \in Works, NEW status \in Statuses, NEW owner \in Actors \cup {Unclaimed},
         work[w].version < MaxVersion, work[w].status # "absent",
         work' = [work EXCEPT ![w] = NextRow(@, status, owner)],
         UNCHANGED <<record, scope, head>>, cli' \in {cli, Idle},
         input' \in [Works -> {"none", "open", "met"}],
         (/\ work[w].status \in Startable /\ status = "in_progress"
          /\ head # NoMap) => w \notin head.pending
  PROVE  Keeps
<1>1. work \in [Works -> Row] /\ work[w] \in Row
  BY DEF Inv, TypeOK
<1>2. work[w].version \in Nat /\ work[w].version + 1 \in 1..MaxVersion
  BY <1>1, BoundsAreNat DEF Row
<1>3. NextRow(work[w], status, owner) \in Row
  BY <1>1, <1>2 DEF Row, NextRow
<1>4. /\ work' \in [Works -> Row]
      /\ \A x \in Works \ {w} : work'[x] = work[x]
      /\ work'[w].status = status
      /\ work'[w].version = work[w].version + 1
  BY <1>1, <1>3 DEF NextRow
<1>5. status # "absent"
  BY DEF Statuses, Active
<1>6. TypeOK'
  BY <1>4, <1>5 DEF Inv, TypeOK
<1>7. cli' # Idle => cli' = cli /\ cli.work \in Works /\ cli.version \in Nat
  BY BoundsAreNat DEF Inv, TypeOK
<1>8. CliKnown'
  BY <1>2, <1>4, <1>5, <1>7 DEF Inv, CliKnown
<1>9. CliFresh'
  BY <1>2, <1>4, <1>7 DEF Inv, CliKnown, CliFresh
<1>10. \A x \in Works : (Starts(x) /\ head # NoMap) => x \notin head.pending
  BY <1>4 DEF Starts, Startable, Active
<1> QED
  BY <1>6, <1>8, <1>9, <1>10 DEF Keeps, Inv

\* A revision by its author keeps the invariant.
LEMMA ReviseStep ==
  ASSUME Inv, NEW a \in Actors, NEW new \in ValidDrafts, Revise(a, new)
  PROVE  Keeps
<1>1. PICK ts \in Treatings : Record(work, a, new, ts, AffectedForOthers(work, a, new), Owed(work))
  BY DEF Revise
<1>2. DOMAIN ts \subseteq Works /\ \A w \in DOMAIN ts : ts[w] \in Treatment
  BY DEF Treatings
<1>3. GraphRules(new) /\ Refs(new) \subseteq Works \cup Records
  BY DraftsReferToRecords DEF ValidDrafts
<1>4. Fits(work)
  BY DEF Fits, Inv, TypeOK
<1>5. UNCHANGED <<record, scope, input, cli>>
  BY DEF Revise
<1> QED
  BY <1>1, <1>2, <1>3, <1>4, <1>5, RecordStep DEF Keeps

\* So does closing work, with a map or without.
LEMMA CloseWorkStep ==
  ASSUME Inv, NEW a \in Actors, NEW w \in Works, CloseWork(a, w)
  PROVE  Keeps
<1>1. UNCHANGED <<record, scope, input, cli>> /\ IsActive(work, w)
  BY DEF CloseWork
<1>2. CASE head # NoMap
  <2>1. Record(work, a, head.draft, Cancelling(w),
               AffectedForOthers(work, a, head.draft), Owed(work))
    BY <1>2 DEF CloseWork
  <2>2. DOMAIN Cancelling(w) \subseteq Works
        /\ \A x \in DOMAIN Cancelling(w) : Cancelling(w)[x] \in Treatment
    BY DEF Cancelling, Treatment
  <2>3. Fits(work) /\ GraphRules(head.draft) /\ Refs(head.draft) \subseteq Works \cup Records
    BY <1>2 DEF Fits, Inv, TypeOK
  <2> HIDE DEF Cancelling
  <2> QED
    BY <1>1, <2>1, <2>2, <2>3, RecordStep DEF Keeps
<1>3. CASE head = NoMap
  <2>1. /\ work[w].version < MaxVersion
        /\ work' = [work EXCEPT ![w] = NextRow(@, "cancelled", work[w].owner)]
        /\ UNCHANGED head
    BY <1>3 DEF CloseWork
  <2>2. work[w].owner \in Actors \cup {Unclaimed} /\ "cancelled" \in Statuses
    BY DEF Inv, TypeOK, Row, Statuses
  <2>3. work[w].status # "absent" /\ input \in [Works -> {"none", "open", "met"}]
    BY <1>1 DEF IsActive, Active, Inv, TypeOK
  <2> QED
    BY <1>1, <1>3, <2>1, <2>2, <2>3, RowStep
<1> QED
  BY <1>2, <1>3

\* New work outside the map starts nothing.
LEMMA AddWorkStep ==
  ASSUME Inv, NEW w \in Works, NEW row \in NewRow, work[w].status = "absent",
         work' = [work EXCEPT ![w] = row], UNCHANGED <<record, scope, head, input, cli>>
  PROVE  Keeps
<1>1. row \in Row /\ row.status \notin {"absent", "in_progress"}
  BY StatusChoice, BoundsAreNat DEF NewRow, Row, Statuses, Active, Reasons
<1>2. work \in [Works -> Row]
  BY DEF Inv, TypeOK
<1>3. work' \in [Works -> Row] /\ work'[w] = row /\ \A x \in Works \ {w} : work'[x] = work[x]
  BY <1>1, <1>2
<1>4. TypeOK'
  BY <1>1, <1>3 DEF Inv, TypeOK
<1>5. CliKnown' /\ CliFresh'
  BY <1>3 DEF Inv, TypeOK, CliKnown, CliFresh
<1>6. \A x \in Works : ~Starts(x)
  BY <1>1, <1>3 DEF Starts, Active
<1> QED
  BY <1>4, <1>5, <1>6 DEF Keeps, Inv

\* New work inside the map goes through a revision.
LEMMA CreateWorkStep ==
  ASSUME Inv, NEW a \in Actors, NEW w \in Works, NEW row \in NewRow, CreateWork(a, w, row)
  PROVE  Keeps
<1> DEFINE rows == [work EXCEPT ![w] = row]
<1>1. work[w].status = "absent" /\ UNCHANGED <<record, scope, input, cli>>
  BY DEF CreateWork
<1>2. row \in Row /\ row.status \notin {"absent", "in_progress"}
  BY StatusChoice, BoundsAreNat DEF NewRow, Row, Statuses, Active, Reasons
<1>3. work \in [Works -> Row]
  BY DEF Inv, TypeOK
<1>4. rows \in [Works -> Row] /\ rows[w] = row /\ \A x \in Works \ {w} : rows[x] = work[x]
  BY <1>2, <1>3
<1>5. Fits(rows)
  BY <1>1, <1>2, <1>4 DEF Fits
<1>6. CASE head # NoMap
  <2> DEFINE new == WithWork(head.draft, w, row.content)
             none == << >>
  <2>1. /\ w \notin Nodes(head.draft)
        /\ Record(rows, a, new, none, AffectedForOthers(rows, a, new), Owed(rows))
    BY <1>6 DEF CreateWork
  <2>2. GraphRules(head.draft) /\ Refs(head.draft) \subseteq Works \cup Records
    BY <1>6 DEF Inv, TypeOK
  <2>3. GraphRules(new) /\ Refs(new) \subseteq Refs(head.draft) \cup {w}
    BY <2>1, <2>2, WithWorkFacts
  <2>4. DOMAIN none = {}
    OBVIOUS
  <2> HIDE DEF rows, new, none
  <2>5. Refs(new) \subseteq Works \cup Records
    BY <2>2, <2>3
  <2> QED
    BY <1>1, <1>5, <2>1, <2>3, <2>4, <2>5, RecordStep DEF Keeps
<1>7. CASE head = NoMap
  <2>1. work' = rows /\ UNCHANGED head
    BY <1>7 DEF CreateWork
  <2> QED
    BY <1>1, <2>1, AddWorkStep
<1> QED
  BY <1>6, <1>7

\* Work that is not blocked is under no review.
LEMMA UnblockedIsNotPending ==
  ASSUME NEW w, ~Blocked(w), IsActive(work, w), head # NoMap
  PROVE  w \notin head.pending
BY DEF Blocked, Pending, Owed, DerivedReviews

\* A claim starts only work that no review holds.
LEMMA ClaimStep ==
  ASSUME Inv, NEW a \in Actors, NEW w \in Works, Claim(a, w)
  PROVE  Keeps
<1>1. IsActive(work, w) /\ work[w].status # "absent" /\ ~Blocked(w)
  BY DEF Claim, IsActive, Active
<1>2. "in_progress" \in Statuses /\ input \in [Works -> {"none", "open", "met"}]
  BY DEF Statuses, Active, Inv, TypeOK
<1>3. head # NoMap => w \notin head.pending
  BY <1>1, UnblockedIsNotPending
<1>4. /\ work[w].version < MaxVersion
      /\ work' = [work EXCEPT ![w] = NextRow(@, "in_progress", a)]
      /\ UNCHANGED <<record, scope, head, input, cli>>
  BY DEF Claim
<1> QED
  BY <1>1, <1>2, <1>3, <1>4, RowStep

\* A release starts nothing.
LEMMA ReleaseStep ==
  ASSUME Inv, NEW a \in Actors, NEW w \in Works, Release(a, w)
  PROVE  Keeps
<1>1. work[w].status # "absent" /\ "ready" \in Statuses
      /\ input \in [Works -> {"none", "open", "met"}]
  BY DEF Release, ClaimedBy, Statuses, Active, Inv, TypeOK
<1>2. /\ work[w].version < MaxVersion
      /\ work' = [work EXCEPT ![w] = NextRow(@, "ready", Unclaimed)]
      /\ UNCHANGED <<record, scope, head, input, cli>>
  BY DEF Release
<1> QED
  BY <1>1, <1>2, RowStep

\* A sufficient answer finishes work and starts none.
LEMMA AnswerInputStep ==
  ASSUME Inv, NEW w \in Works, AnswerInput(w)
  PROVE  Keeps
<1>1. /\ work[w].status # "absent" /\ "done" \in Statuses
      /\ work[w].owner \in Actors \cup {Unclaimed}
      /\ input' \in [Works -> {"none", "open", "met"}]
  BY DEF AnswerInput, WaitsForHuman, Statuses, Active, Inv, TypeOK, Row
<1>2. /\ work[w].version < MaxVersion
      /\ work' = [work EXCEPT ![w] = NextRow(@, "done", work[w].owner)]
      /\ UNCHANGED <<record, scope, head, cli>>
  BY DEF AnswerInput
<1> QED
  BY <1>1, <1>2, RowStep

\* The check of a direct status change establishes CliFresh.
LEMMA CheckStatusStep ==
  ASSUME Inv, NEW w \in Works, NEW s \in CliStatuses, CheckStatus(w, s)
  PROVE  Keeps
<1>1. /\ work[w].status # "absent"
      /\ s = "in_progress" => ~Blocked(w)
      /\ cli' = [work |-> w, status |-> s, version |-> work[w].version]
      /\ UNCHANGED <<work, record, scope, head, input>>
  BY DEF CheckStatus
<1>2. work[w].version \in 1..MaxVersion
  BY DEF Inv, TypeOK, Row
<1>3. TypeOK'
  BY <1>1, <1>2, StatusChoice DEF Inv, TypeOK
<1>4. CliKnown'
  BY <1>1, <1>2, BoundsAreNat DEF CliKnown
<1>5. CliFresh'
  BY <1>1, UnblockedIsNotPending DEF CliFresh, IsActive, Startable
<1> QED
  BY <1>1, <1>3, <1>4, <1>5 DEF Keeps, Inv, Starts

\* Its write relies on CliFresh: a row under review has another version by then.
LEMMA WriteStatusStep ==
  ASSUME Inv, WriteStatus
  PROVE  Keeps
<1> DEFINE w == cli.work
<1>1. /\ cli # Idle /\ cli' = Idle
      /\ UNCHANGED <<record, scope, head, input>>
  BY DEF WriteStatus
<1>2. /\ w \in Works /\ cli.status \in Statuses /\ work[w].status # "absent"
      /\ work[w].owner \in Actors \cup {Unclaimed}
      /\ input \in [Works -> {"none", "open", "met"}]
  BY <1>1 DEF Inv, TypeOK, CliKnown, Row
<1>3. CASE work[w].version # cli.version \/ work[w].status = cli.status
  <2>1. UNCHANGED work
    BY <1>3 DEF WriteStatus
  <2>2. TypeOK' /\ CliKnown' /\ CliFresh'
    BY <1>1, <2>1 DEF Inv, TypeOK, CliKnown, CliFresh
  <2> QED
    BY <2>1, <2>2 DEF Keeps, Inv, Starts
<1>4. CASE ~(work[w].version # cli.version \/ work[w].status = cli.status)
  <2>1. /\ work[w].version < MaxVersion
        /\ work' = [work EXCEPT ![w] = NextRow(@, cli.status, work[w].owner)]
    BY <1>4 DEF WriteStatus
  <2>2. (/\ work[w].status \in Startable /\ cli.status = "in_progress"
         /\ head # NoMap) => w \notin head.pending
    BY <1>1, <1>4 DEF Inv, CliFresh
  <2> QED
    BY <1>1, <1>2, <2>1, <2>2, RowStep
<1> QED
  BY <1>3, <1>4

\* What other services change is outside the rows and the map.
LEMMA OutsideStep ==
  ASSUME Inv,
         \/ \E w \in Works, row \in NewRow : AddWork(w, row)
         \/ \E r \in Records, c \in Contents : ChangeRecord(r, c)
         \/ \E c \in Contents : ChangeScope(c)
         \/ \E w \in Works : LinkInput(w) \/ ReopenInput(w)
  PROVE  Keeps
<1>1. CASE \E r \in Records, c \in Contents : ChangeRecord(r, c)
  BY <1>1, OtherStateStep DEF ChangeRecord, Inv, TypeOK
<1>2. CASE \E c \in Contents : ChangeScope(c)
  BY <1>2, OtherStateStep DEF ChangeScope, Inv, TypeOK
<1>3. CASE \E w \in Works : LinkInput(w) \/ ReopenInput(w)
  BY <1>3, OtherStateStep DEF LinkInput, ReopenInput, Inv, TypeOK
<1>4. CASE \E w \in Works, row \in NewRow : AddWork(w, row)
  BY <1>4, AddWorkStep DEF AddWork
<1> QED
  BY <1>1, <1>2, <1>3, <1>4

-----------------------------------------------------------------------------
(* Theorems of the specification. *)

\* The initial state satisfies the invariant.
LEMMA InitInv == Init => Inv
<1> SUFFICES ASSUME Init PROVE Inv
  OBVIOUS
<1>1. TypeOK
  BY BoundsAreNat DEF Init, TypeOK, Row, Reasons
<1> QED
  BY <1>1 DEF Init, Inv, CliKnown, CliFresh

\* Every step keeps it.
LEMMA NextKeeps ==
  ASSUME Inv, [Next]_vars
  PROVE  Keeps
<1>1. CASE MapStep
  BY <1>1, ReviseStep, CloseWorkStep, CreateWorkStep DEF MapStep
<1>2. CASE WorkStep
  BY <1>2, ClaimStep, ReleaseStep, CheckStatusStep, WriteStatusStep DEF WorkStep
<1>3. CASE OtherStep
  BY <1>3, OutsideStep, AnswerInputStep DEF OtherStep
<1>4. CASE UNCHANGED vars
  <2>1. TypeOK'
    BY <1>4 DEF vars, Inv, TypeOK
  <2> QED
    BY <1>4, <2>1, OtherStateStep DEF vars
<1> QED
  BY <1>1, <1>2, <1>3, <1>4 DEF Next

\* The invariant holds throughout.
THEOREM InvariantHolds == Spec => []Inv
<1>1. Inv /\ [Next]_vars => Inv'
  BY NextKeeps DEF Keeps
<1> QED
  BY InitInv, <1>1, PTL DEF Spec

\* Rows, revisions and pending calls stay well formed.
THEOREM TypeCorrect == Spec => []TypeOK
<1>1. Inv => TypeOK
  BY DEF Inv
<1> QED
  BY <1>1, InvariantHolds, PTL

\* In a map with at most one node for each work item no work waits in a circle.
THEOREM NeverCircular == Spec => []NoCircularWait
<1>1. TypeOK => NoCircularWait
  <2>1. {w \in Works : IsActive(work, w)} \in SUBSET Works
    OBVIOUS
  <2> QED
    BY <2>1, AcyclicNodesNoCircularWait DEF TypeOK, NoCircularWait
<1> QED
  BY <1>1, TypeCorrect, PTL

\* No active work under a recorded review is started, whatever the interleaving
\* of revisions with the two steps of a direct status change.
THEOREM ReviewBeforeStart == Spec => StartRespectsRecordedReview
<1>1. Inv /\ [Next]_vars =>
        [\A w \in Works : (Starts(w) /\ head # NoMap) => w \notin head.pending]_vars
  BY NextKeeps DEF Keeps
<1> QED
  BY <1>1, InvariantHolds, PTL DEF Spec, StartRespectsRecordedReview

-----------------------------------------------------------------------------
(* What a revision leaves behind. *)

\* The steps that record a revision.
Recorded(rows, a, new, ts) ==
  /\ Fits(rows)
  /\ DOMAIN ts \subseteq Works
  /\ \A w \in DOMAIN ts : ts[w] \in Treatment
  /\ Record(rows, a, new, ts, AffectedForOthers(rows, a, new), Owed(rows))
  /\ UNCHANGED <<record, scope, input, cli>>

\* The map changes only through a revision.
LEMMA OnlyRecordChangesHead ==
  ASSUME Inv, [Next]_vars
  PROVE  UNCHANGED head \/ \E rows, a, new, ts : Recorded(rows, a, new, ts)
<1>1. work \in [Works -> Row] /\ Fits(work)
  BY DEF Inv, TypeOK, Fits
<1>2. ASSUME NEW a \in Actors, NEW new \in ValidDrafts, Revise(a, new)
      PROVE  \E ts : Recorded(work, a, new, ts)
  <2>1. PICK ts \in Treatings :
          Record(work, a, new, ts, AffectedForOthers(work, a, new), Owed(work))
    BY <1>2 DEF Revise
  <2>2. DOMAIN ts \subseteq Works /\ \A w \in DOMAIN ts : ts[w] \in Treatment
    BY DEF Treatings
  <2>3. UNCHANGED <<record, scope, input, cli>>
    BY <1>2 DEF Revise
  <2> QED
    BY <1>1, <2>1, <2>2, <2>3 DEF Recorded
<1>3. ASSUME NEW a \in Actors, NEW w \in Works, CloseWork(a, w), head' # head
      PROVE  Recorded(work, a, head.draft, Cancelling(w))
  <2>1. Record(work, a, head.draft, Cancelling(w),
               AffectedForOthers(work, a, head.draft), Owed(work))
        /\ UNCHANGED <<record, scope, input, cli>>
    BY <1>3 DEF CloseWork
  <2>2. DOMAIN Cancelling(w) \subseteq Works
        /\ \A x \in DOMAIN Cancelling(w) : Cancelling(w)[x] \in Treatment
    BY DEF Cancelling, Treatment
  <2> QED
    BY <1>1, <2>1, <2>2 DEF Recorded
<1>4. ASSUME NEW a \in Actors, NEW w \in Works, NEW row \in NewRow,
             CreateWork(a, w, row), head' # head
      PROVE  \E rows, new, ts : Recorded(rows, a, new, ts)
  <2> DEFINE rows == [work EXCEPT ![w] = row]
             new  == WithWork(head.draft, w, row.content)
             none == << >>
  <2>1. /\ Record(rows, a, new, none, AffectedForOthers(rows, a, new), Owed(rows))
        /\ UNCHANGED <<record, scope, input, cli>>
        /\ work[w].status = "absent"
    BY <1>4 DEF CreateWork
  <2>2. row \in Row /\ row.status \notin {"absent", "in_progress"}
    BY StatusChoice, BoundsAreNat DEF NewRow, Row, Statuses, Active, Reasons
  <2>3. Fits(rows)
    BY <1>1, <2>1, <2>2 DEF Fits
  <2>4. DOMAIN none = {}
    OBVIOUS
  <2> HIDE DEF rows, new, none
  <2>5. Recorded(rows, a, new, none)
    BY <2>1, <2>3, <2>4 DEF Recorded
  <2> QED
    BY <2>5
<1>5. CASE MapStep
  BY <1>2, <1>3, <1>4, <1>5 DEF MapStep
<1>6. CASE WorkStep
  BY <1>6 DEF WorkStep, Claim, Release, CheckStatus, WriteStatus
<1>7. CASE OtherStep
  BY <1>7 DEF OtherStep, ChangeRecord, ChangeScope, AddWork, LinkInput, AnswerInput, ReopenInput
<1>8. CASE UNCHANGED vars
  BY <1>8 DEF vars
<1> QED
  BY <1>5, <1>6, <1>7, <1>8 DEF Next

\* A new revision pins the contents that are stored when it is recorded, those
\* of the work items it rewrites itself included.
THEOREM RevisionIsFresh == Spec => NewRevisionIsFresh
<1>1. ASSUME Inv, [Next]_vars, head' # head
      PROVE  StaleNodes(work, head)' = {}
  <2>1. PICK rows, a, new, ts : Recorded(rows, a, new, ts)
    BY <1>1, OnlyRecordChangesHead
  <2>2. /\ head'.draft = new
        /\ head'.scope = scope
        /\ head'.digest = [r \in Refs(new) |-> DigestOf(work', r)]
        /\ record' = record /\ scope' = scope
    BY <2>1 DEF Recorded, Record, NewHead
  <2> QED
    BY <2>2 DEF StaleNodes, DigestOf, Refs
<1>2. Inv /\ [Next]_vars => [head' # head => (StaleNodes(work, head) = {})']_vars
  BY <1>1
<1> QED
  BY <1>2, InvariantHolds, PTL DEF Spec, NewRevisionIsFresh

\* A review that is owed stays owed until the work is finished or treated, or
\* the references that alone called for it hold again.
THEOREM DebtIsKept == Spec => ReviewDebtIsKept
<1>1. ASSUME Inv, [Next]_vars, NEW w \in Pending, w \notin Pending'
      PROVE  Settled(w)
  <2>1. head # NoMap /\ w \in Works
    BY <1>1, ReviewsAreOfWork DEF Pending, Owed, Inv
  <2>2. CASE UNCHANGED head
    <3>1. CASE w \notin head.pending
      BY <2>2, <3>1 DEF Settled
    <3>2. CASE w \in head.pending /\ IsActive(work, w)'
      <4>1. head' = head /\ IsActive(work', w)
        BY <2>2, <3>2 DEF IsActive
      <4>2. Pending' = DerivedReviews(work, head)'
        BY <2>1, <2>2 DEF Pending, Owed
      <4>3. w \in Pending'
        BY <3>2, <4>1, <4>2 DEF DerivedReviews
      <4> QED
        BY <1>1, <4>3
    <3> QED
      BY <3>1, <3>2 DEF Settled
  <2>3. CASE head' # head /\ w \notin DOMAIN head'.treated /\ IsActive(work, w)'
    <3>1. PICK rows, a, new, ts : Recorded(rows, a, new, ts)
      BY <1>1, <2>3, OnlyRecordChangesHead
    <3>2. /\ head'.pending = NextPending(rows, ts, AffectedForOthers(rows, a, new), Owed(rows))
          /\ DOMAIN head'.treated = DOMAIN ts
      BY <3>1 DEF Recorded, Record, NewHead
    <3>3. rows[w] = work[w]
      BY <1>1, <2>1, <3>1 DEF Recorded, Fits, Pending, Owed, DerivedReviews, IsActive, Active
    <3>4. StaleNodes(work, head) \subseteq StaleNodes(rows, head)
      <4>1. \A n \in Nodes(head.draft) :
              head.draft.node[n].ref # NoRef => head.draft.node[n].ref \in Refs(head.draft)
        BY DEF Refs
      <4>2. \A r \in Refs(head.draft) : DigestOf(work, r) = DigestOf(rows, r)
        <5>1. \A r \in Refs(head.draft) \cap Works : work[r].status # "absent"
          BY <1>1, <2>1 DEF Inv, TypeOK
        <5>2. \A r \in Refs(head.draft) \cap Works : rows[r] = work[r]
          BY <3>1, <5>1 DEF Recorded, Fits
        <5> QED
          BY <5>2 DEF DigestOf
      <4> QED
        BY <4>1, <4>2 DEF StaleNodes
    <3>5. w \in DerivedReviews(work, head) /\ IsActive(rows, w)
      BY <2>1, <3>3 DEF Pending, Owed, DerivedReviews, IsActive
    <3>6. w \in Owed(rows)
      <4>1. DependentWork(head.draft, StaleNodes(work, head))
              \subseteq DependentWork(head.draft, StaleNodes(rows, head))
        BY <3>4, DependentWorkMonotone
      <4> QED
        BY <2>1, <3>5, <4>1 DEF Owed, DerivedReviews
    <3>7. w \in head'.pending
      BY <2>3, <3>2, <3>6 DEF NextPending
    <3>8. head' # NoMap
      <4>1. head.seq \in Nat /\ head'.seq = head.seq + 1
        BY <1>1, <2>1, <3>1, BoundsAreNat DEF Inv, TypeOK, Recorded, Record, NewHead
      <4> QED
        BY <4>1 DEF NoMap
    <3> QED
      BY <1>1, <2>3, <3>7, <3>8 DEF Pending, Owed, DerivedReviews, IsActive
  <2> QED
    BY <2>2, <2>3 DEF Settled
<1>2. Inv /\ [Next]_vars => [\A w \in Pending : w \notin Pending' => Settled(w)]_vars
  BY <1>1
<1> QED
  BY <1>2, InvariantHolds, PTL DEF Spec, ReviewDebtIsKept

\* Treating work that waits for a human never unblocks it: only a cancellation
\* changes its status, and no treatment its reason.
LEMMA TreatedHumanBlock ==
  ASSUME NEW row, NEW t \in Treatment, row.status = "blocked", row.reason = "human_input"
  PROVE  /\ TreatedRow(row, t).status = "cancelled" \/ TreatedRow(row, t).status = "blocked"
         /\ TreatedRow(row, t).reason = "human_input"
<1>1. t.action \in {"keep", "pause", "cancel", "revise"}
  BY DEF Treatment
<1>2. ~Lifted(row)
  BY DEF Lifted
<1> QED
  BY <1>1, <1>2 DEF TreatedRow, TreatedStatus, TreatedReason

\* So no revision does.
LEMMA RevisedHumanBlock ==
  ASSUME Inv, NEW rows, NEW a, NEW new, NEW ts, Recorded(rows, a, new, ts),
         NEW w \in Works, WaitsForHuman(w)
  PROVE  WaitsForHuman(w)' \/ work'[w].status = "cancelled"
<1> DEFINE affected == AffectedForOthers(rows, a, new)
<1>1. work' = RevisedRows(rows, ts, affected) /\ \A x \in DOMAIN ts : ts[x] \in Treatment
  BY DEF Recorded, Record
<1>2. rows[w] = work[w] /\ rows[w].status = "blocked" /\ rows[w].reason = "human_input"
  BY DEF Recorded, Fits, WaitsForHuman
<1> HIDE DEF affected
<1>3. CASE w \in DOMAIN ts
  <2>1. work'[w] = TreatedRow(rows[w], ts[w])
    BY <1>1, <1>3 DEF RevisedRows
  <2> QED
    BY <1>1, <1>2, <1>3, <2>1, TreatedHumanBlock DEF WaitsForHuman
<1>4. CASE w \notin DOMAIN ts
  <2>1. work'[w] = rows[w] \/ work'[w] = NextRow(rows[w], rows[w].status, rows[w].owner)
    BY <1>1, <1>4 DEF RevisedRows
  <2>2. work'[w].status = rows[w].status /\ work'[w].reason = rows[w].reason
    BY <2>1 DEF NextRow
  <2> QED
    BY <1>2, <2>2 DEF WaitsForHuman
<1> QED
  BY <1>3, <1>4

\* A revision is a new one: no step that records one leaves the map as it was.
LEMMA RecordIsNew ==
  ASSUME Inv, NEW rows, NEW a, NEW new, NEW ts, NEW affected, NEW owed,
         Record(rows, a, new, ts, affected, owed)
  PROVE  head' # head
<1>1. head'.seq = head.seq + 1
  BY DEF Record, NewHead
<1>2. head.seq \in Nat
  BY BoundsAreNat DEF Inv, TypeOK, NoMap
<1> QED
  BY <1>1, <1>2

\* Work blocked on an open human input stays blocked, whatever revisions do with
\* it, until the answer is in, the work is cancelled or an operator sets its status.
THEOREM HumanBlockStands == Spec => HumanBlockOutlastsReview
<1>1. ASSUME Inv, [Next]_vars, NEW w \in Works,
             WaitsForHuman(w), input[w] = "open", UNCHANGED cli
      PROVE  WaitsForHuman(w)' \/ work'[w].status = "cancelled" \/ input'[w] = "met"
  <2>1. CASE \E rows, a, new, ts : Recorded(rows, a, new, ts)
    BY <1>1, <2>1, RevisedHumanBlock
  <2>2. CASE UNCHANGED work
    BY <1>1, <2>2 DEF WaitsForHuman
  <2>3. work \in [Works -> Row] /\ work[w].status = "blocked" /\ work[w].reason = "human_input"
        /\ input \in [Works -> {"none", "open", "met"}]
    BY <1>1 DEF WaitsForHuman, Inv, TypeOK
  <2>4. ASSUME NEW x \in Works, work[x].status # "blocked",
               NEW row, work' = [work EXCEPT ![x] = row]
        PROVE  WaitsForHuman(w)'
    BY <2>3, <2>4 DEF WaitsForHuman
  <2>5. CASE MapStep /\ UNCHANGED head
    <3>1. ASSUME NEW a \in Actors, NEW new \in ValidDrafts, Revise(a, new)
          PROVE  FALSE
      BY <1>1, <2>5, <3>1, RecordIsNew DEF Revise
    <3>2. ASSUME NEW a \in Actors, NEW x \in Works, CloseWork(a, x), x # w
          PROVE  UNCHANGED head => WaitsForHuman(w)'
      <4>1. CASE head = NoMap
        BY <2>3, <3>2, <4>1 DEF CloseWork, WaitsForHuman
      <4>2. CASE head # NoMap
        BY <1>1, <3>2, <4>2, RecordIsNew DEF CloseWork
      <4> QED
        BY <4>1, <4>2
    <3>3. ASSUME NEW a \in Actors, CloseWork(a, w)
          PROVE  UNCHANGED head => work'[w].status = "cancelled"
      <4>1. CASE head = NoMap
        BY <2>3, <3>3, <4>1 DEF CloseWork, NextRow
      <4>2. CASE head # NoMap
        BY <1>1, <3>3, <4>2, RecordIsNew DEF CloseWork
      <4> QED
        BY <4>1, <4>2
    <3>4. ASSUME NEW a \in Actors, NEW x \in Works, NEW row \in NewRow, CreateWork(a, x, row)
          PROVE  UNCHANGED head => WaitsForHuman(w)'
      <4>1. work[x].status # "blocked"
        BY <3>4 DEF CreateWork
      <4>2. CASE head = NoMap
        BY <2>4, <3>4, <4>1, <4>2 DEF CreateWork
      <4>3. CASE head # NoMap
        BY <1>1, <3>4, <4>3, RecordIsNew DEF CreateWork
      <4> QED
        BY <4>2, <4>3
    <3> QED
      BY <2>5, <3>1, <3>2, <3>3, <3>4 DEF MapStep
  <2>6. CASE WorkStep
    <3>1. ASSUME NEW a \in Actors, NEW x \in Works, Claim(a, x) \/ Release(a, x)
          PROVE  WaitsForHuman(w)'
      BY <2>4, <3>1 DEF Claim, Release, ClaimedBy
    <3>2. ~WriteStatus
      BY <1>1 DEF WriteStatus
    <3> QED
      BY <2>2, <2>6, <3>1, <3>2 DEF WorkStep, CheckStatus
  <2>7. CASE OtherStep
    <3>1. ASSUME NEW x \in Works, AnswerInput(x)
          PROVE  WaitsForHuman(w)' \/ input'[w] = "met"
      BY <2>3, <3>1 DEF AnswerInput, WaitsForHuman
    <3>2. ASSUME NEW x \in Works, NEW row \in NewRow, AddWork(x, row)
          PROVE  WaitsForHuman(w)'
      BY <2>4, <3>2 DEF AddWork
    <3> QED
      BY <2>2, <2>7, <3>1, <3>2
      DEF OtherStep, ChangeRecord, ChangeScope, LinkInput, ReopenInput
  <2>8. CASE UNCHANGED vars
    BY <2>2, <2>8 DEF vars
  <2> QED
    BY <1>1, <2>1, <2>5, <2>6, <2>7, <2>8, OnlyRecordChangesHead DEF Next
<1>2. Inv /\ [Next]_vars =>
        [\A w \in Works :
           (WaitsForHuman(w) /\ input[w] = "open" /\ UNCHANGED cli)
              => WaitsForHuman(w)' \/ work'[w].status = "cancelled" \/ input'[w] = "met"]_vars
  BY <1>1
<1> QED
  BY <1>2, InvariantHolds, PTL DEF Spec, HumanBlockOutlastsReview

-----------------------------------------------------------------------------
(* Which change puts which work up for review. *)

\* A reference that stands with another content when a revision starts counts as
\* changed at every node that holds it, whether the new draft keeps the node,
\* rewrites it or drops it.
LEMMA ChangedReferenceIsSeen ==
  ASSUME NEW rows, NEW h, NEW new, DOMAIN h.digest = Refs(h.draft),
         NEW r \in Refs(h.draft), h.digest[r] # DigestOf(rows, r)
  PROVE  {n \in Nodes(h.draft) : h.draft.node[n].ref = r} \subseteq Changed(rows, h, new)
<1>1. SUFFICES ASSUME NEW n \in Nodes(h.draft), h.draft.node[n].ref = r,
                      n \notin ChangedNodes(h.draft, new)
               PROVE  n \in ChangedByReferences(rows, h, new)
  BY DEF Changed
<1>2. n \in Nodes(new) /\ new.node[n] = h.draft.node[n]
  BY <1>1 DEF ChangedNodes
<1> QED
  BY <1>1, <1>2 DEF ChangedByReferences

\* A revision that records another content for something work w depends on,
\* which it did not rewrite itself, puts w up for review.
THEOREM ChangeIsReviewed == Spec => ChangedContextIsReviewed
<1>1. ASSUME Inv, [Next]_vars, head # NoMap, head' # head, NEW w \in Works,
             ContextChange(w) \ RewrittenNow # {}, w \in Refs(head.draft),
             IsActive(work, w)', w \notin DOMAIN head'.treated,
             ~ClaimedBy(work, head'.actor, w)
      PROVE  w \in head'.pending
  <2>1. PICK rows, a, new, ts : Recorded(rows, a, new, ts)
    BY <1>1, OnlyRecordChangesHead
  <2> DEFINE affected == AffectedForOthers(rows, a, new)
  <2>2. /\ work' = RevisedRows(rows, ts, affected)
        /\ head'.actor = a
        /\ head'.digest = [r \in Refs(new) |-> DigestOf(work', r)]
        /\ head'.pending = NextPending(rows, ts, affected, Owed(rows))
        /\ head'.treated = [x \in DOMAIN ts |-> ts[x].action]
        /\ UNCHANGED record
        /\ DOMAIN ts \subseteq Works
    BY <2>1 DEF Recorded, Record, NewHead
  <2>3. PICK r \in ContextChange(w) : r \notin RewrittenNow
    BY <1>1
  <2>4. /\ r \in Refs(head.draft)
        /\ w \in DependentWork(head.draft, {n \in Nodes(head.draft) : head.draft.node[n].ref = r})
        /\ r \in Refs(new) /\ head'.digest[r] # head.digest[r]
    BY <2>2, <2>3 DEF ContextChange, Upstream
  <2>5. \A x \in Refs(head.draft) \cap Works : rows[x] = work[x]
    BY <1>1, <2>1 DEF Recorded, Fits, Inv, TypeOK
  <2> HIDE DEF affected
  <2>6. head'.digest[r] = DigestOf(rows, r)
    <3>1. CASE r \in Works
      <4>1. r \in DOMAIN ts => ts[r].action # "revise"
        BY <2>2, <2>3 DEF RewrittenNow
      <4>2. work'[r].content = rows[r].content
        BY <2>2, <3>1, <4>1 DEF RevisedRows, TreatedRow, NextRow
      <4> QED
        BY <2>2, <2>4, <3>1, <4>2 DEF DigestOf
    <3>2. CASE r \notin Works
      BY <2>2, <2>4, <3>2 DEF DigestOf
    <3> QED
      BY <3>1, <3>2
  <2>7. DOMAIN head.digest = Refs(head.draft)
    BY <1>1 DEF Inv, TypeOK
  <2>8. w \in DependentWork(head.draft, Changed(rows, head, new))
    <3>1. {n \in Nodes(head.draft) : head.draft.node[n].ref = r} \subseteq Changed(rows, head, new)
      BY <2>4, <2>6, <2>7, ChangedReferenceIsSeen
    <3> QED
      BY <2>4, <3>1, DependentWorkMonotone
  <2>9. w \in Affected(rows, head, new)
    BY <2>8, DependentWorkIsInMap DEF Affected
  <2>10. rows[w] = work[w] /\ w \notin DOMAIN ts
    BY <1>1, <2>2, <2>5
  <2>11. w \in affected
    BY <1>1, <2>2, <2>9, <2>10 DEF affected, AffectedForOthers, ClaimedBy
  <2>12. IsActive(rows, w)
    <3>1. work'[w].status = rows[w].status
      BY <2>2, <2>10 DEF RevisedRows, NextRow
    <3> QED
      BY <1>1, <3>1 DEF IsActive
  <2> QED
    BY <2>2, <2>10, <2>11, <2>12 DEF NextPending
<1>2. ASSUME Inv, [Next]_vars, head # NoMap, head' # head, NEW w \in Works
      PROVE  NeedsReviewAfter(w, ContextChange(w) \ RewrittenNow)
  BY <1>1, <1>2 DEF NeedsReviewAfter
<1>3. Inv /\ [Next]_vars =>
        [(head # NoMap /\ head' # head) =>
            \A w \in Works : NeedsReviewAfter(w, ContextChange(w) \ RewrittenNow)]_vars
  BY <1>2
<1> QED
  BY <1>3, InvariantHolds, PTL DEF Spec, ChangedContextIsReviewed

=============================================================================
