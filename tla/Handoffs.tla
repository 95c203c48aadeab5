------------------------------ MODULE Handoffs ------------------------------
(***************************************************************************)
(* Contexts, results and their acceptance (agent_handoffs.py).             *)
(*                                                                         *)
(* prepare saves a context: everything a bounded task rests on, with the   *)
(* versions it was read at.  submit saves a result made from a context;    *)
(* nothing happens until somebody resolves it, maybe much later.  Accepting *)
(* a result applies all its effects in one transaction: it records         *)
(* findings, judges records, completes the work, narrows the scope,        *)
(* appends a review and revises the map.                                   *)
(*                                                                         *)
(* Every operation takes the write lock first (snapshots.transaction),     *)
(* hence one step; preview is an acceptance that is rolled back.  Contexts, *)
(* results and receipts are never rewritten; a repeated key returns what   *)
(* is stored.  The map is told apart by its parts only, a task by the part *)
(* that task_map selects, and which work a revision treats or affects is   *)
(* left open here: MapGraph and DecisionMaps have them in full.            *)
(***************************************************************************)
EXTENDS Naturals, Sequences, FiniteSets

CONSTANTS
  Contexts,    \* request keys of contexts
  Results,     \* request keys of results
  Works,       \* work items a context may be prepared for
  Actors,      \* agents and operators
  Parts,       \* the parts of a decision map
  TaskParts,   \* work item -> the parts that its context shows
  NextPart,    \* the part that holds the work queued by a result
  Texts,       \* what a part may say
  NextText,    \* what NextPart says when work is queued
  Records,     \* other records of the workspace
  TaskRecords, \* those that every context includes
  Contents,    \* the contents that a digest tells apart
  First,       \* what the first revision of the map may be
  Drafts,      \* the maps that revisions outside acceptances record
  Changes,     \* what such a revision, or an acceptance, does to other work
  Proposals,   \* what agents propose
  Nothing,     \* no such context, result, map, objective or digest
  MaxRevisions, MaxVersion, MaxEvidence, MaxReviews, \* bounds of one history
  MaxOutside   \* bound on what else happens outside the map and the work

VARIABLES
  revs,     \* the revisions of the map, oldest first
  work,     \* work item -> [status, owner, version]
  scope,    \* the content of the venture's objective, stage and focus
  record,   \* record -> its content
  input,    \* work item -> whether all human input it depends on is there
  evidence, \* the evidence of the workspace, by content
  reviewed, \* evidence -> the content an accepted result covered
  review,   \* the revision of the current workspace review
  context,  \* key -> the saved context
  result,   \* key -> the saved result
  receipt,  \* result -> how it has been resolved
  outsides  \* how often others have changed what a context pins

outside == <<scope, record, input>>
saved   == <<context, result, receipt>>
vars    == <<revs, work, outside, evidence, reviewed, review, saved, outsides>>

Queue    == "agent"  \* the owner of unclaimed work
Active   == {"todo", "ready", "in_progress", "blocked"}
Statuses == Active \cup {"done", "cancelled"}
Inputs   == {"met", "open"}
Resolved == {"accept", "reject"}

Maps     == [Parts -> Texts]
Row      == [status : Statuses, owner : Actors \cup {Queue}, version : 1..MaxVersion]
Revision == [actor : Actors, map : Maps, scope : Contents]

\* What an agent may propose.  answered: the outcome is "continue" or "narrow",
\* which presupposes the human input of the work.
Proposal == [completes : BOOLEAN, answered : BOOLEAN, next : BOOLEAN,
             map : Maps \cup {Nothing}, objective : Contents \cup {Nothing},
             findings : 0..MaxEvidence, cites : SUBSET (1..MaxEvidence),
             judges : UNION {[R -> Contents] : R \in SUBSET Records}]

\* What a context pins, but for the map.
Pins == [scope : Contents, version : Nat, review : Nat, evidence : Seq(Contents),
         input : [Works -> Inputs], records : [TaskRecords -> Contents]]
Context == [actor : Actors, work : Works, head : Nat,
            task : UNION {[P -> Texts] : P \in SUBSET Parts},
            ground : Pins, seen : SUBSET Nat, complete : BOOLEAN]
Result == [context : Contexts, proposal : Proposals, supersedes : Results \cup {Nothing},
           records  : UNION {[R -> Contents] : R \in SUBSET Records},
           evidence : UNION {[E -> Contents] : E \in SUBSET (1..MaxEvidence)}]

ASSUME HandoffBounds == /\ {MaxRevisions, MaxVersion, MaxReviews} \subseteq Nat \ {0}
                        /\ {MaxEvidence, MaxOutside} \subseteq Nat
ASSUME HandoffParts == /\ TaskParts \in [Works -> SUBSET Parts]
                       /\ NextPart \in Parts /\ NextText \in Texts
ASSUME HandoffRecords == TaskRecords \subseteq Records
ASSUME HandoffNames == /\ Nothing \notin Maps \cup Contents \cup Results
                       /\ Nothing \notin Context /\ Nothing \notin Result
                       /\ Queue \notin Actors
ASSUME HandoffInputs == /\ Proposals \subseteq Proposal /\ First \subseteq Revision
                        /\ Drafts \subseteq Maps

-----------------------------------------------------------------------------
(* What a context pins, and when it no longer holds. *)

Latest == revs[Len(revs)]

\* task_map: what the context of w shows of map m.
Task(m, w) == [p \in TaskParts[w] |-> m[p]]

\* The state that a result for w must be accepted in, but for the map.
Ground(w) ==
  [scope    |-> scope,
   version  |-> work[w].version,
   review   |-> review,
   evidence |-> evidence,
   input    |-> input,
   records  |-> [r \in TaskRecords |-> record[r]]]

ClaimedBy(a, w) == work[w].status = "in_progress" /\ work[w].owner = a

\* Fault: only the current revision counts.
LatestCompatible(c) ==
  /\ ClaimedBy(c.actor, c.work)
  /\ Latest.actor = c.actor /\ Latest.scope = c.ground.scope
  /\ Task(Latest.map, c.work) = c.task

\* _compatible_map: the claimant made every revision since context c, and none
\* of them touched its task.
Compatible(c) ==
  /\ ClaimedBy(c.actor, c.work)
  /\ \A n \in (c.head + 1)..Len(revs) :
       /\ revs[n].actor = c.actor
       /\ revs[n].scope = c.ground.scope
       /\ Task(revs[n].map, c.work) = c.task

\* _stale finds nothing.
ContextHolds(c) ==
  /\ Len(revs) = c.head \/ Compatible(c)
  /\ Ground(c.work) = c.ground

\* _result_stale finds nothing: the proposed references are unchanged as well.
Fresh(r) ==
  /\ ContextHolds(context[result[r].context])
  /\ \A x \in DOMAIN result[r].records : record[x] = result[r].records[x]
  /\ \A e \in DOMAIN result[r].evidence : evidence[e] = result[r].evidence[e]

\* Fault: whatever ids the caller names.
AnyEvidence == SUBSET (1..MaxEvidence)

\* The evidence a context may include: what exists of what the caller names and
\* of what explicit links lead to.
Selectable == SUBSET DOMAIN evidence

\* Every piece of evidence is in the context or was covered as it is now.
Covers(seen) == \A e \in DOMAIN evidence : e \in seen \/ reviewed[e] = evidence[e]

-----------------------------------------------------------------------------
(* Contexts and results. *)

Prepare(k, a, w, seen) ==
  /\ context[k] = Nothing
  /\ context' = [context EXCEPT ![k] =
       [actor |-> a, work |-> w, head |-> Len(revs), task |-> Task(Latest.map, w),
        ground |-> Ground(w), seen |-> seen, complete |-> Covers(seen)]]
  /\ UNCHANGED <<revs, work, outside, evidence, reviewed, review, result, receipt, outsides>>

\* A result is saved whether or not its context still holds.
Submit(r, k, p, earlier) ==
  /\ result[r] = Nothing
  /\ context[k] # Nothing
  /\ p.cites \subseteq DOMAIN evidence
  /\ earlier # Nothing => result[earlier] # Nothing
  /\ result' = [result EXCEPT ![r] =
       [context |-> k, proposal |-> p, supersedes |-> earlier,
        records  |-> [x \in DOMAIN p.judges |-> record[x]],
        evidence |-> [e \in p.cites |-> evidence[e]]]]
  /\ UNCHANGED <<revs, work, outside, evidence, reviewed, review, context, receipt, outsides>>

-----------------------------------------------------------------------------
(* Resolution. *)

\* Fault: an earlier receipt is not looked for.
Submitted(r) == result[r] # Nothing

\* The result has no receipt yet.  A deferral leaves a note, not a receipt.
Unresolved(r) == result[r] # Nothing /\ receipt[r] \notin Resolved

Reject(r) ==
  /\ Unresolved(r)
  /\ receipt' = [receipt EXCEPT ![r] = "reject"]
  /\ UNCHANGED <<revs, work, outside, evidence, reviewed, review, context, result, outsides>>

\* What a revision may do to the row of a work item: nothing, the next version
\* because the revision affects it, or a treatment.
Treatments == {"leave", "affect", "resume", "pause", "cancel"}

ASSUME HandoffChanges == Changes \subseteq Treatments

Treated(row, t) ==
  LET to(s) == [status |-> s, owner |-> row.owner, version |-> row.version + 1]
  IN  IF t = "leave" \/ row.status \notin Active THEN row
      ELSE IF t = "pause" THEN to("blocked")
      ELSE IF t = "cancel" THEN to("cancelled")
      ELSE IF t = "resume" /\ row.status = "blocked" THEN to("ready")
      ELSE to(row.status)

Completed(row) == [status |-> "done", owner |-> row.owner, version |-> row.version + 1]

\* Rows whose versions stay within the bound.
Bounded(rows) == \A w \in Works : rows[w].version <= MaxVersion

\* Fault: no review while the work stays open.
ReviewIfCompleted(p) == IF p.completes THEN review + 1 ELSE review

\* The review that every acceptance appends.
NextReview(p) == review + 1

\* The map an accepted proposal records: its own or the current one, with a node
\* for the work it queues.
ProposedMap(p) ==
  LET m == IF p.map = Nothing THEN Latest.map ELSE p.map
  IN  [q \in Parts |-> IF p.next /\ q = NextPart THEN NextText ELSE m[q]]

\* Fault: what the result itself found is not covered.
CoveredButFindings(c, p, now) ==
  [e \in 1..MaxEvidence |->
     IF e \in p.cites THEN now[e]
     ELSE IF e \in c.seen THEN c.ground.evidence[e] ELSE reviewed[e]]

\* What counts as reviewed after proposal p: what its context included, what it
\* cites and what it found, besides what was covered before.
Covered(c, p, now) ==
  [e \in 1..MaxEvidence |->
     IF e \in p.cites \cup ((Len(evidence) + 1)..Len(now)) THEN now[e]
     ELSE IF e \in c.seen THEN c.ground.evidence[e] ELSE reviewed[e]]

\* The choice to accept r is not refused.  Gaps in the coverage of evidence are
\* for the caller to accept, so that they refuse nothing here.
Acceptable(r) ==
  /\ Unresolved(r)
  /\ Fresh(r)
  /\ LET w == context[result[r].context].work
     IN  /\ work[w].status \in Active
         /\ result[r].proposal.answered => input[w] # "open"

\* _resolve with "accept", and _accept.  ts: the proposed treatments and what
\* the revision affects; found: the findings.
Accept(r, who, ts, found) ==
  LET p == result[r].proposal
      c == context[result[r].context]
      done == [w \in Works |-> IF p.completes /\ w = c.work THEN Completed(work[w])
                               ELSE work[w]]
  IN  /\ Len(found) = p.findings
      /\ Len(evidence) + Len(found) <= MaxEvidence
      /\ Len(revs) < MaxRevisions /\ review < MaxReviews
      /\ evidence' = evidence \o found
      /\ record' = [x \in Records |-> IF x \in DOMAIN p.judges THEN p.judges[x]
                                      ELSE record[x]]
      /\ scope' = IF p.objective = Nothing THEN scope ELSE p.objective
      /\ review' = NextReview(p)
      /\ work' = [w \in Works |-> Treated(done[w], ts[w])]
      /\ Bounded(work')
      /\ revs' = Append(revs, [actor |-> who, map |-> ProposedMap(p), scope |-> scope'])
      /\ reviewed' = Covered(c, p, evidence')
      /\ receipt' = [receipt EXCEPT ![r] = "accept"]
      /\ UNCHANGED <<input, context, result, outsides>>

-----------------------------------------------------------------------------
(* What goes on in the meantime. *)

\* Any revision of the map outside an acceptance.
Revise(a, m, ts) ==
  /\ Len(revs) < MaxRevisions
  /\ work' = [w \in Works |-> Treated(work[w], ts[w])]
  /\ Bounded(work')
  /\ revs' = Append(revs, [actor |-> a, map |-> m, scope |-> scope])
  /\ UNCHANGED <<outside, evidence, reviewed, review, saved, outsides>>

Moves(w, status, owner) ==
  /\ work[w].version < MaxVersion
  /\ work' = [work EXCEPT ![w] = [status |-> status, owner |-> owner,
                                  version |-> @.version + 1]]
  /\ UNCHANGED <<revs, outside, evidence, reviewed, review, saved, outsides>>

\* Eligibility to claim (DecisionMaps) is left open.
Claim(a, w) == work[w].status \in {"todo", "ready"} /\ Moves(w, "in_progress", a)

Release(a, w) == ClaimedBy(a, w) /\ Moves(w, "ready", Queue)

\* Somebody else changes what a context may pin.
Outside == /\ outsides < MaxOutside
           /\ outsides' = outsides + 1

\* capture, and evidence that other services add.
Capture(content) ==
  /\ Outside
  /\ Len(evidence) < MaxEvidence
  /\ evidence' = Append(evidence, content)
  /\ UNCHANGED <<revs, work, outside, reviewed, review, saved>>

ChangeEvidence(e, content) ==
  /\ Outside
  /\ evidence[e] # content
  /\ evidence' = [evidence EXCEPT ![e] = content]
  /\ UNCHANGED <<revs, work, outside, reviewed, review, saved>>

\* ReviewService.append.
AppendReview ==
  /\ Outside
  /\ review < MaxReviews
  /\ review' = review + 1
  /\ UNCHANGED <<revs, work, outside, evidence, reviewed, saved>>

ChangeScope(content) ==
  /\ Outside
  /\ scope # content
  /\ scope' = content
  /\ UNCHANGED <<revs, work, record, input, evidence, reviewed, review, saved>>

ChangeRecord(x, content) ==
  /\ Outside
  /\ record[x] # content
  /\ record' = [record EXCEPT ![x] = content]
  /\ UNCHANGED <<revs, work, scope, input, evidence, reviewed, review, saved>>

\* A dependency on a person is added, answered or opened again.
ChangeInput(w, state) ==
  /\ Outside
  /\ input[w] # state
  /\ input' = [input EXCEPT ![w] = state]
  /\ UNCHANGED <<revs, work, scope, record, evidence, reviewed, review, saved>>

-----------------------------------------------------------------------------
\* A workspace whose first map has been recorded.
Init ==
  /\ \E first \in First :
       /\ revs = <<first>>
       /\ scope = first.scope
       /\ record = [x \in Records |-> first.scope]
  /\ work = [w \in Works |-> [status |-> "ready", owner |-> Queue, version |-> 1]]
  /\ input = [w \in Works |-> "met"]
  /\ evidence = <<>>
  /\ reviewed = [e \in 1..MaxEvidence |-> Nothing]
  /\ review = 0
  /\ context = [k \in Contexts |-> Nothing]
  /\ result = [r \in Results |-> Nothing]
  /\ receipt = [r \in Results |-> "none"]
  /\ outsides = 0

HandoffStep ==
  \/ \E k \in Contexts, a \in Actors, w \in Works, seen \in Selectable : Prepare(k, a, w, seen)
  \/ \E r \in Results, k \in Contexts, p \in Proposals, earlier \in Results \cup {Nothing} :
       Submit(r, k, p, earlier)
  \/ \E r \in Results : Reject(r)
  \/ \E r \in {q \in Results : Acceptable(q)}, who \in Actors, ts \in [Works -> Changes],
        found \in UNION {[1..n -> Contents] : n \in 0..MaxEvidence} : Accept(r, who, ts, found)

OtherStep ==
  \/ \E a \in Actors, m \in Drafts, ts \in [Works -> Changes] : Revise(a, m, ts)
  \/ \E a \in Actors, w \in Works : Claim(a, w) \/ Release(a, w)
  \/ \E content \in Contents :
       \/ Capture(content) \/ ChangeScope(content)
       \/ \E e \in DOMAIN evidence : ChangeEvidence(e, content)
       \/ \E x \in Records : ChangeRecord(x, content)
  \/ AppendReview
  \/ \E w \in Works, state \in Inputs : ChangeInput(w, state)

Next == HandoffStep \/ OtherStep

Spec == Init /\ [][Next]_vars

-----------------------------------------------------------------------------
(* Properties. *)

Saved == {r \in Results : result[r] # Nothing}

ContextOK(c) ==
  /\ c.head \in 1..Len(revs) /\ c.task = Task(revs[c.head].map, c.work)
  /\ c.seen \subseteq DOMAIN c.ground.evidence

ResultOK(q) ==
  /\ context[q.context] # Nothing
  /\ q.proposal.cites \subseteq DOMAIN evidence

\* Every row and every saved artifact is well formed: a context shows a map
\* revision and evidence that exist, a result belongs to a saved context and
\* cites evidence that exists, and only a result that exists is resolved.
TypeOK ==
  /\ revs \in Seq(Revision) /\ Len(revs) \in 1..MaxRevisions
  /\ work \in [Works -> Row]
  /\ scope \in Contents
  /\ record \in [Records -> Contents]
  /\ input \in [Works -> Inputs]
  /\ evidence \in Seq(Contents) /\ Len(evidence) <= MaxEvidence
  /\ reviewed \in [1..MaxEvidence -> Contents \cup {Nothing}]
  /\ review \in 0..MaxReviews
  /\ outsides \in 0..MaxOutside
  /\ context \in [Contexts -> Context \cup {Nothing}]
  /\ result \in [Results -> Result \cup {Nothing}]
  /\ receipt \in [Results -> Resolved \cup {"none"}]
  /\ \A k \in Contexts : context[k] # Nothing => ContextOK(context[k])
  /\ \A r \in Saved : ResultOK(result[r])
  /\ \A r \in Results : receipt[r] # "none" => r \in Saved

\* A resolved result stays resolved the way it was, and its effects are applied
\* once: no later call, whatever choice it repeats or changes, touches a receipt.
ReceiptStands ==
  [][\A r \in Results : receipt[r] \in Resolved => receipt'[r] = receipt[r]]_vars

AcceptedNow(r) == receipt[r] # "accept" /\ receipt'[r] = "accept"

\* Competing sessions: of the results made from one context at most one is ever
\* accepted, also when it leaves the work open and changes nothing it rests on.
OneAcceptancePerContext ==
  \A r, q \in Results :
    (r # q /\ receipt[r] = "accept" /\ receipt[q] = "accept")
      => result[r].context # result[q].context

\* The results that q replaces, directly or through others.
Closed(S) == \A x \in S : result[x].supersedes \in S \cup {Nothing}
Replaced(q) ==
  {r \in Saved : \A S \in SUBSET Saved :
     (Closed(S) /\ result[q].supersedes \in S \cup {Nothing}) => r \in S}

\* Nothing that an accepted result replaces is accepted after it, although no
\* guard of resolve looks at the chain of replacements.
SupersededNeverAccepted ==
  [][\A r, q \in Results :
       (AcceptedNow(r) /\ receipt[q] = "accept") => r \notin Replaced(q)]_vars

\* Somebody else has revised the map since context k was made.
Voided(k) ==
  /\ context[k] # Nothing
  /\ \E n \in (context[k].head + 1)..Len(revs) : revs[n].actor # context[k].actor

\* One revision by somebody else voids a context for good: no result of it is
\* accepted from then on and no step revives it, also when the claimant revises the
\* map before and after, claims the work again, and the task looks as it did.
VoidedForGood ==
  [][\A k \in Contexts : Voided(k) =>
       /\ Voided(k)'
       /\ \A r \in Results : AcceptedNow(r) => result[r].context # k]_vars

\* A result accepted from a complete context leaves no evidence of the workspace
\* uncovered, neither what came before the context nor what it found itself.
CompleteAcceptanceCoversAll ==
  [][\A r \in Results :
       (AcceptedNow(r) /\ context[result[r].context].complete)
          => \A e \in DOMAIN evidence' : reviewed'[e] = evidence'[e]]_vars

-----------------------------------------------------------------------------
(* Contexts and results both keep the promise of OptimisticAcceptance, each *)
(* for what it records itself: a context for the task and the state of its *)
(* work, a result for the records it judges and the evidence it cites.     *)

\* What a context for w shows.
Shown(w) == [ground |-> Ground(w), task |-> Task(Latest.map, w)]

\* A context is used up by the first of its results that is accepted.
ContextStatus(k) ==
  IF context[k] = Nothing THEN "absent"
  ELSE IF \E r \in Results : receipt[r] = "accept" /\ result[r].context = k THEN "accepted"
  ELSE "open"

ContextBasis(k) ==
  IF context[k] = Nothing THEN Nothing
  ELSE [w \in {context[k].work} |->
          [ground |-> context[k].ground, task |-> context[k].task]]

ContextOffers == INSTANCE OptimisticAcceptance WITH
  Offers <- Contexts, Things <- Works, Nobody <- Nothing,
  world  <- [w \in Works |-> Shown(w)],
  status <- [k \in Contexts |-> ContextStatus(k)],
  basis  <- [k \in Contexts |-> ContextBasis(k)]

\* What a result may refer to, and how that looks.
References == ({"record"} \X Records) \cup ({"evidence"} \X (1..MaxEvidence))
Looks(x)   == IF x[1] = "record" THEN record[x[2]]
              ELSE IF x[2] \in DOMAIN evidence THEN evidence[x[2]] ELSE Nothing

ResultStatus(r) ==
  CASE result[r] = Nothing -> "absent"
    [] result[r] # Nothing /\ receipt[r] = "accept" -> "accepted"
    [] result[r] # Nothing /\ receipt[r] = "reject" -> "withdrawn"
    [] OTHER -> "open"

ResultBasis(r) ==
  IF result[r] = Nothing THEN Nothing
  ELSE [x \in ({"record"} \X DOMAIN result[r].records)
                \cup ({"evidence"} \X DOMAIN result[r].evidence) |->
          IF x[1] = "record" THEN result[r].records[x[2]] ELSE result[r].evidence[x[2]]]

ResultOffers == INSTANCE OptimisticAcceptance WITH
  Offers <- Results, Things <- References, Nobody <- Nothing,
  world  <- [x \in References |-> Looks(x)],
  status <- [r \in Results |-> ResultStatus(r)],
  basis  <- [r \in Results |-> ResultBasis(r)]

\* Whatever came between, a result is accepted over the task and the state that
\* its context showed when it was prepared.
AcceptsWhatWasShown == ContextOffers!Spec

\* A result is accepted over the references it was submitted with, and what has
\* become of it once stays.
AcceptsWhatWasCited == ResultOffers!Spec

=============================================================================
