---------------------------- MODULE DecisionMaps ----------------------------
(***************************************************************************)
(* The decision map of one workspace and the work items it governs.        *)
(*                                                                         *)
(* Agents and operators revise the map, treat, claim, release, create and  *)
(* close work; other services change the records the map refers to; the    *)
(* command line sets a status directly.  Every operation is one database   *)
(* transaction that takes the write lock first (snapshots.transaction),    *)
(* hence one step, except the direct status change: it runs in a plain     *)
(* UnitOfWork whose reads are not a snapshot, hence two steps.             *)
(*                                                                         *)
(* A caller holds the head and the versions it read earlier.  A call whose *)
(* expected head or expected version is out of date is refused and changes *)
(* nothing, so the actions below are the calls that are not refused.       *)
(***************************************************************************)
EXTENDS MapGraph

CONSTANTS
  Records,      \* ids of the other records a map may refer to
  Actors,       \* callers that claim work and revise the map
  Contents,     \* the values the digest of a record tells apart
  Drafts,       \* the drafts callers submit, valid or not
  NewStatuses,  \* the statuses work is created with
  CliStatuses,  \* the statuses the command line sets
  Idle,         \* no direct status change is under way
  MaxRevisions, \* bound on the revisions of the map
  MaxVersion,   \* bound on the version of a work item
  MaxTreated    \* bound on the treatments of one revision

VARIABLES
  work,   \* work item -> its row
  record, \* other record -> the content its digest covers
  scope,  \* the content of the workspace's own objective, stage and focus
  head,   \* the current map revision, or NoMap
  input,  \* work item -> its human input dependencies, taken together
  cli     \* the direct status change under way, or Idle

vars == <<work, record, scope, head, input, cli>>

NoMap     == [seq |-> 0]  \* no decision map has been recorded yet
Unclaimed == "agent"
Active    == {"todo", "ready", "in_progress", "blocked"}
Statuses  == Active \cup {"done", "cancelled"}
Reasons   == {"none", "changed_context", "human_input"}

Row == [status  : Statuses \cup {"absent"},
        owner   : Actors \cup {Unclaimed},
        version : 1..MaxVersion,
        reason  : Reasons,
        content : Contents]

\* One reviewed treatment of a work item.  Only "revise" changes content.
Treatment == [action : {"keep", "pause", "cancel"}, content : {NoRef}]
               \cup [action : {"revise"}, content : Contents]

\* What a new work item may be: add_work_item gives "todo", an intake "ready" or
\* "blocked", NextWork any of them.  Unclaimed also stands for no owner at all.
NewRow == {[status  |-> s, owner |-> Unclaimed, version |-> 1, content |-> c,
            reason  |-> IF s = "blocked" THEN "human_input" ELSE "none"]
             : s \in NewStatuses, c \in Contents}

\* The records a draft refers to.
Refs(d) == {d.node[n].ref : n \in Nodes(d)} \ {NoRef}

ASSUME BoundsAreNat == {MaxRevisions, MaxVersion, MaxTreated} \subseteq Nat /\ MaxVersion >= 1 /\ MaxRevisions >= 1
ASSUME RefsDistinct == /\ Works \cap Records = {}
                       /\ NoRef \notin Works \cup Records \cup Contents
ASSUME StatusChoice == /\ NewStatuses \subseteq {"todo", "ready", "blocked"}
                       /\ CliStatuses \subseteq Statuses
ASSUME DraftsReferToRecords == \A d \in Drafts : Refs(d) \subseteq Works \cup Records
ASSUME NamesDistinct == Unclaimed \notin Actors

-----------------------------------------------------------------------------
(* Reading the map against the stored records. *)

\* The content a reference pins.  Status, owner, blocked reason and version of
\* a work item are outside it.
DigestOf(rows, r) == IF r \in Works THEN rows[r].content ELSE record[r]

StaleNodes(rows, h) ==
  {n \in Nodes(h.draft) :
     \/ h.scope # scope
     \/ LET r == h.draft.node[n].ref
        IN  r # NoRef /\ h.digest[r] # DigestOf(rows, r)}

IsActive(rows, w) == rows[w].status \in Active

DerivedReviews(rows, h) ==
  {w \in h.pending \cup DependentWork(h.draft, StaleNodes(rows, h)) : IsActive(rows, w)}

\* Work whose next execution needs a review of the map first.
Owed(rows) == IF head = NoMap THEN {} ELSE DerivedReviews(rows, head)

Pending == Owed(work)

\* execution_blockers: what keeps w from being started.
Blocked(w) ==
  \/ work[w].status = "blocked"
  \/ input[w] = "open"
  \/ w \in Pending
  \/ head # NoMap /\ \E p \in Prerequisites(head.draft, w) : work[p].status # "done"

-----------------------------------------------------------------------------
(* One revision of the map. *)

ChangedNodes(old, new) ==
  {n \in Nodes(old) \cup Nodes(new) :
     \/ n \notin Nodes(old) \cap Nodes(new)
     \/ old.node[n] # new.node[n]}

\* n is the same work node in both drafts.
UnchangedWork(old, new, n) ==
  n \notin ChangedNodes(old, new) /\ new.node[n].ref \in Works

\* An added or removed edge changes its source, and the target it sources,
\* unless that end is an unchanged work node; depends_on changes its source
\* in any case.
ChangedByEdges(old, new) ==
  LET flipped == (old.edge \ new.edge) \cup (new.edge \ old.edge)
  IN  {e.source : e \in {f \in flipped : \/ f.kind = "depends_on"
                                         \/ ~UnchangedWork(old, new, f.source)}}
        \cup
      {e.target : e \in {f \in flipped : /\ f.kind \in SourcingKinds
                                         /\ ~UnchangedWork(old, new, f.target)}}

ChangedByReferences(rows, h, new) ==
  {n \in Nodes(new) :
     LET r == new.node[n].ref
     IN  r \in DOMAIN h.digest /\ h.digest[r] # DigestOf(rows, r)}

Changed(rows, h, new) ==
  ChangedNodes(h.draft, new)
    \cup ChangedByEdges(h.draft, new)
    \cup ChangedByReferences(rows, h, new)
    \cup (IF h.scope # scope THEN Nodes(h.draft) \cup Nodes(new) ELSE {})

\* Work of the old map that a change reaches through the old or the new draft.
Affected(rows, h, new) ==
  LET c == Changed(rows, h, new)
  IN  (DependentWork(h.draft, c) \cup DependentWork(new, c))
        \cap WorkOf(h.draft, Nodes(h.draft))

\* A row with the next version (VersionedMixin) and otherwise the same.
NextRow(row, status, owner) ==
  [status |-> status, owner |-> owner, version |-> row.version + 1,
   reason |-> row.reason, content |-> row.content]

ClaimedBy(rows, a, w) == rows[w].status = "in_progress" /\ rows[w].owner = a

\* The affected work, without what the reviser itself is executing.
AffectedForOthers(rows, a, new) ==
  IF head = NoMap THEN {}
  ELSE {w \in Affected(rows, head, new) : ~ClaimedBy(rows, a, w)}

LiftsAnyBlock(row) == row.status = "blocked"  \* fault: whatever the reason
Lifted(row) == row.status = "blocked" /\ row.reason = "changed_context"

TreatedStatus(row, t) ==
  IF t.action = "pause" THEN "blocked"
  ELSE IF t.action = "cancel" THEN "cancelled"
  ELSE IF Lifted(row) THEN "ready" ELSE row.status

TreatedReason(row, t) ==
  IF t.action = "pause" /\ row.status # "blocked" THEN "changed_context"
  ELSE IF t.action \in {"keep", "revise"} /\ Lifted(row) THEN "none"
  ELSE row.reason

TreatedRow(row, t) ==
  [status  |-> TreatedStatus(row, t),
   owner   |-> row.owner,
   version |-> row.version + 1,
   reason  |-> TreatedReason(row, t),
   content |-> IF t.action = "revise" THEN t.content ELSE row.content]

\* Fault: affected work keeps its version.
RowsWithoutNewVersion(rows, ts, affected) ==
  [w \in Works |-> IF w \in DOMAIN ts THEN TreatedRow(rows[w], ts[w]) ELSE rows[w]]

\* The rows after the treatments ts, a function from work items to Treatment.
\* Affected work without a treatment only gets a new version: a version read
\* before this revision no longer claims it.
RevisedRows(rows, ts, affected) ==
  [w \in Works |->
     IF w \in DOMAIN ts THEN TreatedRow(rows[w], ts[w])
     ELSE IF w \in affected /\ IsActive(rows, w)
          THEN NextRow(rows[w], rows[w].status, rows[w].owner)
          ELSE rows[w]]

PausedBy(ts) == {w \in DOMAIN ts : ts[w].action = "pause"}

\* Faults: reviews owed before are forgotten; only a pause leaves a review.
PendingWithoutOwed(rows, ts, affected, owed) ==
  ({w \in affected : IsActive(rows, w)} \ DOMAIN ts) \cup PausedBy(ts)
PendingOnlyPaused(rows, ts, affected, owed) == PausedBy(ts)

\* The reviews the new revision records: those owed already and those of the
\* affected work, less the treated work, except that a pause keeps its review.
NextPending(rows, ts, affected, owed) ==
  LET flagged == {w \in affected : IsActive(rows, w)}
  IN  ((owed \cup flagged) \ DOMAIN ts) \cup PausedBy(ts)

\* The revision itself; its digests are taken after the treatments.
NewHead(rows, a, new, ts, pending) ==
  [seq     |-> head.seq + 1,
   actor   |-> a,
   draft   |-> new,
   scope   |-> scope,
   digest  |-> [r \in Refs(new) |-> DigestOf(rows, r)],
   pending |-> pending,
   treated |-> [w \in DOMAIN ts |-> ts[w].action]]

\* DecisionMapService._revise.  rows are the work rows when it starts; after,
\* those it leaves.
Record(rows, a, new, ts, affected, owed) ==
  LET after == RevisedRows(rows, ts, affected)
  IN  /\ head.seq < MaxRevisions
      /\ Refs(new) \cap {w \in Works : rows[w].status = "absent"} = {}
      /\ {w \in DOMAIN ts : ~IsActive(rows, w)} = {}
      /\ {w \in Works : after[w].version > MaxVersion} = {}
      /\ work' = after
      /\ head' = NewHead(after, a, new, ts, NextPending(rows, ts, affected, owed))

-----------------------------------------------------------------------------
(* Operations. *)

\* The drafts the contract lets through (DecisionMapDraft.graph_rules).
ValidDrafts == {d \in Drafts : GraphRules(d)}

\* A caller treats at most MaxTreated work items in one revision.
Treatings ==
  UNION {[T -> Treatment] : T \in {S \in SUBSET Works : Cardinality(S) <= MaxTreated}}

Revise(a, new) ==
  LET affected == AffectedForOthers(work, a, new)
      owed     == Owed(work)
  IN  /\ \E ts \in Treatings : Record(work, a, new, ts, affected, owed)
      /\ UNCHANGED <<record, scope, input, cli>>

\* Fault: the node is added as a question about the work.
WithQuestion(d, w, c) ==
  [node |-> [n \in Nodes(d) \cup {w} |-> IF n = w THEN [kind |-> "question", ref |-> w, text |-> c]
                                        ELSE d.node[n]],
   edge |-> d.edge, focus |-> {w}]

\* The draft with a node for new work w, which contributes to a goal if there is one.
WithWork(d, w, c) ==
  LET goals   == {n \in Nodes(d) : d.node[n].kind = "goal"}
      body    == [kind |-> "record", ref |-> w, text |-> c]
      edge(g) == [source |-> w, target |-> g, kind |-> "contributes_to", text |-> NoRef]
  IN  [node |-> [n \in Nodes(d) \cup {w} |-> IF n = w THEN body ELSE d.node[n]],
       edge |-> IF goals = {} THEN d.edge
                ELSE d.edge \cup {edge(CHOOSE g \in goals : TRUE)},
       focus |-> {w}]

CreateWork(a, w, row) ==
  /\ work[w].status = "absent"
  /\ LET rows == [work EXCEPT ![w] = row]
     IN  IF head = NoMap
         THEN work' = rows /\ UNCHANGED head
         ELSE /\ w \notin Nodes(head.draft)
              /\ LET new == WithWork(head.draft, w, row.content)
                 IN  Record(rows, a, new, <<>>, AffectedForOthers(rows, a, new), Owed(rows))
  /\ UNCHANGED <<record, scope, input, cli>>

\* Work that other services add without a node in the map: add_work_item, and
\* the next work that an intake or the review of an answer queues.
AddWork(w, row) ==
  /\ work[w].status = "absent"
  /\ work' = [work EXCEPT ![w] = row]
  /\ UNCHANGED <<record, scope, head, input, cli>>

Claim(a, w) ==
  /\ work[w].status \in {"ready", "todo"}
  /\ work[w].version < MaxVersion
  /\ ~Blocked(w)
  /\ work' = [work EXCEPT ![w] = NextRow(@, "in_progress", a)]
  /\ UNCHANGED <<record, scope, head, input, cli>>

Release(a, w) ==
  /\ ClaimedBy(work, a, w)
  /\ work[w].version < MaxVersion
  /\ work' = [work EXCEPT ![w] = NextRow(@, "ready", Unclaimed)]
  /\ UNCHANGED <<record, scope, head, input, cli>>

Cancelling(w) == [x \in {w} |-> [action |-> "cancel", content |-> NoRef]]

CloseWork(a, w) ==
  /\ IsActive(work, w) /\ work[w].status # "in_progress"
  /\ IF head = NoMap
     THEN /\ work[w].version < MaxVersion
          /\ work' = [work EXCEPT ![w] = NextRow(@, "cancelled", work[w].owner)]
          /\ UNCHANGED head
     ELSE Record(work, a, head.draft, Cancelling(w),
                 AffectedForOthers(work, a, head.draft), Owed(work))
  /\ UNCHANGED <<record, scope, input, cli>>

\* set_work_item_status reads the row, then what eligibility depends on ...
CheckStatus(w, s) ==
  /\ cli = Idle
  /\ work[w].status # "absent"
  /\ ~(s \in {"ready", "in_progress"} /\ Blocked(w))
  /\ cli' = [work |-> w, status |-> s, version |-> work[w].version]
  /\ UNCHANGED <<work, record, scope, head, input>>

\* ... and then writes, refused when the row has another version by then.
WriteStatus ==
  /\ cli # Idle
  /\ LET w == cli.work IN
     IF work[w].version # cli.version \/ work[w].status = cli.status
     THEN UNCHANGED work
     ELSE /\ work[w].version < MaxVersion
          /\ work' = [work EXCEPT ![w] = NextRow(@, cli.status, work[w].owner)]
  /\ cli' = Idle
  /\ UNCHANGED <<record, scope, head, input>>

-----------------------------------------------------------------------------
(* What other services do to the state this one reads. *)

ChangeRecord(r, c) ==
  /\ record[r] # c
  /\ record' = [record EXCEPT ![r] = c]
  /\ UNCHANGED <<work, scope, head, input, cli>>

ChangeScope(c) ==
  /\ scope # c
  /\ scope' = c
  /\ UNCHANGED <<work, record, head, input, cli>>

WaitsForHuman(w) == work[w].status = "blocked" /\ work[w].reason = "human_input"

LinkInput(w) ==
  /\ WaitsForHuman(w)
  /\ input[w] = "none"
  /\ input' = [input EXCEPT ![w] = "open"]
  /\ UNCHANGED <<work, record, scope, head, cli>>

\* A sufficient review of the answer closes the last open dependency of w.
AnswerInput(w) ==
  /\ WaitsForHuman(w)
  /\ input[w] = "open"
  /\ work[w].version < MaxVersion
  /\ input' = [input EXCEPT ![w] = "met"]
  /\ work' = [work EXCEPT ![w] = NextRow(@, "done", work[w].owner)]
  /\ UNCHANGED <<record, scope, head, cli>>

\* A corrected answer or a revised question reopens it; the row is not touched.
ReopenInput(w) ==
  /\ input[w] = "met"
  /\ input' = [input EXCEPT ![w] = "open"]
  /\ UNCHANGED <<work, record, scope, head, cli>>

-----------------------------------------------------------------------------
Init ==
  /\ \E c \in Contents :
       /\ work = [w \in Works |-> [status |-> "absent", owner |-> Unclaimed,
                                   version |-> 1, reason |-> "none", content |-> c]]
       /\ record = [r \in Records |-> c]
       /\ scope = c
  /\ head = NoMap
  /\ input = [w \in Works |-> "none"]
  /\ cli = Idle

MapStep ==
  \E a \in Actors :
    \/ \E new \in ValidDrafts : Revise(a, new)
    \/ \E w \in Works : CloseWork(a, w)
    \/ \E w \in Works, row \in NewRow : CreateWork(a, w, row)

WorkStep ==
  \/ \E a \in Actors, w \in Works : Claim(a, w) \/ Release(a, w)
  \/ \E w \in Works, s \in CliStatuses : CheckStatus(w, s)
  \/ WriteStatus

OtherStep ==
  \/ \E r \in Records, c \in Contents : ChangeRecord(r, c)
  \/ \E c \in Contents : ChangeScope(c)
  \/ \E w \in Works, row \in NewRow : AddWork(w, row)
  \/ \E w \in Works : LinkInput(w) \/ AnswerInput(w) \/ ReopenInput(w)

Next == MapStep \/ WorkStep \/ OtherStep

Spec == Init /\ [][Next]_vars

-----------------------------------------------------------------------------
(* Properties. *)

\* Every row, every revision and every pending call is well formed, and the
\* current revision refers only to records that exist.
TypeOK ==
  /\ work \in [Works -> Row]
  /\ record \in [Records -> Contents]
  /\ scope \in Contents
  /\ input \in [Works -> {"none", "open", "met"}]
  /\ cli \in {Idle} \cup [work : Works, status : Statuses, version : 1..MaxVersion]
  /\ head # NoMap =>
       /\ head.seq \in 1..MaxRevisions
       /\ head.actor \in Actors
       /\ head.scope \in Contents
       /\ GraphRules(head.draft)
       /\ Refs(head.draft) \subseteq Works \cup Records
       /\ \A w \in Refs(head.draft) \cap Works : work[w].status # "absent"
       /\ head.digest \in [Refs(head.draft) -> Contents]
       /\ head.pending \subseteq Works

\* Prerequisites never make unfinished work wait in a circle, in a map that has
\* one node for each work item at most.
NoCircularWait ==
  (head # NoMap /\ OneNodePerWork(head.draft))
    => NoWorkWaitsInCircle(head.draft, {w \in Works : IsActive(work, w)})

\* ... and, as the plan of the decision backbone has it ("If `depends_on`
\* connects active work, reject dependency cycles/self-dependencies"), in every
\* map.
PrerequisitesNeverCircular ==
  head # NoMap => NoWorkWaitsInCircle(head.draft, {w \in Works : IsActive(work, w)})

\* Active work on which the current map records a review to be made is never
\* started, neither by a claim nor by a direct status change whose eligibility
\* check ran before the revision that asked for the review.  (Finished work is
\* not under review; the command line may reopen it.)
Starts(w) == /\ work[w].status \in Active \ {"in_progress"}
             /\ work'[w].status = "in_progress"

StartRespectsRecordedReview ==
  [][\A w \in Works : (Starts(w) /\ head # NoMap) => w \notin head.pending]_vars

\* A review that is owed is never lost.  It goes away only when the work is
\* finished or cancelled, when a revision treats that very work, or, for a
\* review that only out-of-date references call for, when they hold again.
Settled(w) ==
  \/ ~IsActive(work, w)'
  \/ head' # head /\ w \in DOMAIN head'.treated
  \/ w \notin head.pending /\ UNCHANGED head

ReviewDebtIsKept ==
  [][\A w \in Pending : w \notin Pending' => Settled(w)]_vars

\* The references a new revision pins are up to date when it is recorded, also
\* those to work items the same revision rewrites.
NewRevisionIsFresh ==
  [][head' # head => (StaleNodes(work, head) = {})']_vars

\* Reviewing the map never stands in for a missing human answer: whatever
\* revisions pause, keep or revise the work, work blocked on an open human input
\* stays blocked until the answer is in, the work is cancelled, or an operator
\* sets its status directly.
HumanBlockOutlastsReview ==
  [][\A w \in Works :
       (WaitsForHuman(w) /\ input[w] = "open" /\ UNCHANGED cli)
          => WaitsForHuman(w)' \/ work'[w].status = "cancelled" \/ input'[w] = "met"]_vars

\* The references of a draft whose change reaches work w.
Upstream(d, w) == {r \in Refs(d) : w \in DependentWork(d, {n \in Nodes(d) : d.node[n].ref = r})}

\* Which references that reach w a revision records with another content.
ContextChange(w) ==
  {r \in Upstream(head.draft, w) \ {w} :
     r \in DOMAIN head'.digest /\ head'.digest[r] # head.digest[r]}

RewrittenNow == {r \in DOMAIN head'.treated : head'.treated[r] = "revise"}

\* A revision that records another content for something w depends on leaves w
\* to be reviewed, unless it treats w or its author is executing w.
NeedsReviewAfter(w, changes) ==
  (/\ changes # {}
   /\ w \in Refs(head.draft)
   /\ IsActive(work, w)'
   /\ w \notin DOMAIN head'.treated
   /\ ~ClaimedBy(work, head'.actor, w))
    => w \in head'.pending

\* ... for everything that changed before the revision,
ChangedContextIsReviewed ==
  [][(head # NoMap /\ head' # head) =>
        \A w \in Works : NeedsReviewAfter(w, ContextChange(w) \ RewrittenNow)]_vars

\* ... and, as ARCHITECTURE.md has it ("Changed dependencies require review
\* before execution"), also for work the revision itself rewrites.
RewrittenDependencyIsReviewed ==
  [][(head # NoMap /\ head' # head) =>
        \A w \in Works : NeedsReviewAfter(w, ContextChange(w))]_vars

=============================================================================
