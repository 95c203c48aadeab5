# A formal model of the startup foundry

The foundry (`src/src/startup_foundry`) is a local system of record for ventures.
People and agents read a venture's state, go away for minutes or days, and come
back with a change to it: a revised decision map, a claim on a work item, an
answer, the result of an investigation, a proposal to fuse two ventures. What
makes the code hard is not the size of any one operation. It is that each of them
is one transaction among many, that everything a caller read may be out of date
when it writes, and that the promises ("changed context requires review", "an old
answer is not reinterpreted", "the first outcome stands", "a source is reversed
only while nothing happened since") are kept by version columns, digests and
status fields spread over several services.

The modules here are TLA+ translations of those services. TLC checks them on
small instances; TLAPS proves the most important properties for all instances.
`PROJECT.json` maps each definition to the source lines that it stands for, and
lists the runs, the mutants, the hazards and the theorems.

Paths below are relative to `src/src/startup_foundry/` unless they start with
`src/`.

## 1. Inventory

| component | code | state | operations | what makes it correct |
|---|---|---|---|---|
| Map graph and contract | `decision_contracts.py` | none: a submitted draft of nodes, edges, focus | validation; `dependent_work`, `execution_blockers`, `task_map` read it | reachability loops return the whole reachable set; accepted drafts never make work wait for itself; a context shows all that bears on the work |
| Decision maps | `decision_maps.py` | head revision with pinned digests and the reviews it records; the work rows | `revise` with treatments; derived reviews; eligibility | a review owed is never lost; changed context is reviewed; a revision is born fresh; nothing under review is started |
| Work operations | `agent_handoffs.py` (claim, release, create, close), `application.py` (`add_work_item`, `set_work_item_status`) | `WorkItem` rows: status, owner, version, blocked reason | as named | every change is visible in the version; a block on a person is lifted only by that person |
| Human inputs | `human_inputs.py` | request, definition revision, replies and their review work, dependencies, file diagnostics | register, link, submit, claim, release, complete, preview, sync | an outcome is that of the current answer to the current wording; blocked work ends only when every cause is met; a sync saves what its preview showed |
| Request files | `request_files.py` | sections in files; what the last synchronisation left in each record | preview, apply | no two sections share a record, none has two; applying again writes nothing |
| Agent contexts and results | `agent_handoffs.py`: `prepare`, `submit`, `resolve`, `capture` | immutable contexts, results and receipts; the evidence covered so far | as named | of the results made from one reading at most one is applied; a foreign revision ends a context; a receipt is final; no evidence slips through the coverage |
| Directions | `reviews.py`, `venture_state.py`, the direction that `_accept` gives | append-only log of dispositions and next actions | append, import, accept a result | a result about one work item changes no direction of the venture |
| Step runs | `steps.py` | `StepRun` and its work item | `start`, `_finish`, `recover_interrupted` | one execution per request key; the first outcome stands; every run that is attended ends |
| Fusion proposals | `proposals.py` | proposals, their revisions, receipts, delegations, what accepting them did | create, supersede, revise, show, delegate, accept, reject, reverse | accepted over exactly the state it was revised from; a reversal answers all that happened since and never restores over a later review |
| Manual intake | `manual_intake.py` | first reviews of an idea and its ventures | request, promotion, claim, release, complete | one investigation of one revision, whoever promotes what meanwhile |
| Agent bridge | `src/tools/foundry_agent.py` | files beside a repository: contexts, reports, receipts | `start` with resumption; `feedback` | a failed start gives its claim back; interrupted work is resumed; a receipt is of what was recorded |
| Scoring, ranking | `scoring.py`, `venture_scoring.py` | scorecards, assessments, imported rows, rankings; copies for ventures | import a card, assess, import the workbook, rank; promote, bootstrap, judge | a row is scored once; a venture's own judgement stays the one shown |
| Discovery, portfolio | `discovery_records.py`, `portfolio.py` | ideas, revisions, relations, sources, actors, observations | create, revise, relate, register, cite, observe, import a campaign | what was observed of a revision is kept; one actor of a name |
| Workspaces | `venture_identity.py`, `workspace_modules.py`, `projects.py` | aliases; titles and snapshots of modules; checkpoints of existing projects | open, promote, alias, rename, configure, intake of a project | a name goes on selecting what it selects; a project is checked in once |
| Outreach | `outreach.py` | drafts, revisions, exports, outcomes | create, revise, export, report | what was sent can be read back |
| Transactions | `snapshots.py`, `repository.py` | the SQLite or PostgreSQL session | `transaction` (write lock first), `UnitOfWork` (plain) | atomicity; in the model this is the granularity of the actions |
| Backup | `storage.py` | a copy of the store | | not modelled |
| Schema, migrations | `domain.py`, `migrations.py`, `src/alembic` | tables | | the rows in use are mapped from the row types of the modules |
| CLI, web, views, bootstrap, demo | `cli.py`, `web.py`, `views.py`, ... | none of their own | input, output and rendering | not modelled |

How the components interact: all of them share one database. The map refers to
work items, assumptions, decisions and other records, and compares their content by digest.
A revision of the map writes work rows; claims and status changes read the map.
Human inputs block work and finish it; the review of an answer is itself a work
item that the general work operations can claim, release and close, and so is a
first review of an idea. Request files create and reword human inputs. A step run
owns a work item, and whether agent research is permitted depends on the
existence of a map. A context reads almost everything: the map, the work, the
review, all evidence, human inputs and every record that explicit links lead to; an
accepted result writes almost everything, through `_revise` and the review log. A
fusion reads reviews, work, questions and scores of its sources, and writes reviews and work of
them. Promotion connects ideas, intake, ventures and their scores. The bridge is
outside: it sees the store through single calls that may fail, time out or be
answered after it has been stopped. There are no callbacks, no background threads and no
messages: concurrency is that of several processes (CLI calls, the console, the
agent bridge) on one store.

What is hard: (a) the gap between what a caller read and what it writes, closed
by expected versions and digests; (b) the gap *inside* operations that use the
plain `UnitOfWork` (direct status changes, step runs, reviews), that act on a
preview (file sync), or that are several transactions (steps, project intake,
the bridge); (c) sequences of individually legal operations over several
revisions; (d) a process that dies between two transactions of one operation.

## 2. Plan

Everything in this list is done but the last item.

1. `MapGraph`, `MapAlgorithms`: the graph and the loops that search it.
2. `DecisionMaps`: revisions, reviews and work. Composes with `MapGraph` (extends it)
   and with human inputs through the gate of `InputGate`.
3. `InputGate` (abstract) and `HumanInputs` (implements it); `RequestFiles`.
4. `StepRuns`.
5. `Handoffs` (contexts, results, resolutions, capture); `Directions` (what an
   accepted result, a review or an import makes of the direction of a venture).
6. `OptimisticAcceptance` (abstract) and what implements it: `Fusion`, and `Handoffs` twice.
7. `ManualIntake`, `Scoring` and `VentureScoring` (extends it), `Discovery`,
   `Workspaces`: the records of ideas and ventures.
8. `AgentBridge`, `FeedbackOutbox`, `Outreach`: what goes on at the border of the store.
9. `MapGraphProofs`, `DecisionMapsProofs`, `StepRunsProofs`, `HandoffsProofs`.
10. `HumanInputsProofs` with the refinement of `InputGate`; `Origins`, `Portfolio` and `Tools`,
    which put components side by side, and their proofs: `OriginsProofs` with the refinement of
    `OptimisticAcceptance`, `PortfolioProofs`, `ToolsProofs`.
11. The loops of `MapAlgorithms` in small steps, so that they are proved about (`ToolsProofs`); the
    refinements of `OptimisticAcceptance` by contexts and by results (`HandoffsProofs`).
12. Open: the scope that a venture's own intake pins.

## 3. Modules

| module | models | run |
|---|---|---|
| `MapGraph` | `DecisionMapDraft`, `dependent_work`, the prerequisites in `execution_blockers`, `task_map`: operators only, reachability as a least closed set, without recursion, so that it can be proved about | `Maps` |
| `MapAlgorithms` | the loops of `dependent_work` and `task_map` and the depth-first search of `graph_rules`, in small steps: a round of a loop, a call or a return of the search; a draft is built edge by edge, and what a loop has found at its end is compared with `MapGraph` | `Tools` |
| `DecisionMaps` | `decision_maps.py`, the work operations, the direct status change | `Maps`, `MapRewrite`, `MapTwins` |
| `InputGate` | what human inputs promise about work that waits for a person; abstract | `Inputs` |
| `HumanInputs` | `human_inputs.py`; the effect of reworded sections of `request_files.py` | `Inputs`, `InputSection`, `InputRevised` |
| `RequestFiles` | `request_files.py`: how a section finds its record | `Portfolio` |
| `Handoffs` | contexts, results and their acceptance in `agent_handoffs.py`; the revision number of `reviews.py` | `Handoffs` |
| `Directions` | `reviews.py`, `venture_state.py` and the direction given in `_accept` | `Portfolio` |
| `StepRuns` | `steps.py` | `StepRuns` |
| `OptimisticAcceptance` | what "propose now, accept later" promises; abstract; implemented by `Fusion`, and by `Handoffs` for contexts and for results | `Fusion` |
| `Fusion` | `proposals.py` over `reviews.py` | `Fusion` |
| `ManualIntake` | `manual_intake.py`, promotion and links in `portfolio.py` | `Portfolio` |
| `Scoring`, `VentureScoring` | `scoring.py`, `venture_scoring.py` | `Portfolio` |
| `Discovery` | `discovery_records.py`, sources and the campaign import of `portfolio.py` | `Portfolio`, `ActorTwins` |
| `Workspaces` | `venture_identity.py`, `workspace_modules.py`, `projects.py` | `Fusion` |
| `AgentBridge`, `FeedbackOutbox` | `start` and `feedback` of `src/tools/foundry_agent.py` | `Tools` |
| `Outreach` | `outreach.py` | `Tools` |
| `Origins` | `Fusion` and `Workspaces` side by side: what ventures are made of and found by | `Fusion` |
| `Portfolio` | the records of ideas and ventures side by side: scores, discovery, intakes, directions, request files | `Portfolio` |
| `Tools` | `AgentBridge`, `FeedbackOutbox`, `Outreach` and `MapAlgorithms` side by side | `Tools` |
| `MapGraphProofs`, `DecisionMapsProofs`, `HumanInputsProofs`, `HandoffsProofs`, `StepRunsProofs`, `OriginsProofs`, `PortfolioProofs`, `ToolsProofs` | | theorems |
| `MC...` | | instances for TLC |

### DecisionMaps

One workspace. `work` holds the row of each work item (status, owner, version,
blocked reason, and `content` for the fields the digest covers); a row that does
not exist yet has status "absent". `record` and `scope` stand for the other
records a map refers to and for the workspace's own objective, stage and focus.
`head` is the current revision: its draft, the digests pinned by it, the scope
it was written for, the reviews it records (`pending`), the treatments it made.

Every service call in `decision_maps.py` and `agent_handoffs.py` runs in
`snapshots.transaction`, which takes the write lock before its first read.
Such a call is one action. The exception is `set_work_item_status` in
`application.py`: it reads eligibility and writes in a plain `UnitOfWork`. It is two
actions, `CheckStatus` and `WriteStatus`, and anything may happen between them.
Expected heads and versions are not modelled as parameters: a call with an
out-of-date expectation is refused and changes nothing, so that the actions are
the calls with current ones.

`_revise` is `Record`. Its order matters and is kept: the affected work is computed
from the rows before the treatments, the treatments are applied, versions of
the other affected rows are raised, and the digests are taken afterwards.
`CreateWork` and `CloseWork` go through it as the code does when a map exists.

Human inputs appear as `input`, one gate for each work item, with the operations of
`InputGate`; `HumanInputs` shows that the service behaves like that.

### HumanInputs

A request has a status and a definition revision. `reply[r]` is the sequence of
its saved answers; each element carries the state of the review work queued for
it, which is one to one in the code. `dep` holds the dependencies of blocked
work: `by` is the reply that satisfied it (0 for none) and `other` whether the work has
another cause. `sufficient` has the replies that a finished review found sufficient, and `verdict` the
reply and the outcome of the last review that moved the request. `file`, `lastFile` and
`preview` are the source file, the answer last handled from it (`source_diagnostics`), and the operator's preview. `sync`
compares the preview in one step with what is there when it applies it; rows
shown as "empty" are compared only before the transaction, so that `PreviewHolds`
does not constrain them. Replies are told apart by text; submission keys are not
modelled, since a repeated key returns the earlier receipt and writes nothing.

A request is either managed by a request file or answered in a file of its own
(`FileOrSection`); what an imported answer does to a managed record is in `RequestFiles`
(`ImportAnswer`).

Review work is ordinary work, and so is the work that waits. The general operations move both without
a look at the request: `ClaimAsWork`, `ReleaseAsWork`, `CloseAsWork` and `FinishAsWork` (an accepted
result that says its work is complete) of `agent_handoffs.py`, `TreatWork` (the treatments of a map
revision), `SetWorkStatus` (`set_work_item_status`, which may also reopen work that has ended), and
`MoveHeldWork` for the work that waits. They are given as much room as any one of them has, so that what
a fusion or an outreach report does to such work is among them; why a paused review is blocked is not
kept. A reviewer may have the name of the queue, "agent" (`Owners`). Because review work can be reopened, the
properties do not speak of its status: a dependency counts as answered by a reply that some review
found sufficient, and an outcome is that of the last review of the current reply.

### Handoffs

`context`, `result` and `receipt` are the three kinds of artifact, by request key. A
context pins what it was read from: `head` and `task` (the slice that `task_map`
shows), `ground` (scope, row version, review revision, evidence manifest, human
inputs, digests of the records), `seen` (the evidence it includes) and `complete`.
`ContextHolds` is `_stale`, conjunct by conjunct, and `Compatible` is
`_compatible_map`, which walks the revisions made since. `Fresh` adds the references
that a result pins itself. `Prepare`, `Submit`, `Reject` and `Accept` are whole calls:
all of them take the write lock before they read.

`Accept` has all the effects of `_accept`, in its order as far as the order matters:
findings are recorded before coverage is computed, the scope before the map, the
work is completed before the treatments. `ts` stands for what the revision does to
other work (`DecisionMaps` has it in full), and its map is either the proposed one
or the current one, in both cases with a node for the work it queues. Evidence
is a sequence of contents; `reviewed` is the map's record of what has been covered.
`_accept` refuses a choice whose expected versions are not those of the context,
and gaps in the coverage that the caller does not accept: both are refusals
without effect. A deferral leaves a note and no receipt. `preview` runs an
acceptance and rolls it back; neither is an action.

Everything else that changes what a context pins is an action of its own:
revisions by anybody, claims and releases, captures, evidence whose sources
change, reviews appended, objectives, records, human input. `append` of
`reviews.py` reads the last revision and inserts the next in a plain `UnitOfWork`; the
unique key on the revision refuses the second of two, so that the effect is one
step. `outsides` counts these steps, to bound them; it is not state of the code.

`Handoffs` keeps the promise of `OptimisticAcceptance` twice. `ContextOffers` takes contexts as
the offers: a context rests on its work item as it shows it (`Shown`: the ground and the slice
of the map), and the first of its results that is accepted uses it up. `ResultOffers` takes results:
a result rests on the records and the evidence that it cites, as they were when it was
submitted, and ends by being accepted or rejected.

### MapAlgorithms

A draft of the instance gets edges and a focus, then one of the three algorithms is asked for and
runs to its end. `AskDependents` and `DependentsRound` are `dependent_work`: one round is one pass of the
loop over all edges, which is taken again while the pass has added something. `AskSlice`, `SliceRound`
and `BranchRound` are the two loops of `task_map`, the second of which follows selected work a
bounded number of times. `AskRules`, `VisitRoot`, `VisitChild`, `VisitReturns` and `Accept` are the search for
cycles in `graph_rules`: `path` is the call stack of `visit`, `complete` the nodes it has left. A node found on
the path ends the search with a refusal, which is a state without a next step. `rounds` counts the
rounds of a loop; it is not state of the code.

### StepRuns

`run` and `work` are the two rows of a request key; `call` is the program counter
of each process. `start` is five kinds of step: the first reads (`Look`), the
insert (`Insert`, where the unique key decides a race), the execution (`Prepare`
without a runner, `Ask` and `Answer` with one), and `_finish` in two (`Read`,
`Write`), because it runs in a plain `UnitOfWork`: the update is refused if either
row changed after it was read. A work item that already has the status is not
written by the ORM and hence not compared; `RowsHold` says so. An error while
the outcome is saved is caught once by `start` and recorded as a failure; the
error of that second attempt reaches the caller ("unsaved"). `Stop` removes a
process at any point. `TouchWork` is everything else that writes the work row.
"readiness" and "research_brief" differ only in their output and are one kind here.
A database that refuses with "locked" is the same as a refused update and is not an
action of its own.

### RequestFiles

`content` is what stands in each file: a sequence of sections with the request number
of the heading, the question, whether it is answered, and the ventures it is matched to.
Which ventures a section is about is an input (the mapping and the matching by name are
not modelled). A section is found at a place: a file and a position in it. A record's id is
the number, or the number with file and occurrence (`Suffixed`). The code walks the sections
in order and gives a number to the first that may have it: nobody has it and this is the
file's first section with it, or the record is its own or linked to its file by hand. `Identity`
says so without the walk: a section may have its number (`MayHaveNumber`) and no section
before it takes it (`IsClaimed`). What the last synchronisation wrote into a record is `sync`.
`Apply` plans and writes in one transaction. `Register` and `ImportAnswer` are what `human_inputs.py` does to the same
records: the second drops the mark of the synchronisation. `settled` remembers that
nothing was done since the last apply; it is not state of the code.

### Directions

The reviews of one workspace with what each says of disposition and next action. `Accept`
is the part of `_accept` that decides them: a result about work keeps both when the
venture is on hold or the next action is the venture's own, which `_venture_level_action`
finds by walking back over the reviews with the same action (`SameAction`, `IsNarrowed`).
`narrowed` is what the venture was last narrowed to, kept beside the reviews so that the
property does not lean on the walk it is about.

### Fusion and OptimisticAcceptance

A proposal rests on `basis`, the state of its sources when it was revised, and is
accepted when that is still the state (`Agrees`). Accepting writes a review into each
source that holds it as continued in the new venture, cancels the work its draft drops,
and makes the venture. `Reverse` asks for three things: the activity since is what it was
at the acceptance or what somebody was last shown (`ActivityKnown`, `Show`: `show` gives the digest to
human and agent alike), and no source has a later review or a later change of its cancelled
work (`NothingLater`). A fused venture is a place that may be a source again. `Delegate` asks for no state, so that a reversal may be delegated before
there is anything to reverse. `moved` and `unseen` record what happened since the revision and since the
activity was last shown; they are kept beside the digests the code compares, so that the properties
say what the comparison is for. `OptimisticAcceptance` is the same promise without any of it;
`IsOptimistic` is `INSTANCE OptimisticAcceptance` with a proposal as an offer and its sources
as the things it rests on, and TLC checks that every step is one of its steps or a stutter.

### ManualIntake

An intake is a work item named by its subject and the revision of the idea; `policy` is
what a promotion decided: take the idea's intake over, cancel it while nobody has started, or leave it (`Promote`).
`HandoffClaim`, `HandoffRelease`, `CloseWork`, `AcceptResult`, `TreatWork` and `SetWorkStatus` are the
general operations on the same rows; the last may make an intake active again that has ended, and `reopened`
remembers that it did (it is not state of the code). Whether the map or a missing answer keeps work
from starting is left open. A venture's own intake also pins the venture's objective and source
(`scope_stale`), and a completion may ask a person a question; neither is modelled.

### Scoring and VentureScoring

A card gets its rubric when it is first imported or used, and keeps it. `ImportOriginal` is the
import of the workbook onto a card of its own; it fails as a whole when a row's total is not
what its scores give or the card has other criteria (`InParity`, `Agrees`). `Ranked` gives
ranks to the comparable assessments (`Comparable`), with ties by idea. `VentureScoring`
extends `Scoring`: a promotion or the bootstrap copies the estimates of the source once,
`Judge` adds a venture's own judgement, `Shown` and `State` are what `show` says of it.
Judgements of a venture are a set in which a sequence number says what came when, as the rows do.
Scores are in hundredths and exact.

### Discovery

Ideas with their revisions, sources, relations, and market actors with the observations
of each revision, one for each actor and role (`Roles`: a competitor, a substitute).
`Carried` is what a revision copies, `ObserveOf` what a correction
replaces and keeps in the audit. Names occur with the three ways the code folds them:
`Folded` (the id), `Lowered` (Python's `lower()`) and `Stored` (the store's `lower()`),
each a function given by the instance. A claim (`record_source`) has a locator and an id made of its
content; nobody is taken to register such a locator by hand.

### Workspaces

`venture` is a venture with its workspace: alias, title, number of reviews, number of
snapshots of each module, and the idea it was promoted from. An alias may have the form of the id of
a venture or of an idea, so `Ids` and `Aliases` overlap in the instance. `Selected` is
`resolve_selector`, without the ids and keys of workspaces, which are generated or equal
an id. The intake of an existing project is the one operation here that is several
transactions: `BeginIntake` looks for the checkpoint, `PromoteProject` or `LookForProject` and
`CreateProject` open the venture, `StoreProject` stores checkpoint and review, and the venture
stays when that is refused. `issue` of the modules is a plain insert and left out.

### AgentBridge and FeedbackOutbox

`run[t]` is the program counter of the bridge at a terminal with what it has read. Each
step is one call of the command line, which may take effect or not when its answer is
lost, or one file; `Stop` ends the process between two of them, and `MaxFaults` bounds all that. The
budget retry of `prepare_with_budget` is `at = "again"`. `FeedbackOutbox` is the `feedback`
command about one report id: `Retain`, `Send`, `File`, with files that were cut off (`Cut`) and
reports edited between two attempts.

### Outreach

One draft, `retained` with each revision and the one its editor had read (`over`), what each
sender has exported and sent (outside the system), and the receipts of outcomes. A report
of sending finishes the work of the draft, whatever its status.

### InputGate as the common abstraction

`HumanInputs!ImplementsGate` is `INSTANCE InputGate` with each gate put together from
the requests linked to a work item: open while any of them lacks a current
answer or another cause is left, met when none does. TLC checks that every step
is a step of `InputGate` or a stutter. `DecisionMaps` uses the same three operations
on its gate (`LinkInput`, `AnswerInput`, `ReopenInput`).

## 4. Runs

At most a handful of runs, each with several scenarios or with parts side by side. In
`Maps`, `Inputs`, `Handoffs` and the first two parts of `Fusion` the scenarios are
restrictions of one specification: each gives room to one kind
of behaviour where all of them together would be too many. In `Portfolio`, `Tools` and `Fusion` the
parts share no state: a behaviour belongs to one part and the others stay as they begin, so that
a run is as good as a run for each part.

| run | instance | states | checks |
|---|---|---|---|
| `Maps` | 2 work items, 1 other record, 4 drafts, 2 actors; 2 revisions, version up to 3, 1 treatment. "review": changing contents and every draft; "race": direct status changes | 188,000 | `TypeOK`, `NoCircularWait`, `ReviewDebtIsKept`, `ChangedContextIsReviewed`, `StartRespectsRecordedReview`, `HumanBlockOutlastsReview` |
| `MapRewrite` | as "review" | | violation: `RewrittenDependencyIsReviewed` |
| `MapTwins` | a draft with two nodes of one work item | | violation: `PrerequisitesNeverCircular` |
| `Inputs` | 2 replies, 2 wordings. "file": 1 request with a file, 2 texts, 1 reviewer; "review": 1 request, 1 text, 2 reviewers, and its review work moved in every way; "shared": 2 requests, one managed by a request file, and 1 work item that waits for both | 404,000 | `TypeOK`, `CurrentAnswerCounts`, `SyncSavesWhatWasShown`, `ImplementsGate` |
| `InputSection` | a request managed by a request file | | violation: `RevisionInvalidatesSatisfaction` |
| `InputRevised` | 1 request, 2 wordings | | violation: `OldAnswerIsNotReviewedAsNew` |
| `StepRuns` | 1 key, 2 processes that make several calls, with a runner or without; work touched twice | 188,000 | `TypeOK`, `RunnerAskedOnce`, `ReplyIsOfTheRequest`, `FirstOutcomeStands`, and `EveryRunEnds` under fairness |
| `Handoffs` | 2 results, 2 agents, a map of 2 parts; 3 revisions, 1 piece of evidence, 2 reviews, 1 change from outside. "one": 1 context, 4 kinds of result; "two": 2 contexts, 2 kinds, revisions of either part; "redrawn": 1 context and 1 result, 4 revisions | 1,807,000 | `TypeOK`, `OneAcceptancePerContext`, `VoidedForGood`, `CompleteAcceptanceCoversAll`, `SupersededNeverAccepted` |
| `Fusion` | "fusion": 2 proposals over 3 workspaces, one of them a venture that the other made; 2 revisions, 1 change by others. "delegated": 1 proposal, acceptance and reversal delegated at any time. "spaces", `Workspaces`: 2 ids, one of which is an alias too, 2 manifests, 2 intakes, 1 review, 1 edit | 700,000 | `TypesOK`, `ContinuedInStandingFusion`, `AcceptedOverSourcesAsRevised`, `ReversedKnowingly`, `ReversalRestores`, `IsOptimistic`, `SelectorsStand` |
| `Portfolio` | `Scoring` (2 ideas, 2 revisions, 2 assessments each, foreign cards, one of the name of the workbook's own), `VentureScoring` (1 venture, 2 judgements, everything about the first idea), `Discovery` (2 ideas, 2 revisions, 2 roles), `ManualIntake` (1 venture, 2 revisions; once through its own operations and those of the handoffs, once with the idea's work moved by hand and by treatments), `Directions` (3 reviews), `RequestFiles` (2 files, 1 number, 4 changes) | 418,000 | `TypesOK`, `OriginalScoredOnce`, `ReviewedScoreStands`, `ObservationsAreKept`, `OneInvestigation`, `HeldDirectionStands`, `ApplySettles` |
| `Tools` | `AgentBridge` (2 terminals of one actor, 3 maps of which one is too large, 2 faults), `FeedbackOutbox` (3 reports, 3 faults), `Outreach` (3 revisions, 2 editors), `MapAlgorithms` (every draft of 3 nodes and up to 3 edges of 3 kinds) | 961,000 | `TypesOK`, `FailedStartIsSettled`, `InterruptedIsRecovered` under fairness, `ReceiptMeansRecorded`, `SentTextIsRetained`, `AlgorithmsAreRight` |
| `ActorTwins` | two spellings of a name whose first letter is not in ASCII | | violation: `OneActorPerName` |

Why the bounds are enough. Two work items are a dependency and its dependent; a
third adds length to a chain, which the least-closed-set definitions do not
look at. In `MapAlgorithms` three nodes and three edges have every chain, fork and cycle that
takes the loops more than one round, and `LoopsAreRight` has all drafts. Two revisions are needed for a debt
that one makes and the next must keep, and for a pause followed by a keep. Versions
are bounded one above the number of writes the interesting behaviours need, and
an action that would pass the bound is not taken. Two actors tell the reviser
from the claimant. Two replies give a current one and an older one, which may be under review or
waiting for one; two wordings an answer that no longer fits its question. In `Handoffs` the four
proposals are: no effect beyond the review; completed work with a finding and
further work; a judgement that cites evidence and redraws the map; a narrowed
objective. Three revisions are the first map and two more: one by the claimant and
one by somebody else, in either order, or an acceptance and one of them. The fourth in "redrawn" lets
the map come back to what it was after somebody else has changed it. One
change from outside is enough because any single one must make a result stale.
In `StepRuns`, the process that loses a race for the key goes on to act
as the operator or to retry while the other executes; keys share nothing but
processes and maps. In `Fusion`, two proposals are needed for a source of both, a result that
becomes a source, and a replacement; two revisions to accept something else than what was
created; one change by others because any single one must count. In `Workspaces` two intakes race for one
venture, in the same way or in different ones, and an alias equal to an id can be set before and after
the id is used. In `RequestFiles` four changes are a registration by hand, an import and an
edit before a second apply, and one after it; one number in two files and twice in a file is what
identities can be confused over. In `Directions` three reviews are a direction, a result that keeps it, and one more
that must look back over it. In `Scoring` two ideas tie or differ, two revisions separate what was
imported from what is current. In `AgentBridge` two faults are a lost answer and a failed release after
it; two sessions of one actor are the worst case the documentation asks agents to avoid.
Actors, contents, texts, keys, contexts and results are symmetric where a run says so; runs with a
liveness property use no symmetry. Deadlock is not checked: bounds stop the models, and the real system
may idle for ever.

### Fairness

Two specifications have any. `StepRuns!FairSpec` has weak fairness of `Proceed(c)` for each process.
A process that has begun `start` runs on its own until it returns, and
`src/ARCHITECTURE.md` makes it the adapter's duty to bound its time ("A synchronous
adapter must provide its own time/resource limits"). Beginning a call, stopping,
recovering a run and touching its work are not fair.

`AgentBridge!Fairness` has weak fairness of `Proceeds(t)`: a bridge that has begun goes on, since
every command it runs has a timeout (`run_command`), and either ends or is stopped. It has
strong fairness of `ResumeOwned(t)`: an owner who again and again finds work claimed
by itself resumes it, as `src/docs/EXTERNAL_AGENTS.md:165` tells it to; it is strong because another
session's release and claim may disable it in between. Faults are bounded. What is promised under
this, `InterruptedIsRecovered`, is that claimed work gets a context, is given back, or has a map
whose context is larger than is allowed. Nothing is assumed of people or agents in
the other modules, so they have no liveness properties; nothing in the code
promises that a person answers.


## 5. What the runs found

Five runs have a counterexample to something a document says. Each is in
`PROJECT.json` under `findings` with the line.

* `MapRewrite`: a revision that rewrites a prerequisite leaves the work that
  depends on it without a review. References are compared before the treatments,
  and pinned anew after them.
* `MapTwins`: prerequisites can be circular when two nodes refer to one work
  item, because the cycle check goes by node and eligibility by work item.
* `InputSection`: rewording a question through a request file does not invalidate
  the dependencies that its earlier answer satisfied.
* `InputRevised`: releasing a review after the question was reworded puts the
  earlier answer up for review again under the new wording.
* `ActorTwins`: two market actors of one name, with different websites, can be
  registered when the name has a capital letter outside ASCII, because the store's
  `lower()` leaves that letter alone and Python's does not.

Observations that contradict no document, kept here because a maintainer may
want to know them:

* Rewording a section while its answer is under review leaves the request
  "reviewing" after that review has finished: the completion is historical and
  moves nothing.
* If the review work of an answer is finished, cancelled or paused by another operation than the review,
  the request stays "ready_for_review" or "reviewing", and the same text cannot be submitted again
  (`human_inputs.py:455`).
* Review work that is reopened by hand (`application.py:560`) can be completed a second time.
  The request then shows the second outcome, and the dependencies that the first satisfied stay
  satisfied whatever the second is.
* A review in progress that is superseded and then released goes back to the
  queue although its reply is no longer current.
* A result that brings a map of its own replaces the map of the moment of its
  acceptance. Revisions that the claimant made since the context, and that do not
  make the result stale because they leave its task alone, disappear from the map.
* `_venture_level_action` keeps the next action of any review whose decision is a
  narrowing, also when that decision was about one work item only.
* The answer of a runner is lost when the work row changes while the outcome is
  saved: the run is recorded as failed. If the second attempt fails as well, the
  run stays "running" with no process behind it until an operator recovers it.
* `reviews.append` reads the highest revision and inserts the next in a plain
  `UnitOfWork`: of two at once, the unique key alone refuses the second.
* A proposal replaced under the request key of an earlier, ended proposal is answered with
  the ended one. The pending one is superseded, and none is pending (`proposals.py:513`).
* `set_work_item_status` makes an intake active again that a promotion superseded. The idea and the venture
  then have an active intake of the same revision; `OneInvestigation` says when it cannot happen.
* A promotion that finds the idea's intake paused ("blocked") or "todo" leaves it as it is and makes one for the
  venture, so that both are active. Its docstring says "Keep one overlapping investigation"
  (`manual_intake.py:226`); the policy it records, "new_intake", says what it did.
* A reversal does not ask who was shown the activity it names: `show` gives the digest to anybody. It
  may be delegated before the proposal is accepted.
* Accepting a result may change the status of an assumption, which is part of its digest, so that other
  references to that assumption become stale.
* A promoted venture without an intake of its own shows that of its idea, in whatever state
  it is in by then (`manual_intake.py:293`).
* `link_actor` has no expected revision, unlike the revision of an idea next to it: it changes
  the revision that is current when it runs.
* A derivation of ideas may run in a circle; only a relation to oneself is refused.
* A report that an outreach message was sent finishes its work item whatever the
  status of that item is (`outreach.py:483`), cancelled included.
* `assess` expects a sequence for each revision of an idea. When a
  caller names no revision and the idea has a new one, the count starts again, and an
  expectation formed over the old revision may hold.
* A card of the caller's own making may take the id of the built-in one before it is
  first used; the import of the workbook is refused from then on.
* Two sessions of one actor share a claim: one may release what the other has just begun
  to prepare a context for. The documentation asks for one name for each session.
* `venture_identity.py` says that ambiguity is an error. `resolve_selector` tries id, alias and
  idea in turn and takes the first that fits: a venture created later under an id takes
  over an alias that had this form. `SelectorsStand` states what does hold.
* Sending an earlier manifest of a project again answers "unchanged", although a later
  checkpoint is current. A venture created by a project intake stays when the
  checkpoint is refused.

## 6. Proofs

`MapGraphProofs`:

* `TaskShowsEveryInfluence`: in a draft whose edges join its nodes, the slice of the
  map shown for a work item contains every node whose change would put it up for
  review. The core of the slice is the least set closed against influence, the
  reviewed work comes from the least set closed along it; the complement of one
  kind of set is a set of the other kind, which is the whole argument.
* `AcyclicNodesNoCircularWait`: with one node for each work item, an acyclic draft
  has no circle of waiting work. A circle of work gives a set of nodes in which
  each depends on another member.

`DecisionMapsProofs` proves `Inv == TypeOK /\ CliKnown /\ CliFresh` inductive
(`InvariantHolds`) and from it

* `TypeCorrect`, `Spec => []TypeOK`;
* `NeverCircular`, `Spec => []NoCircularWait`, with the second theorem above: `TypeOK`
  contains `GraphRules(head.draft)`, which every operation must preserve,
  `create_work` included, which extends a draft by code (`WithWorkFacts`);
* `ReviewBeforeStart`, `Spec => StartRespectsRecordedReview`;
* `RevisionIsFresh`, `Spec => NewRevisionIsFresh`;
* `DebtIsKept`, `Spec => ReviewDebtIsKept`;
* `HumanBlockStands`, `Spec => HumanBlockOutlastsReview`: from `TypeOK`, action by action; a revision
  leaves work blocked on a person alone unless it cancels it;
* `ChangeIsReviewed`, `Spec => ChangedContextIsReviewed`: what a revision records anew and did not rewrite
  itself is stale before it, so that `StaleWorkIsAffected` applies.

`StartRespectsRecordedReview` is not inductive: it says nothing of a direct
status change that has passed its check and not yet written. `CliKnown` says that
a pending change refers to a version the row has had; `CliFresh`, that if the
row still has that version and the change would start it, no review is recorded
for it. `CliFresh` survives a revision because work that the revision puts under review either was under
review before, or is affected and gets a new version. This needs
`StaleWorkIsAffected`: whatever the stale references of the old revision put under
review is affected by every new revision.

`HandoffsProofs` proves, for any number of contexts, results, work items and agents,
`TypeCorrect`, `AcceptedOnce` (`OneAcceptancePerContext`), `ReceiptsStand`
(`ReceiptStands`), `ReplacedStayOut` (`SupersededNeverAccepted`), `AcceptanceCoversAll`
(`CompleteAcceptanceCoversAll`) and `ForeignRevisionVoidsForGood` (`VoidedForGood`). Two results of
one context may leave the work open, the map as it was and every record
untouched; what keeps the second out is the review. A context pins its revision,
an acceptance needs the pinned one to be current (`AcceptablePins`) and appends the
next. Hence the invariant `Ordered`: no context pins a later review than the current
one, every accepted result pins an earlier one, and for every accepted result
there is a set of results, closed under what they replace, that contains what it
replaces and whose members all pin earlier reviews (`Retires`). The witness for a
newly accepted result is everything that has been submitted by then; later results
need not be looked at, because a result can replace only results that exist. The
other half of the invariant is `TypeOK`, split into the world and the artifacts
(`TypeHalves`). Its hard part is `Accept`, which builds a map, rows, evidence and the
coverage from what a proposal says (`AcceptWorld`). That a complete acceptance covers all
the evidence needs one invariant more, `Coverage`: what a complete context pins is in it or was
covered as pinned for as long as the review it pins is current, because only an acceptance
writes the coverage, and it appends a review. `VoidedForGood` says that a context which a revision of
somebody else has voided stays so, whatever is revised afterwards and also when the task comes to
look as it was: the revisions since only grow, and no step accepts a result of it.

`ContextsAreOptimistic` and `ResultsAreOptimistic` are the two refinements of `OptimisticAcceptance`
(`AcceptsWhatWasShown`, `AcceptsWhatWasCited`): each step of `Handoffs` makes an offer, accepts one, withdraws one or is
a change of the world that touches no offer. For contexts, an acceptance has to find the offer
still open, which no guard of `resolve` asks: an earlier acceptance from the same
context would have appended a review, and the context pins its number (`ContextAccepted`, from
`Ordered`). That the task looks as it was shown is `Compatible`, carried over from the pinned revision to
the current one. For results the invariant `Cited` is added: a result pins exactly the evidence that its proposal
cites, which exists, so that it rests on places of the log that can be looked at when it is accepted.

`HumanInputsProofs` proves, for any number of requests, replies and work items, `TypeCorrect`,
`OnlyTheCurrentAnswerCounts` (`CurrentAnswerCounts`), `SyncSavesThePreview` (`SyncSavesWhatWasShown`) and
`TheGateIsKept`: every step of the service is a step of `InputGate` or a stutter. The invariant says of
each request, as a predicate of its rows (`Row`), that they fit each other: a satisfied
dependency is by the last reply, which is among those found sufficient; a reviewed request has the status
that its last verdict gives, and that verdict is on the last reply, to its current wording; a waiting one has
no current answer. The last part is more than `CurrentAnswerCounts` says, and without it a release or a revision
could move a status whose reply nobody spoke of. Nothing is said of the status of review work, which the general
operations move at will. Then
`PreviewFresh`: a line of a preview whose request has not moved since was compared with the reply
that is current now. Every operation is shown to give a row that fits, and the gate of the
work is put together from the rows once. `RegisteredRevisionsInvalidate` draws the line around what
`InputSection` finds: of a request that no request file manages, a revised question does
invalidate what was answered by the earlier one.

`OriginsProofs` is about proposals over any number of workspaces and drafts. Its
invariant says of a proposal that it rests on its sources as they were at some time (`Rests`: the counts
in a basis are not above those of the source, and its review is the one of that number), that
a source known to have moved looks different from its basis (`Moves`), that an applied proposal has made its
venture and stands in the log of each source right after the review it rests on (`Stands`),
that what somebody was shown is not later than what is there, and earlier if something is
unseen (`Watched`), and that a hold which an applied proposal covers up belongs to another
applied one (`Covers`). The argument throughout is that counts of a workspace row only
grow (`Grown`), so that equal digests mean that nothing happened in between. From it
`SourcesContinueInStandingFusions` (`ContinuedInStandingFusion`), `AcceptanceIsOverSourcesAsRevised`,
`ReversalIsKnowing`, `ReversingRestores`, and `ProposalsAreOptimistic`: the initial state and each action
of `Fusion` map to those of `OptimisticAcceptance`, or to a stutter. `Covers` is what a reversal needs for
the first of these: the review it restores may itself be a hold, of a fusion that must
still stand. For `Workspaces`, `NamesStand` (`SelectorsStand`)
holds because no two ventures share an alias and rows of ventures change in three ways only
(`RowsMove`); `TypesCorrect` adds that a checkpoint came with a review that no other came with
and that a manifest has one checkpoint.

`ToolsProofs` proves what the bridge, the outbox and the drafts promise whatever calls are lost and
wherever a process is stopped, for any number of terminals, reports, editors and faults:
`StartSettles` (`FailedStartIsSettled`), `ReceiptsAreOfRecords`
(`ReceiptMeansRecorded`), `SentCanBeReadBack` (`SentTextIsRetained`) and `TypesCorrect`. For the
bridge: a remembered claim is of a version the row has had, what is about to be saved is a context of the
store, nothing is remembered as claimed before it is. Then a failed start without a fault
cannot leave the row held at the version it claimed, since a release that took
effect raised the version. For the outbox: the report under way is the one that is
retained, only that one is recorded, and it is filed after that. For the drafts: a copy, a text that
was sent and an outcome speak of a retained revision, and each revision was written over the one before
it, which an editor has read.

`LoopsAreRight` (`AlgorithmsAreRight`) says of every draft over finitely many nodes that the algorithms of the map,
when they end, have computed what `MapGraph` defines, and that the search refuses exactly the drafts with a
cycle. For a loop the invariant (`MapsInv`) is that what has been found lies between what it started from and the
least closed set; a round that adds nothing has found a closed set, so that the two are equal. A
round that goes on has added a node, and hence `dependent_work` takes no more rounds than there are
nodes (`rounds`). For the search, the path is a chain of distinct nodes, each a prerequisite of the one
before it, and the nodes that are complete are closed under prerequisites and without a cycle:
a node that is found on the path closes a circle, and one that returns is added to a set that has none.

`PortfolioProofs` has a section for each component, for any number of ideas, ventures, rubrics, files
and sections.

* `ReviewedOnce` (`OneInvestigation`): a completed intake is the last one of its subject; a
  venture linked to the idea's intake never has one of its own; and the idea's intake that a promotion
  superseded is not active again unless its status was set by hand, which the code does not
  prevent (section 5).
* `DirectionStands` (`HeldDirectionStands`): walking back over the reviews that say the same finds
  the narrowing that gave the action (`NarrowingIsFound`), whatever was appended since.
* `WorkbookScoresOnce` (`OriginalScoredOnce`): an original assessment is of an imported row.
* `JudgingTypeCorrect`: numbers of assessments are bounded by their count (`NumberedInTurn`), a rank by the
  number of ideas, because ranking is injective. That a total is a number at all
  needs a sum over the criteria of a rubric; since induction theorems with an operator parameter cannot be used,
  `SumIsInteger` takes a smallest set without a sum (`LeastNatural`).
* `ReviewedStands` (`ReviewedScoreStands`): the judgements of a venture only grow, a
  new one has the next sequence number of its card, and one of its own is shown before any copy (`ShownIsOwn`).
  What a card shows changes only with a later judgement on that very card, which is then the one
  shown (`NewJudgementShows`).
* `ObservationsStand` (`ObservationsAreKept`): a revision carries on what was observed of its predecessor.
* `OneActorWhereCasesAgree`: where the store folds names as Python does, one name has one actor. It draws
  the line around what `ActorTwins` finds: only names with a capital that the store leaves as it is.
* `AppliesSettle` (`ApplySettles`). Three facts make it: sections are known by file,
  number and occurrence (`SectionsApart`), no two sections of a plan get one id
  (`IdentitiesApart`), and an apply leaves everybody the id it has given (`IdentityStands`). The last is the
  hard one: an apply writes the very records that the next plan asks for
  owners. If a section takes a number that nobody had, it alone may have it afterwards; if it took its own
  or a linked one, who may have it is as before. `ApplySettles` is not inductive: a
  new record could be kept in step with a section that has another one already. `IdsInTurn` excludes
  it: the first section of a file with a number gets an id of its own only when the
  number is taken.
* `DiscoveryTypeCorrect`: one observation of an actor in a role in each revision, also after
  corrections, and only of actors that are registered.
* `IntakeTypeCorrect`, `DirectionTypeCorrect`, `RequestTypeCorrect`, and `TypesCorrect` over all of them.
  The theorems about one component hold whatever the others do,
  as they share no variable.

`StepRunsProofs` proves all the safety properties of step runs, for any number of
keys, subjects and processes: `TypeCorrect`, `AskedOnce`, `AnsweredAsAsked`,
`OutcomeStands`, `StaysVisible` (they are of `Spec`, which `FairSpec` implies). The
invariant adds to `RunnerAskedOnce` that a run is executed by one process only
(`OneExecutor`), that a run about to be executed has not been asked about, and
that a call past its insert is bound to an existing run of the step it asked
for (`Fine`). `OneExecutor` holds because a call is bound to an existing run and
an insert succeeds only when there is none. `StaysVisible` rests on
`NobodyComesToAttend`: no step makes a process attend a run that it did not create.

`NewRevisionIsFresh`, `ReceiptStands`, `InterruptedStaysVisible`, the two refinements of `Handoffs`,
`RegisteredRevisionsInvalidate` and `OneActorWhereCasesAgree` are proved and not checked by a run.

The assumptions are those the modules state on their constants: bounds are
natural numbers (`BoundsAreNat`, `TouchesAreNat`, `InputBoundsAreNat`, `BridgeBounds`, `ScoringBounds`,
`JudgingBounds`), names are distinct (`RefsDistinct`, `NamesDistinct`, `RunNames`,
`InputNamesDistinct`, `NamesApart`, `SpaceNames`, `FeedbackNames`, `IntakeNames`, `DirectionNames`,
`DiscoveryNames`), statuses are among those the code uses (`StatusChoice`,
`TouchStatuses`), a request has a file or a section (`FileOrSection`), drafts refer to work items, records and
ventures only (`DraftsReferToRecords`, `DraftsName`), a draft has finitely many nodes (`FiniteBody`), rubrics and scores are numbers and there is a
default rubric (`ScoringRubrics`, `ScoresAreNumbers`), sections have the fields they are read by
and files differ in name (`RequestNames`), and for handoffs `HandoffBounds`, `HandoffParts`,
`HandoffRecords`, `HandoffNames`, `HandoffInputs` and `HandoffChanges`. TLC evaluates them in every run
of their module.

Every safety property that a passing run checks is proved. Only model-checked are
`EveryRunEnds` and `InterruptedIsRecovered`, since liveness under fairness is beyond the provers
here. Of the loops of the map, `dependent_work` is bounded by `AlgorithmsAreRight` and `task_map` bounds itself; that
the search of `graph_rules` ends is not stated.
The assumptions that ideas, ventures and criteria are finitely many, and the bounds on
revisions, assessments and faults, are no restriction on what the code can do: any finite number will do.

## 7. Abstractions

* Content is one value: any change to a field that a digest covers is a change of
  the value, any other change leaves it. Digests do not collide.
* Titles, rationales, audit entries and receipts are left out. A refused
  call is a step that does not happen, unless it changes something or its
  refusal is what a property is about (`StepRuns`, `AgentBridge`).
* Blocked reasons other than "changed_context" and "human_input" behave like the
  latter in the operations modelled here, and are not told apart from it.
* A request is either managed by a request file or answered in a file of its own,
  not both (`FileOrSection`).
* In `DecisionMaps`, `Handoffs` and `Directions`, one workspace and one map. Operations
  check that everything belongs to the workspace; rows of other workspaces are not there.
* The records that a context includes are the closure of explicit links. In `Handoffs`
  the closure is left open: a fixed set `TaskRecords`, and any evidence there is.
  What the closure contains matters for completeness of the coverage only, and
  there every choice is considered.
* Existing work never disappears: no operation deletes a row.
* Each module stands alone where components meet: what the others do to its rows is an
  action of its own there (`TouchWork` in `StepRuns`, the changes from outside in
  `Handoffs`, activity of others in `Fusion`, the general operations on work in `ManualIntake` and `HumanInputs`: claims,
  releases, closures, accepted results, treatments, statuses set by hand), with a bound where they could go on for ever.
* `MapAlgorithms` has the loops without the views they are part of.

## 8. Not modelled

* `storage.py`: an exclusive create, a copy and a check of the copy. What the copy
  contains is decided by SQLite.
* `cli.py`, `web.py`, `views.py`, `workspace_console.py` and the other views, `history.py` and
  the listings of records: they read, render and pass on single calls. Saved views are
  plain rows.
* Bootstrap and demo data: one-time imports of recorded data. The bootstrap of venture
  assessments is in `VentureScoring`.
* The running of migrations. The tables and their unique keys behind the variables are
  mapped; agents, friction and approvals are tables that nothing writes.
* In the modelled parts: sensitivity, comparison and presentation of scores (they
  read); what a venture's own intake pins besides the idea's revision (`scope_stale`), and the
  human question its completion may ask; the note a deferral leaves; `issue` of the
  workspace modules, a plain insert; the matching of a request's section to ventures;
  field lengths and formats of contracts.
