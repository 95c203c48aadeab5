------------------------------- MODULE Fusion -------------------------------
(***************************************************************************)
(* Fusion proposals (proposals.py) over the review log (reviews.py).       *)
(*                                                                         *)
(* A proposal says how several investigations would be continued as one    *)
(* venture, and rests on the state of its sources when it was revised.  A  *)
(* human, or an agent with an exact delegation, later accepts it: one      *)
(* transaction creates the venture, cancels work that is treated so, and   *)
(* puts the sources on hold as continued there.  Accepting can be reversed *)
(* while no source has a later review.                                     *)
(*                                                                         *)
(* A place is a workspace with the entity in it: a source, or a venture    *)
(* that a fusion made and that may be a source again.  Each has one work   *)
(* item.  The idea made together with a venture lives in a workspace of    *)
(* its own that is treated the same way; it is kept as one with the        *)
(* venture's, only its reserved number is told apart.  A proposal's        *)
(* identity is derived from its request key.  Every operation takes the    *)
(* write lock first, hence one step; one that is refused, or returns what  *)
(* an equal key stored earlier, changes nothing.  create tries again once  *)
(* after a conflict, which is a later Create here.                         *)
(***************************************************************************)
EXTENDS Naturals, Sequences, FiniteSets

CONSTANTS
  Keys,       \* request keys, and so proposals
  Bases,      \* workspaces that are there from the beginning
  Unreviewed, \* those of them without a review
  Busy,       \* those of them whose work is claimed
  Ventures,   \* identities proposals reserve for the venture they make
  Drafts,     \* what callers propose: [sources, drops, scope, venture]
  Delegable,  \* the actions a human may delegate
  Nothing,    \* no proposal, venture or review
  MaxRevisions, MaxIdeas, MaxTouches \* bounds: revisions of a proposal, ideas, what others do

ASSUME DraftsName ==
  \A d \in Drafts : /\ d.venture \in Ventures
                    /\ d.sources \subseteq (Bases \cup Ventures) \ {d.venture}
                    /\ d.drops \subseteq d.sources

VARIABLES
  place,    \* workspace -> what a source snapshot, or an activity digest, tells apart
  ideas,    \* the highest number an idea has
  prop,     \* key -> the proposal
  receipt,  \* key -> what was asked with it and which proposal answered
  seen,     \* applied proposal -> the activity somebody was last shown
  deleg,    \* what the human has delegated: proposal, revision and action
  moved,    \* proposal -> the sources that changed since its revision (history)
  unseen,   \* proposal -> whether something happened since that nobody was shown (history)
  touches   \* how often others have done something

vars  == <<place, ideas, prop, receipt, seen, deleg, moved, unseen, touches>>
desk  == <<receipt, seen, deleg>>

Places  == Bases \cup Ventures
Actions == {"accept", "reject", "reverse"}

(* WorkspaceReview: what it says of direction and next action *)
Own        == "own"                 \* some action of the workspace's own
Review     == [disp : {"pursue", "hold"}, next : {Own, "reopened", "treated"} \cup Ventures]
Pursue(n)  == [disp |-> "pursue", next |-> n]
Hold(n)    == [disp |-> "hold", next |-> n]

Absent == [born |-> Nothing, defn |-> 0, answer |-> 0, log |-> <<>>,
           work |-> [status |-> "absent", version |-> 0]]

\* One that is made, with its work item.
Begun(by, log, status, version) ==
  [born |-> by, defn |-> 0, answer |-> 0, log |-> log,
   work |-> [status |-> status, version |-> version]]

Exists(w) == place[w].born # Nothing

\* The latest review of a log, if there is one.
Latest(log) == IF log = <<>> THEN Nothing ELSE log[Len(log)]

(* _source_state: what a proposal rests on *)
Source(w) == [defn |-> place[w].defn, answer |-> place[w].answer,
              revision |-> Len(place[w].log), review |-> Latest(place[w].log),
              work |-> place[w].work]
SourceState(d) == [w \in d.sources |-> Source(w)]

\* Work that is claimed or finished can only be retained.
Treatable(d) == /\ \A w \in d.sources : Exists(w)
                /\ \A w \in d.drops : place[w].work.status = "ready"

\* Fault: the digest leaves out the answers to requests carried over.
ActivityWithoutAnswers(p) ==
  LET d == prop[p].draft
  IN  [result  |-> place[d.venture],
       reviews |-> [w \in d.sources |-> Len(place[w].log)],
       work    |-> [w \in d.sources |-> place[w].work.version]]

(* _activity_context: what may have happened to the result, or to what it carried over *)
Activity(p) ==
  LET d == prop[p].draft
  IN  [result  |-> place[d.venture],
       reviews |-> [w \in d.sources |-> Len(place[w].log)],
       work    |-> [w \in d.sources |-> place[w].work.version],
       answers |-> [w \in d.sources |-> place[w].answer]]

NoProposal == [state |-> "absent", version |-> 0, revision |-> 0, draft |-> Nothing,
               basis |-> Nothing, idea |-> 0, initial |-> Nothing, by |-> Nothing]

\* Fault: a pending proposal is found only while it says what it was created with.
PendingUnrevised(sources) ==
  {p \in Keys : prop[p].state = "proposed" /\ prop[p].draft.sources = sources
                  /\ prop[p].revision = 1}

Pending(sources) ==
  {p \in Keys : prop[p].state = "proposed" /\ prop[p].draft.sources = sources}

(* _semantic: equal but for key, actor and the reserved venture *)
SameMeaning(d, e) == d.drops = e.drops /\ d.scope = e.scope

\* ReviewService._append, by a caller who knows the current revision.
Reviewed(w, review) == [place[w] EXCEPT !.log = Append(@, review)]

Worked(work, status) == [status |-> status, version |-> work.version + 1]

Init ==
  /\ place = [w \in Places |->
                IF w \in Bases
                THEN Begun("user", IF w \in Unreviewed THEN <<>> ELSE <<Pursue(Own)>>,
                           IF w \in Busy THEN "in_progress" ELSE "ready", 0)
                ELSE Absent]
  /\ ideas = 0
  /\ prop = [p \in Keys |-> NoProposal]
  /\ receipt = [k \in Keys |-> Nothing]
  /\ seen = [p \in Keys |-> Nothing]
  /\ deleg = {}
  /\ moved = [p \in Keys |-> {}]
  /\ unseen = [p \in Keys |-> FALSE]
  /\ touches = 0

-----------------------------------------------------------------------------
(* What proposals notice of a change: the ones about to be decided, their  *)
(* sources; the applied ones, their result and what it carried over.       *)

Uses(p, w) == prop[p].state # "absent" /\ w \in prop[p].draft.sources
Made(p, w) == prop[p].state = "applied" /\ prop[p].draft.venture = w

Noticed(ws) ==
  /\ moved' = [p \in Keys |-> moved[p] \cup {w \in ws : Uses(p, w)}]
  /\ unseen' = [p \in Keys |-> unseen[p] \/ (\E w \in ws : Uses(p, w) \/ Made(p, w))]

(* _create, with what was superseded already left out of `open` *)
Answer(k, d, open) ==
  IF receipt[k] # Nothing THEN receipt[k].prop
  ELSE IF open # {} THEN CHOOSE p \in open : TRUE
  ELSE k

Accepts(k, d, open) ==
  IF receipt[k] # Nothing THEN receipt[k].draft = d
  ELSE /\ Treatable(d)
       /\ IF open # {} THEN \A p \in open : SameMeaning(prop[p].draft, d)
                       ELSE ~Exists(d.venture)

Proposal(d) == [state |-> "proposed", version |-> 1, revision |-> 1, draft |-> d,
                basis |-> SourceState(d), idea |-> ideas + 1, initial |-> Nothing,
                by |-> Nothing]

Commit(k, d, open, props) ==
  /\ prop' = IF Answer(k, d, open) = k /\ receipt[k] = Nothing
             THEN [props EXCEPT ![k] = Proposal(d)] ELSE props
  /\ receipt' = IF receipt[k] = Nothing
                THEN [receipt EXCEPT ![k] = [draft |-> d, prop |-> Answer(k, d, open)]]
                ELSE receipt
  /\ UNCHANGED <<place, ideas, seen, deleg, moved, unseen, touches>>

\* create: an equal request is answered by the proposal already there.
Create(k, d) ==
  /\ receipt[k] = Nothing
  /\ Accepts(k, d, Pending(d.sources))
  /\ Commit(k, d, Pending(d.sources), prop)

\* supersede: the pending proposal ends, and a full replacement over the same sources is created.
Supersede(p, k, d) ==
  /\ prop[p].state = "proposed"
  /\ d.sources = prop[p].draft.sources
  /\ Accepts(k, d, Pending(d.sources) \ {p})
  /\ Answer(k, d, Pending(d.sources) \ {p}) # p
  /\ Commit(k, d, Pending(d.sources) \ {p},
           [prop EXCEPT ![p].state = "superseded", ![p].version = @ + 1])

\* revise: new content over the same sources, refreshed.
Revise(p, d) ==
  /\ prop[p].state = "proposed"
  /\ prop[p].revision < MaxRevisions
  /\ d.sources = prop[p].draft.sources
  /\ d.venture = prop[p].draft.venture
  /\ Treatable(d)
  /\ prop' = [prop EXCEPT ![p].version = @ + 1, ![p].revision = @ + 1, ![p].draft = d,
                          ![p].basis = SourceState(d), ![p].idea = ideas + 1]
  /\ moved' = [moved EXCEPT ![p] = {}]
  /\ UNCHANGED <<place, ideas, receipt, seen, deleg, unseen, touches>>

\* show: whoever asks, human or agent, reads what happened since the proposal was
\* applied, with the digest a reversal has to name.
Show(p) ==
  /\ prop[p].state = "applied"
  /\ seen' = [seen EXCEPT ![p] = Activity(p)]
  /\ unseen' = [unseen EXCEPT ![p] = FALSE]
  /\ UNCHANGED <<place, ideas, prop, receipt, deleg, moved, touches>>

\* delegate: of one action on the exact current revision, whatever the state: a reversal
\* may be delegated before there is anything to reverse.
Delegate(p, action) ==
  /\ prop[p].state # "absent"
  /\ deleg' = deleg \cup {[prop |-> p, revision |-> prop[p].revision, action |-> action]}
  /\ UNCHANGED <<place, ideas, prop, receipt, seen, moved, unseen, touches>>

-----------------------------------------------------------------------------
(* resolve: by the human, or by an agent under a delegation.  A call that  *)
(* names another version or revision than the current one is refused.      *)

Authority(p, action, kind) ==
  kind = "agent" => [prop |-> p, revision |-> prop[p].revision, action |-> action] \in deleg

Resolved(p, state, kind) ==
  [prop[p] EXCEPT !.state = state, !.version = @ + 1, !.by = kind]

\* Faults: only the reviews, or only the work, of the sources are compared.
AgreesOnReviews(p) == \A w \in prop[p].draft.sources :
                        Len(place[w].log) = prop[p].basis[w].revision
AgreesOnWork(p)    == \A w \in prop[p].draft.sources : place[w].work = prop[p].basis[w].work

(* _apply *)
Agrees(p)   == SourceState(prop[p].draft) = prop[p].basis
Free(p)     == prop[p].idea > ideas /\ ~Exists(prop[p].draft.venture)

Continued(w, d) ==
  [Reviewed(w, Hold(d.venture)) EXCEPT
     !.work = IF w \in d.drops THEN Worked(@, "cancelled") ELSE @]

Applied(p) ==
  LET d == prop[p].draft
  IN  [w \in Places |->
         IF w \in d.sources THEN Continued(w, d)
         ELSE IF w = d.venture
              THEN Begun(p, <<Pursue(Own)>>, "ready", 1)
              ELSE place[w]]

\* What the result holds right after, for a later reversal to compare with.
InitialActivity(p) ==
  LET d == prop[p].draft
  IN  [result  |-> Applied(p)[d.venture],
       reviews |-> [w \in d.sources |-> Len(Applied(p)[w].log)],
       work    |-> [w \in d.sources |-> Applied(p)[w].work.version],
       answers |-> [w \in d.sources |-> place[w].answer]]

Apply(p, kind) ==
  /\ prop[p].state = "proposed"
  /\ Authority(p, "accept", kind)
  /\ Agrees(p) /\ Free(p)
  /\ place' = Applied(p)
  /\ ideas' = prop[p].idea
  /\ prop' = [prop EXCEPT ![p] = [Resolved(p, "applied", kind) EXCEPT
                                    !.initial = InitialActivity(p)]]
  /\ moved' = [q \in Keys |-> IF q = p THEN moved[p]
                              ELSE moved[q] \cup {w \in prop[p].draft.sources : Uses(q, w)}]
  /\ unseen' = [q \in Keys |-> IF q = p THEN FALSE
       ELSE unseen[q] \/ (\E w \in prop[p].draft.sources : Uses(q, w) \/ Made(q, w))]
  /\ UNCHANGED <<receipt, seen, deleg, touches>>

Reject(p, kind) ==
  /\ prop[p].state = "proposed"
  /\ Authority(p, "reject", kind)
  /\ prop' = [prop EXCEPT ![p] = Resolved(p, "rejected", kind)]
  /\ UNCHANGED <<place, ideas, receipt, seen, deleg, moved, unseen, touches>>

(* _reverse *)
ActivityKnown(p) ==
  Activity(p) = prop[p].initial \/ Activity(p) = seen[p]

\* Faults: a later review does not count; the old review is not replayed.
WorkUnchanged(p) ==
  \A w \in prop[p].draft.drops : place[w].work.version = prop[p].basis[w].work.version + 1
Reopened(w, old, drops) ==
  [Reviewed(w, Pursue("reopened")) EXCEPT
     !.work = IF w \in drops THEN Worked(@, old.work.status) ELSE @]

NothingLater(p) ==
  \A w \in prop[p].draft.sources :
    /\ Len(place[w].log) = prop[p].basis[w].revision + 1
    /\ w \in prop[p].draft.drops =>
         place[w].work.version = prop[p].basis[w].work.version + 1

Restored(w, old, drops) ==
  [Reviewed(w, IF old.review = Nothing THEN Pursue("reopened") ELSE old.review) EXCEPT
     !.work = IF w \in drops THEN Worked(@, old.work.status) ELSE @]

Held(v) ==
  [Reviewed(v, Hold("treated")) EXCEPT
     !.work = IF @.status = "ready" THEN Worked(@, "cancelled") ELSE @]

Reversed(p) ==
  LET d == prop[p].draft
  IN  [w \in Places |-> IF w \in d.sources THEN Restored(w, prop[p].basis[w], d.drops)
                        ELSE IF w = d.venture THEN Held(w) ELSE place[w]]

Reverse(p, kind) ==
  /\ prop[p].state = "applied"
  /\ Authority(p, "reverse", kind)
  /\ ActivityKnown(p) /\ NothingLater(p)
  /\ place' = Reversed(p)
  /\ prop' = [prop EXCEPT ![p] = Resolved(p, "reversed", kind)]
  /\ LET ws == prop[p].draft.sources \cup {prop[p].draft.venture}
     IN  Noticed(ws)
  /\ UNCHANGED <<ideas, receipt, seen, deleg, touches>>

-----------------------------------------------------------------------------
(* What others do to the same workspaces meanwhile *)

Touch(w, new) ==
  /\ touches < MaxTouches
  /\ Exists(w)
  /\ place' = [place EXCEPT ![w] = new]
  /\ touches' = touches + 1
  /\ UNCHANGED <<ideas, prop, receipt, seen, deleg>>

\* The entity, its workspace or its idea is edited.  Results carry no source definitions over.
Redefine(w) ==
  /\ Touch(w, [place[w] EXCEPT !.defn = @ + 1])
  /\ moved' = [p \in Keys |-> moved[p] \cup {x \in {w} : Uses(p, x)}]
  /\ unseen' = [p \in Keys |-> unseen[p] \/ Made(p, w)]

\* A request about the workspace is answered, reviewed or reopened.
AnswerRequest(w) == Touch(w, [place[w] EXCEPT !.answer = @ + 1]) /\ Noticed({w})

\* Somebody appends a review (ReviewService.append, an accepted result).
Decide(w, review) == Touch(w, Reviewed(w, review)) /\ Noticed({w})

\* The work item is claimed, or given back.
Claim(w) ==
  /\ place[w].work.status = "ready"
  /\ Touch(w, [place[w] EXCEPT !.work = Worked(@, "in_progress")])
  /\ Noticed({w})
Release(w) ==
  /\ place[w].work.status = "in_progress"
  /\ Touch(w, [place[w] EXCEPT !.work = Worked(@, "ready")])
  /\ Noticed({w})

\* An idea is captured; a venture is promoted under an identity of its own.
Capture ==
  /\ touches < MaxTouches /\ ideas < MaxIdeas
  /\ ideas' = ideas + 1
  /\ touches' = touches + 1
  /\ UNCHANGED <<place, prop, receipt, seen, deleg, moved, unseen>>
Promote(v) ==
  /\ touches < MaxTouches
  /\ ~Exists(v)
  /\ place' = [place EXCEPT ![v] = Begun("user", <<>>, "ready", 0)]
  /\ touches' = touches + 1
  /\ UNCHANGED <<ideas, prop, receipt, seen, deleg, moved, unseen>>

Others ==
  \/ \E w \in Places : \/ Redefine(w) \/ AnswerRequest(w) \/ Claim(w) \/ Release(w)
                       \/ Decide(w, Hold(Own))
  \/ Capture
  \/ \E v \in Ventures : Promote(v)

Next ==
  \/ \E k \in Keys, d \in Drafts : \/ Create(k, d) \/ Revise(k, d)
                                   \/ \E p \in Keys : Supersede(p, k, d)
  \/ \E p \in Keys : Show(p) \/ \E a \in Delegable : Delegate(p, a)
  \/ \E p \in Keys, kind \in {"user", "agent"} :
       Apply(p, kind) \/ Reject(p, kind) \/ Reverse(p, kind)
  \/ Others

Spec == Init /\ [][Next]_vars

-----------------------------------------------------------------------------
States == {"absent", "proposed", "superseded", "rejected", "applied", "reversed"}
Status == {"absent", "ready", "in_progress", "cancelled"}

\* The rows: a workspace with its entity, reviews, requests and work; what a source and an
\* activity look like; a proposal; the stored answer to a request key; what a human delegated.
WorkRow     == [status : Status, version : Nat]
Workspace   == [born : {"user", Nothing} \cup Keys, defn : Nat, answer : Nat,
                log : Seq(Review), work : WorkRow]
SourceRow   == [defn : Nat, answer : Nat, revision : Nat, review : Review \cup {Nothing},
                work : WorkRow]
Activities(d) == [result : Workspace, reviews : [d.sources -> Nat],
                  work : [d.sources -> Nat], answers : [d.sources -> Nat]]
Proposals(d) ==
  [state : States \ {"absent"}, version : Nat, revision : Nat, draft : {d},
   basis : [d.sources -> SourceRow], idea : Nat, initial : {Nothing} \cup Activities(d),
   by : {"user", "agent", Nothing}]
Receipt    == [draft : Drafts, prop : Keys]
Delegation == [prop : Keys, revision : Nat, action : Actions]

\* Names and rows differ from each other and from nothing.
ASSUME NamesApart ==
  /\ Nothing # "user" /\ {"user", Nothing} \cap Keys = {}
  /\ {Own, "reopened", "treated", Nothing} \cap Ventures = {}
  /\ Nothing \notin Review /\ Nothing \notin Receipt
  /\ \A d \in Drafts : Nothing \notin Activities(d)
  /\ Delegable \subseteq Actions

\* Rows, reviews, receipts and what was read are what the schema allows, and at
\* most one proposal over a set of sources waits for a decision: create returns
\* the pending one or refuses, supersede ends the one it replaces.
TypeOK ==
  /\ place \in [Places -> Workspace]
  /\ ideas \in Nat /\ touches \in Nat
  /\ DOMAIN prop = Keys
  /\ \A p \in Keys : prop[p] = NoProposal \/ \E d \in Drafts : prop[p] \in Proposals(d)
  /\ receipt \in [Keys -> {Nothing} \cup Receipt]
  /\ DOMAIN seen = Keys
  /\ \A p \in Keys :
       seen[p] # Nothing => prop[p].draft \in Drafts /\ seen[p] \in Activities(prop[p].draft)
  /\ deleg \subseteq Delegation
  /\ moved \in [Keys -> SUBSET Places]
  /\ unseen \in [Keys -> BOOLEAN]
  /\ \A p, q \in Keys :
       prop[p].state = "proposed" /\ prop[q].state = "proposed"
         /\ prop[p].draft.sources = prop[q].draft.sources => p = q

(* A source that is on hold as continued in a venture is continued there:   *)
(* the fusion that made the venture stands.  Neither a reversal, in any     *)
(* order with other fusions of the same source, nor a venture of the same   *)
(* identity made by somebody else leaves a source pointing nowhere.         *)
ContinuedInStandingFusion ==
  \A w \in Places : \A v \in Ventures :
    place[w].log # <<>> /\ Latest(place[w].log).next = v =>
      \E p \in Keys : prop[p].state = "applied" /\ place[v].born = p /\ Uses(p, w)

(* A fusion is accepted over the sources as they were when the accepted     *)
(* revision was written: what anybody did to one of them since, be it a     *)
(* definition, a review, a claim or an answer, makes the acceptance fail.   *)
AcceptedOverSourcesAsRevised ==
  [][\A p \in Keys : prop[p].state = "proposed" /\ prop'[p].state = "applied" =>
       moved[p] = {}]_vars

(* A fusion is reversed knowingly: nothing happened to the result, or to    *)
(* the reviews, work and answers of the sources, that was not shown to      *)
(* somebody since.  That it was the human who reverses, or delegates the    *)
(* reversal, is not checked: show answers anybody.                          *)
ReversedKnowingly ==
  [][\A p \in Keys : prop[p].state = "applied" /\ prop'[p].state = "reversed" =>
       ~unseen[p]]_vars

(* Reversing gives each source the direction it had before and reopens what *)
(* was cancelled, and only over the hold of this very fusion: no later      *)
(* review is covered up.                                                    *)
ReversalRestores ==
  [][\A p \in Keys : prop[p].state = "applied" /\ prop'[p].state = "reversed" =>
       \A w \in prop[p].draft.sources :
         LET log == place[w].log
             n   == Len(log)
         IN  /\ log[n] = Hold(prop[p].draft.venture)
             /\ Latest(place'[w].log) = IF n = 1 THEN Pursue("reopened") ELSE log[n - 1]
             /\ w \in prop[p].draft.drops => place'[w].work.status = "ready"]_vars

-----------------------------------------------------------------------------
(* Proposals are optimistic offers over their sources *)
OfferStatus ==
  [p \in Keys |->
     CASE prop[p].state = "absent"   -> "absent"
       [] prop[p].state = "proposed" -> "open"
       [] prop[p].state = "applied"  -> "accepted"
       [] prop[p].state = "reversed" -> "undone"
       [] OTHER                      -> "withdrawn"]

Optimistic == INSTANCE OptimisticAcceptance WITH
  Offers <- Keys, Things <- Places, Nobody <- Nothing,
  world <- [w \in Places |-> Source(w)],
  status <- OfferStatus,
  basis <- [p \in Keys |-> prop[p].basis]

IsOptimistic == Optimistic!Spec
=============================================================================
