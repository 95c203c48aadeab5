----------------------------- MODULE Workspaces -----------------------------
(***************************************************************************)
(* The workspaces of ventures: how they are opened, also for a project that *)
(* exists already (projects.py), by what name they are selected             *)
(* (venture_identity.py), and what their modules keep (workspace_modules.py). *)
(*                                                                         *)
(* Opening a venture, setting an alias, renaming and a module's snapshot are *)
(* one transaction each; a caller whose expected version or revision is      *)
(* outdated changes nothing.  The intake of an existing project is several:  *)
(* it looks for the checkpoint, opens the venture, and stores the checkpoint *)
(* with its review; others, and other intakes, come in between.              *)
(***************************************************************************)
EXTENDS Naturals

CONSTANTS Ids,           \* ids of ventures and of ideas
          Aliases,       \* names in the form of an alias, which an id may have too
          Manifests,     \* what may be said of a project: [of, idea, body]
          Intakes,       \* who takes projects in
          None,          \* no alias, no such thing
          MaxReviews,    \* bound on the reviews of a workspace
          MaxEdits       \* bound on titles and snapshots of modules

VARIABLES venture,       \* id -> the venture and its workspace, or None
          ideas,         \* the ids of ideas
          checkpoints,   \* checkpoints of projects, each with the review it came with
          taking         \* what each intake is doing

vars == <<venture, ideas, checkpoints, taking>>

Modules == {"configuration", "metrics"}

\* The rows.
Venture    == [alias : Aliases \cup {None}, title : 0..MaxEdits, review : 0..MaxReviews,
               snapshots : [Modules -> 0..MaxEdits], idea : Ids \cup {None}]
Checkpoint == [manifest : Manifests, review : 1..MaxReviews]
Taking     == [at : {"idle", "opening", "creating", "storing"},
               manifest : Manifests \cup {None}, expected : 0..MaxReviews]

Opened(i) == [alias |-> None, title |-> 0, review |-> 0,
              snapshots |-> [m \in Modules |-> 0], idea |-> i]

Exists(v) == venture[v] # None

Existing == {v \in Ids : Exists(v)}
Names    == Ids \cup Aliases

Idle == [at |-> "idle", manifest |-> None, expected |-> 0]

\* No two ventures have one alias.  A checkpoint stands with a review of its venture,
\* which is of no other checkpoint, and a manifest is checked in once.
TypeOK ==
    /\ \A v \in Ids : Exists(v) => venture[v] \in Venture
    /\ ideas \subseteq Ids
    /\ \A v, w \in Existing :
          venture[v].alias # None /\ venture[v].alias = venture[w].alias => v = w
    /\ checkpoints \subseteq Checkpoint
    /\ \A c \in checkpoints : LET v == c.manifest.of
                               IN  Exists(v) /\ c.review <= venture[v].review
    /\ \A c, d \in checkpoints :
          \/ c.manifest = d.manifest
          \/ c.manifest.of = d.manifest.of /\ c.review = d.review
          => c = d
    /\ taking \in [Intakes -> Taking]

Init ==
    /\ venture = [v \in Ids |-> None]
    /\ ideas = {}
    /\ checkpoints = {}
    /\ taking = [p \in Intakes |-> Idle]

-----------------------------------------------------------------------------
(* Opening.                                                                *)

Open(v, i) ==
    /\ ~Exists(v)
    /\ venture' = [venture EXCEPT ![v] = Opened(i)]

CreateVenture(v) == Open(v, None) /\ UNCHANGED <<ideas, checkpoints, taking>>

\* An idea is promoted under an id that is given.
Promote(i, v) == i \in ideas /\ Open(v, i) /\ UNCHANGED <<ideas, checkpoints, taking>>

CreateIdea(i) ==
    /\ i \notin ideas
    /\ ideas' = ideas \cup {i}
    /\ UNCHANGED <<venture, checkpoints, taking>>

-----------------------------------------------------------------------------
(* Names.                                                                  *)

\* A venture by its id or, failing that, by its alias.
ByIdentity(x) == IF x \in Existing THEN {x} ELSE {v \in Existing : venture[v].alias = x}

\* What a read command selects.  Ids of workspaces are generated and no names; the
\* key of a venture's workspace is the venture's id, that of an idea's no name either.
Selected(x) ==
    IF ByIdentity(x) # {} THEN [kind |-> "venture", id |-> CHOOSE v \in ByIdentity(x) : TRUE]
    ELSE IF x \in ideas THEN [kind |-> "idea", id |-> x] ELSE [kind |-> "nothing", id |-> x]

\* The unique index over aliases.
Unique(v, alias) == \A w \in Existing \ {v} : venture[w].alias # alias

\* Fault: only aliases are compared.
FreeOfAliases(v, alias) == Unique(v, alias)

\* No other venture is known by the alias, no other workspace has it for a key, and
\* it is no other venture's alias, which the id of the venture itself may hide.
Free(v, alias) ==
    /\ ByIdentity(alias) \subseteq {v}
    /\ alias \notin Existing \ {v}
    /\ Unique(v, alias)

SetAlias(x, alias) ==
    \E v \in ByIdentity(x) :
        /\ venture[v].alias # alias
        /\ Free(v, alias)
        /\ venture' = [venture EXCEPT ![v].alias = alias]
        /\ UNCHANGED <<ideas, checkpoints, taking>>

-----------------------------------------------------------------------------
(* What a workspace keeps.                                                 *)

Edits(v) == venture[v].title + venture[v].snapshots["configuration"]
                             + venture[v].snapshots["metrics"]

Editable(v) == Exists(v) /\ \A w \in Existing : Edits(w) < MaxEdits

Rename(v) ==
    /\ Editable(v)
    /\ venture' = [venture EXCEPT ![v].title = @ + 1]
    /\ UNCHANGED <<ideas, checkpoints, taking>>

\* The next snapshot of a module; it names the one before it.
AppendSnapshot(v, m) ==
    /\ Editable(v)
    /\ venture' = [venture EXCEPT ![v].snapshots[m] = @ + 1]
    /\ UNCHANGED <<ideas, checkpoints, taking>>

Reviewed(v) == [venture EXCEPT ![v].review = @ + 1]

OtherReview(v) ==
    /\ Exists(v) /\ venture[v].review < MaxReviews
    /\ venture' = Reviewed(v)
    /\ UNCHANGED <<ideas, checkpoints, taking>>

-----------------------------------------------------------------------------
(* The intake of an existing project.                                      *)

CheckedIn(manifest) == \E c \in checkpoints : c.manifest = manifest

\* A manifest that is checked in already is answered with its checkpoint.  The caller
\* expects the review that is the latest by now; another one is refused in the end.
BeginIntake(p, manifest) ==
    /\ taking[p] = Idle
    /\ ~CheckedIn(manifest)
    /\ taking' = [taking EXCEPT ![p] =
          [at |-> "opening", manifest |-> manifest,
           expected |-> IF Exists(manifest.of) THEN venture[manifest.of].review ELSE 0]]
    /\ UNCHANGED <<venture, ideas, checkpoints>>

At(p, stage)   == taking[p].at = stage
Goes(p, stage) == taking' = [taking EXCEPT ![p].at = stage]
Ends(p)        == taking' = [taking EXCEPT ![p] = Idle]

\* With an idea, it is promoted under the id of the venture, or was before; no such
\* idea, or a venture of another source, ends the call.
PromoteProject(p) ==
    LET v == taking[p].manifest.of
        i == taking[p].manifest.idea
    IN  /\ At(p, "opening") /\ i # None
        /\ \/ i \in ideas /\ Open(v, i) /\ Goes(p, "storing")
           \/ i \in ideas /\ Exists(v) /\ venture[v].idea = i /\ Goes(p, "storing") /\ UNCHANGED venture
           \/ (i \notin ideas \/ (Exists(v) /\ venture[v].idea # i)) /\ Ends(p) /\ UNCHANGED venture
        /\ UNCHANGED <<ideas, checkpoints>>

\* Without one, the venture is looked for.
LookForProject(p) ==
    /\ At(p, "opening") /\ taking[p].manifest.idea = None
    /\ Goes(p, IF Exists(taking[p].manifest.of) THEN "storing" ELSE "creating")
    /\ UNCHANGED <<venture, ideas, checkpoints>>

\* Somebody else may have opened it since: then the call fails.
CreateProject(p) ==
    /\ At(p, "creating")
    /\ \/ Open(taking[p].manifest.of, None) /\ Goes(p, "storing")
       \/ Exists(taking[p].manifest.of) /\ Ends(p) /\ UNCHANGED venture
    /\ UNCHANGED <<ideas, checkpoints>>

\* The checkpoint and its review are stored together or not at all: the review the
\* caller expects is the latest, and no other call has stored the manifest.  The
\* venture stays either way.
StoreProject(p) ==
    LET v == taking[p].manifest.of
        m == taking[p].manifest
    IN  /\ At(p, "storing")
        /\ \/ /\ venture[v].review = taking[p].expected /\ ~CheckedIn(m)
              /\ venture[v].review < MaxReviews
              /\ venture' = Reviewed(v)
              /\ checkpoints' = checkpoints \cup {[manifest |-> m, review |-> venture[v].review + 1]}
           \/ /\ venture[v].review # taking[p].expected \/ CheckedIn(m)
              /\ UNCHANGED <<venture, checkpoints>>
        /\ Ends(p)
        /\ UNCHANGED ideas

-----------------------------------------------------------------------------
Next ==
    \/ \E v \in Ids : \/ CreateVenture(v) \/ CreateIdea(v) \/ Rename(v) \/ OtherReview(v)
                      \/ \E i \in Ids : Promote(i, v)
                      \/ \E m \in Modules : AppendSnapshot(v, m)
    \/ \E x \in Names, alias \in Aliases : SetAlias(x, alias)
    \/ \E p \in Intakes : \/ \E manifest \in Manifests : BeginIntake(p, manifest)
                          \/ PromoteProject(p) \/ LookForProject(p)
                          \/ CreateProject(p) \/ StoreProject(p)

Spec == Init /\ [][Next]_vars

-----------------------------------------------------------------------------
\* Names stand.  An alias that is set selects its venture from then on, and no name
\* that selects a venture comes to select another one, but for an alias whose
\* venture has got a new one, and one that a venture opened later has for its id.
SelectorsStand ==
    [][/\ \A v \in Existing, alias \in Aliases :
             venture[v].alias # alias /\ venture'[v].alias = alias =>
               Selected(alias)' = [kind |-> "venture", id |-> v]
       /\ \A x \in Names : Selected(x).kind = "venture" =>
             \/ Selected(x)' = Selected(x)
             \/ x \notin Existing /\ (x \in Existing' \/ venture'[Selected(x).id].alias # x)]_vars
=============================================================================
