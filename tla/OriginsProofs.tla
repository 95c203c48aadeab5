---------------------------- MODULE OriginsProofs ---------------------------
(***************************************************************************)
(* How ventures come about.  Fusion proposals, for any number of            *)
(* workspaces, proposals and drafts: what is accepted and reversed, and that *)
(* proposals are optimistic offers over their sources.  Then, at the end,    *)
(* that names go on selecting what they select (Workspaces).                *)
(***************************************************************************)
EXTENDS Origins, TLAPS

\* A source row b is how the workspace row r looked at some time: nothing counts backwards.
AtMost(b, r) == /\ b.defn <= r.defn /\ b.answer <= r.answer
                /\ b.revision <= Len(r.log) /\ b.work.version <= r.work.version

Less(b, r) == \/ b.defn < r.defn \/ b.answer < r.answer
              \/ b.revision < Len(r.log) \/ b.work.version < r.work.version

\* The same for an activity a about the draft d, with the workspaces as at.
NoLater(a, d, at) ==
  /\ a.result.defn <= at[d.venture].defn
  /\ a.result.answer <= at[d.venture].answer
  /\ Len(a.result.log) <= Len(at[d.venture].log)
  /\ a.result.work.version <= at[d.venture].work.version
  /\ \A w \in d.sources : /\ a.reviews[w] <= Len(at[w].log)
                          /\ a.work[w] <= at[w].work.version
                          /\ a.answers[w] <= at[w].answer

Earlier(a, d, at) ==
  \/ a.result.defn < at[d.venture].defn
  \/ a.result.answer < at[d.venture].answer
  \/ Len(a.result.log) < Len(at[d.venture].log)
  \/ a.result.work.version < at[d.venture].work.version
  \/ \E w \in d.sources : \/ a.reviews[w] < Len(at[w].log)
                          \/ a.work[w] < at[w].work.version
                          \/ a.answers[w] < at[w].answer

There(p)    == prop[p].state # "absent"
Standing(p) == prop[p].state = "applied"

\* A proposal rests on sources that exist, as they were at some time.
Rests(p) ==
  There(p) =>
    \A w \in prop[p].draft.sources :
      LET b == prop[p].basis[w]
      IN  /\ Exists(w)
          /\ AtMost(b, place[w])
          /\ b.review = IF b.revision = 0 THEN Nothing ELSE place[w].log[b.revision]
          /\ w \in prop[p].draft.drops => b.work.status = "ready"

\* A source that moved does not look as it did.
Moves(p) ==
  /\ ~There(p) => moved[p] = {}
  /\ There(p) => \A w \in moved[p] : w \in prop[p].draft.sources /\ Less(prop[p].basis[w], place[w])

\* An applied proposal made its venture, and its sources say so right after what they
\* said before.
Stands(p) ==
  Standing(p) =>
    /\ place[prop[p].draft.venture].born = p
    /\ \A w \in prop[p].draft.sources :
         /\ prop[p].basis[w].revision < Len(place[w].log)
         /\ place[w].log[prop[p].basis[w].revision + 1] = Hold(prop[p].draft.venture)

\* What q made stands, with w as a source that q put on hold before n reviews were there.
HeldBefore(q, w, v, n) ==
  /\ Standing(q) /\ place[v].born = q
  /\ w \in prop[q].draft.sources /\ prop[q].basis[w].revision < n

\* A hold that an applied proposal covers up is of a fusion that stands as well.
Covers(p) ==
  Standing(p) =>
    \A w \in prop[p].draft.sources, v \in Ventures :
      prop[p].basis[w].review # Nothing /\ prop[p].basis[w].review.next = v =>
        \E q \in Keys : HeldBefore(q, w, v, prop[p].basis[w].revision)

\* What somebody was shown of an applied proposal is not later than it is, and is earlier
\* when something is unseen.
Watched(p) ==
  /\ prop[p].state \notin {"applied", "reversed"} => seen[p] = Nothing
  /\ Standing(p) =>
       /\ prop[p].initial # Nothing
       /\ \A a \in {prop[p].initial, seen[p]} \ {Nothing} :
            /\ NoLater(a, prop[p].draft, place)
            /\ unseen[p] => Earlier(a, prop[p].draft, place)

\* A key that was never used names no proposal.
Unused(k) == receipt[k] = Nothing => prop[k] = NoProposal

Core(p) == Rests(p) /\ Moves(p) /\ Stands(p) /\ Watched(p)

Inv ==
  /\ TypeOK
  /\ \A p \in Keys : Core(p) /\ Covers(p) /\ Unused(p)
  /\ ContinuedInStandingFusion


-----------------------------------------------------------------------------
(* Rows. *)

LEMMA WorkspaceRow ==
  ASSUME NEW r \in Workspace
  PROVE  /\ r.defn \in Nat /\ r.answer \in Nat
         /\ r.log \in Seq(Review) /\ Len(r.log) \in Nat
         /\ r.work \in WorkRow /\ r.work.version \in Nat /\ r.work.status \in Status
<1>1. r.log \in Seq(Review) /\ r.work \in WorkRow
  BY DEF Workspace
<1> QED
  BY <1>1 DEF Workspace, WorkRow

LEMMA PlaceRow ==
  ASSUME NEW at \in [Places -> Workspace], NEW w \in Places
  PROVE  /\ at[w] \in Workspace
         /\ at[w].defn \in Nat /\ at[w].answer \in Nat
         /\ at[w].log \in Seq(Review) /\ Len(at[w].log) \in Nat
         /\ at[w].work \in WorkRow
         /\ at[w].work.version \in Nat /\ at[w].work.status \in Status
<1>1. at[w] \in Workspace
  OBVIOUS
<1> QED
  BY <1>1, WorkspaceRow

LEMMA PlacesTyped == ASSUME TypeOK PROVE place \in [Places -> Workspace]
  BY DEF TypeOK

\* A proposal that is there has a draft and rows about its sources.
LEMMA ProposalRow ==
  ASSUME TypeOK, NEW p \in Keys, There(p)
  PROVE  /\ prop[p].draft \in Drafts
         /\ prop[p] \in Proposals(prop[p].draft)
<1>1. prop[p] # NoProposal
  BY DEF There, NoProposal
<1>2. PICK d \in Drafts : prop[p] \in Proposals(d)
  BY <1>1 DEF TypeOK
<1>3. prop[p].draft = d
  BY <1>2 DEF Proposals
<1> QED
  BY <1>2, <1>3

LEMMA BasisRow ==
  ASSUME TypeOK, NEW p \in Keys, There(p), NEW w \in prop[p].draft.sources
  PROVE  /\ w \in Places
         /\ prop[p].basis[w] \in SourceRow
         /\ prop[p].basis[w].defn \in Nat /\ prop[p].basis[w].answer \in Nat
         /\ prop[p].basis[w].revision \in Nat
         /\ prop[p].basis[w].review \in Review \cup {Nothing}
         /\ prop[p].basis[w].work \in WorkRow
         /\ prop[p].basis[w].work.version \in Nat
<1>1. prop[p].draft \in Drafts /\ prop[p].basis \in [prop[p].draft.sources -> SourceRow]
  BY ProposalRow DEF Proposals
<1>2. w \in Places
  BY <1>1, DraftsName DEF Places
<1>3. prop[p].basis[w] \in SourceRow
  BY <1>1
<1>4. prop[p].basis[w].work \in WorkRow
  BY <1>3 DEF SourceRow
<1> QED
  BY <1>2, <1>3, <1>4 DEF SourceRow, WorkRow

\* What a draft names.
LEMMA DraftNames ==
  ASSUME NEW d \in Drafts
  PROVE  /\ d.venture \in Ventures /\ d.venture \in Places
         /\ d.sources \subseteq Places /\ d.venture \notin d.sources
         /\ d.drops \subseteq d.sources
  BY DraftsName DEF Places

\* An appended review is the latest, and leaves the earlier ones.
LEMMA ReviewedRow ==
  ASSUME TypeOK, NEW w \in Places, NEW r \in Review
  PROVE  LET row == Reviewed(w, r)
         IN  /\ row \in Workspace
             /\ row.born = place[w].born /\ row.defn = place[w].defn
             /\ row.answer = place[w].answer /\ row.work = place[w].work
             /\ row.log = Append(place[w].log, r)
             /\ Len(row.log) = Len(place[w].log) + 1
             /\ row.log[Len(place[w].log) + 1] = r
             /\ Latest(row.log) = r
             /\ \A i \in 1..Len(place[w].log) : row.log[i] = place[w].log[i]
<1> DEFINE row == Reviewed(w, r)
<1>1. place[w] \in Workspace /\ place[w].log \in Seq(Review)
  BY PlacesTyped, PlaceRow
<1>2. /\ row.born = place[w].born /\ row.defn = place[w].defn
      /\ row.answer = place[w].answer /\ row.work = place[w].work
      /\ row.log = Append(place[w].log, r)
  BY <1>1 DEF Workspace, Reviewed
<1>3. Append(place[w].log, r) \in Seq(Review)
  BY <1>1
<1>4. row \in Workspace
  BY <1>1, <1>3 DEF Workspace, Reviewed
<1>5. /\ Len(row.log) = Len(place[w].log) + 1
      /\ row.log[Len(place[w].log) + 1] = r
      /\ \A i \in 1..Len(place[w].log) : row.log[i] = place[w].log[i]
  BY <1>1, <1>2
<1>6. row.log # <<>> /\ Latest(row.log) = r
  BY <1>1, <1>2, <1>3, <1>5 DEF Latest
<1> QED
  BY <1>2, <1>4, <1>5, <1>6

-----------------------------------------------------------------------------
(* What a step may do to a workspace row r that becomes s.                 *)

Grown(r, s) ==
  /\ s.born = r.born
  /\ r.defn <= s.defn /\ r.answer <= s.answer
  /\ Len(r.log) <= Len(s.log)
  /\ \A i \in 1..Len(r.log) : s.log[i] = r.log[i]
  /\ r.work.version <= s.work.version

\* Something happened that an activity counts for a source, or that a source row shows.
Stirred(r, s)  == \/ r.answer < s.answer
                  \/ Len(r.log) < Len(s.log)
                  \/ r.work.version < s.work.version
Advanced(r, s) == Stirred(r, s) \/ r.defn < s.defn

LEMMA SameIsGrown ==
  ASSUME NEW r \in Workspace
  PROVE  Grown(r, r)
<1>1. r.defn \in Nat /\ r.answer \in Nat /\ Len(r.log) \in Nat /\ r.work.version \in Nat
  BY WorkspaceRow
<1>2. r.defn <= r.defn /\ r.answer <= r.answer
  BY <1>1
<1>3. Len(r.log) <= Len(r.log) /\ r.work.version <= r.work.version
  BY <1>1
<1> QED
  BY <1>2, <1>3 DEF Grown

LEMMA AtMostGrown ==
  ASSUME NEW b \in SourceRow, NEW r \in Workspace, NEW s \in Workspace, AtMost(b, r), Grown(r, s)
  PROVE  /\ AtMost(b, s)
         /\ Less(b, r) \/ Advanced(r, s) => Less(b, s)
<1>1. /\ r.defn \in Nat /\ r.answer \in Nat /\ Len(r.log) \in Nat /\ r.work.version \in Nat
      /\ s.defn \in Nat /\ s.answer \in Nat /\ Len(s.log) \in Nat /\ s.work.version \in Nat
  BY WorkspaceRow
<1>2. b.defn \in Nat /\ b.answer \in Nat /\ b.revision \in Nat /\ b.work.version \in Nat
  <2>1. b.work \in WorkRow
    BY DEF SourceRow
  <2> QED
    BY <2>1 DEF SourceRow, WorkRow
<1>3. b.defn <= s.defn /\ (b.defn < r.defn \/ r.defn < s.defn => b.defn < s.defn)
  BY <1>1, <1>2 DEF AtMost, Grown
<1>4. b.answer <= s.answer /\ (b.answer < r.answer \/ r.answer < s.answer => b.answer < s.answer)
  BY <1>1, <1>2 DEF AtMost, Grown
<1>5. /\ b.revision <= Len(s.log)
      /\ b.revision < Len(r.log) \/ Len(r.log) < Len(s.log) => b.revision < Len(s.log)
  BY <1>1, <1>2 DEF AtMost, Grown
<1>6. /\ b.work.version <= s.work.version
      /\ b.work.version < r.work.version \/ r.work.version < s.work.version
           => b.work.version < s.work.version
  BY <1>1, <1>2 DEF AtMost, Grown
<1>7. AtMost(b, s)
  BY <1>3, <1>4, <1>5, <1>6 DEF AtMost
<1>8. ASSUME Less(b, r) \/ Advanced(r, s) PROVE Less(b, s)
  BY <1>3, <1>4, <1>5, <1>6, <1>8 DEF Less, Advanced, Stirred
<1> QED
  BY <1>7, <1>8

LEMMA ActivityNumbers ==
  ASSUME NEW d \in Drafts, NEW a \in Activities(d)
  PROVE  /\ a.result \in Workspace
         /\ \A w \in d.sources : a.reviews[w] \in Nat /\ a.work[w] \in Nat /\ a.answers[w] \in Nat
<1>1. /\ a.result \in Workspace
      /\ a.reviews \in [d.sources -> Nat]
      /\ a.work \in [d.sources -> Nat]
      /\ a.answers \in [d.sources -> Nat]
  BY DEF Activities
<1> QED
  BY <1>1

\* An activity read now is neither later nor earlier than what is there.
LEMMA ActivityNow ==
  ASSUME TypeOK, NEW p \in Keys, There(p)
  PROVE  /\ Activity(p) \in Activities(prop[p].draft)
         /\ NoLater(Activity(p), prop[p].draft, place)
         /\ ~Earlier(Activity(p), prop[p].draft, place)
<1> DEFINE d == prop[p].draft
           a == Activity(p)
<1>1. d \in Drafts /\ d.venture \in Places /\ d.sources \subseteq Places
  BY ProposalRow, DraftNames
<1>2. place[d.venture] \in Workspace
  BY <1>1, PlacesTyped, PlaceRow
<1>3. \A w \in d.sources : /\ Len(place[w].log) \in Nat /\ place[w].work.version \in Nat
                           /\ place[w].answer \in Nat
  BY <1>1, PlacesTyped, PlaceRow
<1>4. /\ a.result = place[d.venture]
      /\ \A w \in d.sources : /\ a.reviews[w] = Len(place[w].log)
                               /\ a.work[w] = place[w].work.version
                               /\ a.answers[w] = place[w].answer
  BY DEF Activity
<1>5. a \in Activities(d)
  BY <1>2, <1>3 DEF Activity, Activities
<1>6. /\ place[d.venture].defn \in Nat /\ place[d.venture].answer \in Nat
      /\ Len(place[d.venture].log) \in Nat /\ place[d.venture].work.version \in Nat
  BY <1>1, PlacesTyped, PlaceRow
<1>7. \A w \in d.sources : /\ a.reviews[w] <= Len(place[w].log)
                           /\ a.work[w] <= place[w].work.version
                           /\ a.answers[w] <= place[w].answer
  BY <1>3, <1>4
<1>8. NoLater(a, d, place)
  BY <1>4, <1>6, <1>7 DEF NoLater
<1>9. /\ ~(a.result.defn < place[d.venture].defn)
      /\ ~(a.result.answer < place[d.venture].answer)
      /\ ~(Len(a.result.log) < Len(place[d.venture].log))
      /\ ~(a.result.work.version < place[d.venture].work.version)
  <2>1. ~(a.result.defn < place[d.venture].defn)
    BY <1>4, <1>6
  <2>2. ~(a.result.answer < place[d.venture].answer)
    BY <1>4, <1>6
  <2>3. ~(Len(a.result.log) < Len(place[d.venture].log))
    <3>1. Len(a.result.log) = Len(place[d.venture].log)
      BY <1>4, Zenon
    <3> QED
      BY <1>6, <3>1, SMTT(20)
  <2>4. ~(a.result.work.version < place[d.venture].work.version)
    BY <1>4, <1>6
  <2> QED
    BY <2>1, <2>2, <2>3, <2>4
<1>10. \A w \in d.sources : /\ ~(a.reviews[w] < Len(place[w].log))
                            /\ ~(a.work[w] < place[w].work.version)
                            /\ ~(a.answers[w] < place[w].answer)
  BY <1>3, <1>4
<1>11. ~Earlier(a, d, place)
  BY <1>9, <1>10 DEF Earlier
<1> QED
  BY <1>5, <1>8, <1>11

LEMMA ActivityGrown ==
  ASSUME NEW d \in Drafts, NEW a \in Activities(d),
         NEW at \in [Places -> Workspace], NEW then \in [Places -> Workspace],
         NoLater(a, d, at),
         Grown(at[d.venture], then[d.venture]),
         \A w \in d.sources : Grown(at[w], then[w])
  PROVE  /\ NoLater(a, d, then)
         /\ \/ Earlier(a, d, at)
            \/ Advanced(at[d.venture], then[d.venture])
            \/ \E w \in d.sources : Stirred(at[w], then[w])
            => Earlier(a, d, then)
<1> DEFINE r == at[d.venture]
           s == then[d.venture]
<1>1. d.venture \in Places /\ d.sources \subseteq Places
  BY DraftNames
<1>2. /\ r.defn \in Nat /\ r.answer \in Nat /\ Len(r.log) \in Nat /\ r.work.version \in Nat
      /\ s.defn \in Nat /\ s.answer \in Nat /\ Len(s.log) \in Nat /\ s.work.version \in Nat
  BY <1>1, PlaceRow
<1>3. /\ a.result.defn \in Nat /\ a.result.answer \in Nat /\ Len(a.result.log) \in Nat
      /\ a.result.work.version \in Nat
  BY ActivityNumbers, WorkspaceRow
<1> HIDE DEF r, s
<1>4. /\ a.result.defn <= s.defn
      /\ a.result.defn < r.defn \/ r.defn < s.defn => a.result.defn < s.defn
  <2>1. a.result.defn <= r.defn /\ r.defn <= s.defn
    BY DEF NoLater, Grown, r, s
  <2> QED
    BY <1>2, <1>3, <2>1, SMTT(20)
<1>5. /\ a.result.answer <= s.answer
      /\ a.result.answer < r.answer \/ r.answer < s.answer => a.result.answer < s.answer
  <2>1. a.result.answer <= r.answer /\ r.answer <= s.answer
    BY DEF NoLater, Grown, r, s
  <2> QED
    BY <1>2, <1>3, <2>1, SMTT(20)
<1>6. /\ Len(a.result.log) <= Len(s.log)
      /\ Len(a.result.log) < Len(r.log) \/ Len(r.log) < Len(s.log)
           => Len(a.result.log) < Len(s.log)
  <2>1. Len(a.result.log) <= Len(r.log) /\ Len(r.log) <= Len(s.log)
    BY DEF NoLater, Grown, r, s
  <2> QED
    BY <1>2, <1>3, <2>1, SMTT(20)
<1>7. /\ a.result.work.version <= s.work.version
      /\ a.result.work.version < r.work.version \/ r.work.version < s.work.version
           => a.result.work.version < s.work.version
  <2>1. a.result.work.version <= r.work.version /\ r.work.version <= s.work.version
    BY DEF NoLater, Grown, r, s
  <2> QED
    BY <1>2, <1>3, <2>1, SMTT(20)
<1>8. ASSUME NEW w \in d.sources
      PROVE  /\ a.reviews[w] <= Len(then[w].log)
             /\ a.reviews[w] < Len(at[w].log) \/ Len(at[w].log) < Len(then[w].log)
                  => a.reviews[w] < Len(then[w].log)
             /\ a.work[w] <= then[w].work.version
             /\ a.work[w] < at[w].work.version \/ at[w].work.version < then[w].work.version
                  => a.work[w] < then[w].work.version
             /\ a.answers[w] <= then[w].answer
             /\ a.answers[w] < at[w].answer \/ at[w].answer < then[w].answer
                  => a.answers[w] < then[w].answer
  <2>1. /\ Len(at[w].log) \in Nat /\ at[w].work.version \in Nat /\ at[w].answer \in Nat
        /\ Len(then[w].log) \in Nat /\ then[w].work.version \in Nat /\ then[w].answer \in Nat
    BY <1>1, <1>8, PlaceRow
  <2>2. a.reviews[w] \in Nat /\ a.work[w] \in Nat /\ a.answers[w] \in Nat
    BY <1>8, ActivityNumbers
  <2>3. /\ a.reviews[w] <= Len(at[w].log) /\ a.work[w] <= at[w].work.version
        /\ a.answers[w] <= at[w].answer
    BY <1>8 DEF NoLater
  <2>4. /\ Len(at[w].log) <= Len(then[w].log) /\ at[w].work.version <= then[w].work.version
        /\ at[w].answer <= then[w].answer
    BY <1>8 DEF Grown
  <2>5. /\ a.reviews[w] <= Len(then[w].log)
        /\ a.reviews[w] < Len(at[w].log) \/ Len(at[w].log) < Len(then[w].log)
             => a.reviews[w] < Len(then[w].log)
    BY <2>1, <2>2, <2>3, <2>4, SMTT(20)
  <2>6. /\ a.work[w] <= then[w].work.version
        /\ a.work[w] < at[w].work.version \/ at[w].work.version < then[w].work.version
             => a.work[w] < then[w].work.version
    BY <2>1, <2>2, <2>3, <2>4, SMTT(20)
  <2>7. /\ a.answers[w] <= then[w].answer
        /\ a.answers[w] < at[w].answer \/ at[w].answer < then[w].answer
             => a.answers[w] < then[w].answer
    BY <2>1, <2>2, <2>3, <2>4, SMTT(20)
  <2> QED
    BY <2>5, <2>6, <2>7
<1>9. NoLater(a, d, then)
  BY <1>4, <1>5, <1>6, <1>7, <1>8 DEF NoLater, r, s
<1>10. ASSUME Earlier(a, d, at) \/ Advanced(r, s) \/ \E w \in d.sources : Stirred(at[w], then[w])
       PROVE  Earlier(a, d, then)
  BY <1>4, <1>5, <1>6, <1>7, <1>8, <1>10 DEF Earlier, Advanced, Stirred, r, s
<1> QED
  BY <1>9, <1>10 DEF r, s

-----------------------------------------------------------------------------
(* What a proposal that a step does not touch keeps. *)

World == /\ place' \in [Places -> Workspace]
         /\ \A w \in Places : Exists(w) => Grown(place[w], place'[w])

\* A source, or a venture, that is noted as changed has changed.
Marked(p) ==
  /\ moved'[p] \subseteq moved[p] \cup {w \in Places : Uses(p, w) /\ Advanced(place[w], place'[w])}
  /\ unseen'[p] =>
       \/ unseen[p]
       \/ \E w \in Places : \/ Uses(p, w) /\ Stirred(place[w], place'[w])
                            \/ Made(p, w) /\ Advanced(place[w], place'[w])

SameTerms(p) == prop'[p].draft = prop[p].draft /\ prop'[p].basis = prop[p].basis

LEMMA SameWorld == ASSUME TypeOK, place' = place PROVE World
<1> SUFFICES ASSUME NEW w \in Places PROVE Grown(place[w], place'[w])
  BY DEF World, TypeOK
<1> QED
  BY PlacesTyped, PlaceRow, SameIsGrown

LEMMA StaysRested ==
  ASSUME TypeOK, World, NEW p \in Keys, Rests(p), There(p), SameTerms(p)
  PROVE  Rests(p)'
<1> SUFFICES ASSUME NEW w \in prop[p].draft.sources
             PROVE  LET b == prop[p].basis[w]
                    IN  /\ place'[w].born # Nothing
                        /\ AtMost(b, place'[w])
                        /\ b.review = IF b.revision = 0 THEN Nothing
                                      ELSE place'[w].log[b.revision]
                        /\ w \in prop[p].draft.drops => b.work.status = "ready"
  BY DEF Rests, There, Exists, SameTerms
<1> DEFINE b == prop[p].basis[w]
<1>1. w \in Places /\ b \in SourceRow /\ b.revision \in Nat
  BY BasisRow
<1>2. /\ Exists(w) /\ AtMost(b, place[w])
      /\ b.review = IF b.revision = 0 THEN Nothing ELSE place[w].log[b.revision]
      /\ w \in prop[p].draft.drops => b.work.status = "ready"
  BY DEF Rests
<1>3. /\ Grown(place[w], place'[w])
      /\ place[w] \in Workspace /\ place'[w] \in Workspace /\ Len(place[w].log) \in Nat
  BY <1>1, <1>2, PlacesTyped, PlaceRow DEF World
<1>4. place'[w].born # Nothing
  BY <1>2, <1>3 DEF Exists, Grown
<1>5. AtMost(b, place'[w])
  BY <1>1, <1>2, <1>3, AtMostGrown
<1>6. b.revision # 0 => place'[w].log[b.revision] = place[w].log[b.revision]
  <2>1. b.revision <= Len(place[w].log)
    BY <1>2 DEF AtMost
  <2>2. \A i \in 1..Len(place[w].log) : place'[w].log[i] = place[w].log[i]
    BY <1>3 DEF Grown
  <2>3. b.revision # 0 => b.revision \in 1..Len(place[w].log)
    BY <1>1, <1>3, <2>1
  <2> QED
    BY <2>2, <2>3
<1> QED
  BY <1>2, <1>4, <1>5, <1>6

LEMMA StaysMoved ==
  ASSUME TypeOK, World, NEW p \in Keys, Rests(p), Moves(p), There(p), There(p)', SameTerms(p),
         Marked(p)
  PROVE  Moves(p)'
<1> SUFFICES ASSUME NEW w \in moved'[p]
             PROVE  w \in prop[p].draft.sources /\ Less(prop[p].basis[w], place'[w])
  BY DEF Moves, SameTerms
<1> DEFINE b == prop[p].basis[w]
<1>1. w \in prop[p].draft.sources /\ (Less(b, place[w]) \/ Advanced(place[w], place'[w]))
  BY DEF Moves, Uses, Marked
<1>2. w \in Places /\ b \in SourceRow
  BY <1>1, BasisRow
<1>3. AtMost(b, place[w]) /\ Grown(place[w], place'[w])
  BY <1>1, <1>2 DEF Rests, World
<1>4. place[w] \in Workspace /\ place'[w] \in Workspace
  BY <1>2, PlacesTyped, PlaceRow DEF World
<1>5. Less(b, place'[w])
  BY <1>1, <1>2, <1>3, <1>4, AtMostGrown
<1> QED
  BY <1>1, <1>5

LEMMA StaysStanding ==
  ASSUME TypeOK, World, NEW p \in Keys, Stands(p), Rests(p), Standing(p)' => Standing(p),
         SameTerms(p)
  PROVE  Stands(p)'
<1> SUFFICES ASSUME Standing(p)
             PROVE  /\ place'[prop[p].draft.venture].born = p
                    /\ \A w \in prop[p].draft.sources :
                         /\ prop[p].basis[w].revision < Len(place'[w].log)
                         /\ place'[w].log[prop[p].basis[w].revision + 1]
                              = Hold(prop[p].draft.venture)
  BY DEF Stands, Standing, SameTerms
<1>1. There(p) /\ prop[p].draft \in Drafts
  BY ProposalRow DEF Standing, There
<1>2. place'[prop[p].draft.venture].born = p
  <2>1. prop[p].draft.venture \in Places /\ place[prop[p].draft.venture].born = p
    BY <1>1, DraftNames DEF Stands
  <2>2. Exists(prop[p].draft.venture)
    BY <2>1, NamesApart DEF Exists
  <2> QED
    BY <2>1, <2>2 DEF World, Grown
<1>3. ASSUME NEW w \in prop[p].draft.sources
      PROVE  /\ prop[p].basis[w].revision < Len(place'[w].log)
             /\ place'[w].log[prop[p].basis[w].revision + 1] = Hold(prop[p].draft.venture)
  <2> DEFINE n == prop[p].basis[w].revision
  <2>1. w \in Places /\ n \in Nat
    BY <1>1, BasisRow
  <2>2. Exists(w) /\ n < Len(place[w].log) /\ place[w].log[n + 1] = Hold(prop[p].draft.venture)
    BY <1>1 DEF Rests, Stands
  <2>3. Grown(place[w], place'[w]) /\ Len(place[w].log) \in Nat /\ Len(place'[w].log) \in Nat
    BY <2>1, <2>2, PlacesTyped, PlaceRow DEF World
  <2>4. Len(place[w].log) <= Len(place'[w].log)
    BY <2>3 DEF Grown
  <2>5. \A i \in 1..Len(place[w].log) : place'[w].log[i] = place[w].log[i]
    BY <2>3 DEF Grown
  <2>6. n < Len(place[w].log)
    BY <2>2
  <2>7. n + 1 \in 1..Len(place[w].log) /\ n < Len(place'[w].log)
    BY <2>1, <2>3, <2>4, <2>6
  <2> QED
    BY <2>2, <2>5, <2>7
<1> QED
  BY <1>2, <1>3

\* An activity that was read before is not later than what is there now.
LEMMA StaysWatchedBy ==
  ASSUME TypeOK, World, NEW p \in Keys, Standing(p), Rests(p), Stands(p), Marked(p),
         NEW a \in Activities(prop[p].draft), NoLater(a, prop[p].draft, place),
         unseen[p] => Earlier(a, prop[p].draft, place)
  PROVE  /\ NoLater(a, prop[p].draft, place')
         /\ unseen'[p] => Earlier(a, prop[p].draft, place')
<1> DEFINE d == prop[p].draft
<1>1. There(p) /\ d \in Drafts /\ d.venture \in Places /\ d.sources \subseteq Places
  BY ProposalRow, DraftNames DEF Standing, There
<1>2. Exists(d.venture) /\ \A w \in d.sources : Exists(w)
  BY <1>1, NamesApart DEF Rests, Stands, Exists
<1>3. /\ Grown(place[d.venture], place'[d.venture])
      /\ \A w \in d.sources : Grown(place[w], place'[w])
      /\ place' \in [Places -> Workspace] /\ place \in [Places -> Workspace]
  BY <1>1, <1>2, PlacesTyped DEF World
<1>4. unseen'[p] => \/ unseen[p]
                    \/ Advanced(place[d.venture], place'[d.venture])
                    \/ \E w \in d.sources : Stirred(place[w], place'[w])
  BY DEF Marked, Uses, Made
<1> QED
  BY <1>1, <1>3, <1>4, ActivityGrown

LEMMA SeenRow ==
  ASSUME TypeOK, NEW p \in Keys, Standing(p), prop[p].initial # Nothing,
         NEW a \in {prop[p].initial, seen[p]} \ {Nothing}
  PROVE  a \in Activities(prop[p].draft)
<1>1. prop[p].initial \in Activities(prop[p].draft)
  BY ProposalRow DEF Proposals, Standing, There
<1>2. seen[p] # Nothing => seen[p] \in Activities(prop[p].draft)
  BY DEF TypeOK
<1> QED
  BY <1>1, <1>2

LEMMA StaysWatched ==
  ASSUME TypeOK, World, NEW p \in Keys, Rests(p), Stands(p), Watched(p), Marked(p),
         prop'[p] = prop[p], seen'[p] = seen[p]
  PROVE  Watched(p)'
<1> SUFFICES ASSUME Standing(p), NEW a \in {prop[p].initial, seen[p]} \ {Nothing}
             PROVE  /\ NoLater(a, prop[p].draft, place')
                    /\ unseen'[p] => Earlier(a, prop[p].draft, place')
  BY DEF Watched, Standing
<1>1. a \in Activities(prop[p].draft)
  BY SeenRow DEF Watched
<1>2. NoLater(a, prop[p].draft, place) /\ (unseen[p] => Earlier(a, prop[p].draft, place))
  BY DEF Watched
<1> QED
  BY <1>1, <1>2, StaysWatchedBy

\* All of it, of a proposal that is not touched.
LEMMA Untouched ==
  ASSUME TypeOK, World, NEW p \in Keys, Marked(p), prop'[p] = prop[p], seen'[p] = seen[p],
         Core(p), ~There(p) => moved'[p] = {}
  PROVE  Core(p)'
<1> USE DEF Core
<1>1. SameTerms(p) /\ (There(p)' <=> There(p)) /\ (Standing(p)' <=> Standing(p))
  BY DEF SameTerms, There, Standing
<1>2. Stands(p)' /\ Watched(p)'
  BY <1>1, StaysStanding, StaysWatched
<1>3. CASE There(p)
  BY <1>1, <1>2, <1>3, StaysRested, StaysMoved
<1>4. CASE ~There(p)
  BY <1>1, <1>2, <1>4 DEF Rests, Moves
<1> QED
  BY <1>3, <1>4

\* And of one that ends otherwise than by being applied.
LEMMA Ending ==
  ASSUME TypeOK, World, NEW p \in Keys, Marked(p), There(p), SameTerms(p), seen'[p] = seen[p],
         prop'[p].state \in {"superseded", "rejected", "reversed"},
         prop'[p].state = "reversed" \/ prop[p].state = "proposed",
         Core(p)
  PROVE  Core(p)'
<1> USE DEF Core
<1>1. There(p)' /\ ~Standing(p)'
  BY DEF There, Standing
<1>2. Rests(p)' /\ Moves(p)' /\ Stands(p)'
  BY <1>1, StaysRested, StaysMoved, StaysStanding
<1>3. Watched(p)'
  BY <1>1 DEF Watched
<1> QED
  BY <1>2, <1>3

-----------------------------------------------------------------------------
(* What a step keeps that makes no proposal stand or fall. *)

LEMMA HoldsStay ==
  ASSUME TypeOK, World, \A p \in Keys : Covers(p), ContinuedInStandingFusion,
         \A q \in Keys : (Standing(q)' <=> Standing(q)) /\ (Standing(q) => SameTerms(q)),
         \A w \in Places : \/ place'[w].log = place[w].log
                           \/ place'[w].log = <<>>
                           \/ Latest(place'[w].log).next \notin Ventures
  PROVE  (\A p \in Keys : Covers(p)') /\ ContinuedInStandingFusion'
<1>1. ASSUME NEW q \in Keys, NEW v \in Ventures, place[v].born = q
      PROVE  place'[v].born = q
  <2>1. v \in Places /\ Exists(v)
    BY <1>1, NamesApart DEF Places, Exists
  <2> QED
    BY <1>1, <2>1 DEF World, Grown
<1>2. ASSUME NEW p \in Keys PROVE Covers(p)'
  <2> SUFFICES ASSUME Standing(p), NEW w \in prop[p].draft.sources, NEW v \in Ventures,
                      prop[p].basis[w].review # Nothing, prop[p].basis[w].review.next = v
               PROVE  \E q \in Keys : HeldBefore(q, w, v, prop[p].basis[w].revision)'
    BY <1>2 DEF Covers, SameTerms, HeldBefore
  <2>1. PICK q \in Keys : HeldBefore(q, w, v, prop[p].basis[w].revision)
    BY DEF Covers
  <2>2. SameTerms(p)
    OBVIOUS
  <2>3. Standing(q)' /\ SameTerms(q) /\ place'[v].born = q
    BY <1>1, <2>1 DEF HeldBefore
  <2>4. HeldBefore(q, w, v, prop[p].basis[w].revision)'
    BY <2>1, <2>2, <2>3 DEF HeldBefore, SameTerms
  <2> QED
    BY <2>4
<1>3. ContinuedInStandingFusion'
  <2> SUFFICES ASSUME NEW w \in Places, NEW v \in Ventures,
                      place'[w].log # <<>>, Latest(place'[w].log).next = v
               PROVE  \E p \in Keys : (Standing(p) /\ place[v].born = p /\ Uses(p, w))'
    BY DEF ContinuedInStandingFusion, Standing
  <2>1. place'[w].log = place[w].log
    OBVIOUS
  <2>2. PICK p \in Keys : Standing(p) /\ place[v].born = p /\ Uses(p, w)
    BY <2>1 DEF ContinuedInStandingFusion, Standing
  <2>3. Standing(p)' /\ SameTerms(p) /\ place'[v].born = p
    BY <1>1, <2>2
  <2>4. Uses(p, w)'
    BY <2>2, <2>3 DEF Uses, Standing, SameTerms
  <2> QED
    BY <2>3, <2>4
<1> QED
  BY <1>2, <1>3

-----------------------------------------------------------------------------
(* Proposals as they are made. *)

LEMMA SourceNow ==
  ASSUME TypeOK, NEW w \in Places
  PROVE  LET b == Source(w)
         IN  /\ b \in SourceRow
             /\ AtMost(b, place[w]) /\ ~Less(b, place[w])
             /\ b.revision = Len(place[w].log) /\ b.work = place[w].work
             /\ b.review = IF b.revision = 0 THEN Nothing ELSE place[w].log[b.revision]
<1> DEFINE b == Source(w)
           log == place[w].log
<1>1. /\ place[w].defn \in Nat /\ place[w].answer \in Nat /\ log \in Seq(Review)
      /\ Len(log) \in Nat /\ place[w].work \in WorkRow /\ place[w].work.version \in Nat
  BY PlacesTyped, PlaceRow
<1>2. /\ b.defn = place[w].defn /\ b.answer = place[w].answer /\ b.revision = Len(log)
      /\ b.work = place[w].work /\ b.review = Latest(log)
  BY DEF Source
<1>3. Latest(log) = IF Len(log) = 0 THEN Nothing ELSE log[Len(log)]
  BY <1>1 DEF Latest
<1>4. Latest(log) \in Review \cup {Nothing}
  <2>1. Len(log) # 0 => Len(log) \in 1..Len(log)
    BY <1>1
  <2> QED
    BY <1>1, <1>3, <2>1
<1>5. b \in SourceRow
  BY <1>1, <1>4 DEF Source, SourceRow
<1>6. AtMost(b, place[w])
  BY <1>1, <1>2 DEF AtMost
<1>7. ~Less(b, place[w])
  BY <1>1, <1>2 DEF Less
<1> QED
  BY <1>2, <1>3, <1>5, <1>6, <1>7

LEMMA SourceStateNow ==
  ASSUME TypeOK, NEW d \in Drafts
  PROVE  SourceState(d) \in [d.sources -> SourceRow]
  BY DraftNames, SourceNow DEF SourceState

LEMMA NewProposal ==
  ASSUME TypeOK, NEW d \in Drafts
  PROVE  /\ Proposal(d) \in Proposals(d)
         /\ Proposal(d).state = "proposed" /\ Proposal(d).draft = d
         /\ Proposal(d).basis = SourceState(d)
<1>1. ideas + 1 \in Nat
  BY DEF TypeOK
<1> QED
  BY <1>1, SourceStateNow DEF Proposal, Proposals, States

\* A proposal that was written just now, over the sources as they are.
LEMMA Fresh ==
  ASSUME TypeOK, place' = place, NEW p \in Keys, NEW d \in Drafts, Treatable(d),
         prop'[p].draft = d, prop'[p].basis = SourceState(d), prop'[p].state = "proposed",
         moved'[p] = {}, seen'[p] = Nothing
  PROVE  Core(p)'
<1>1. ASSUME NEW w \in d.sources
      PROVE  LET b == SourceState(d)[w]
             IN  /\ Exists(w)
                 /\ AtMost(b, place[w])
                 /\ b.review = IF b.revision = 0 THEN Nothing ELSE place[w].log[b.revision]
                 /\ w \in d.drops => b.work.status = "ready"
  <2>1. w \in Places /\ SourceState(d)[w] = Source(w)
    BY DraftNames DEF SourceState
  <2> QED
    BY <2>1, SourceNow DEF Treatable
<1>2. Rests(p)'
  BY <1>1 DEF Rests, Exists
<1>3. There(p)' /\ ~Standing(p)'
  BY DEF There, Standing
<1>4. Moves(p)' /\ Stands(p)' /\ Watched(p)'
  BY <1>3 DEF Moves, Stands, Watched
<1> QED
  BY <1>2, <1>4 DEF Core

LEMMA ChosenIsMember == ASSUME NEW S, S # {} PROVE (CHOOSE x \in S : TRUE) \in S
  OBVIOUS

\* create and supersede: a new proposal, or an answer.
LEMMA CommitFacts ==
  ASSUME TypeOK, NEW k \in Keys, NEW d \in Drafts, NEW open \in SUBSET Keys, NEW props,
         Unused(k), \A p \in open : There(p),
         Accepts(k, d, open), Commit(k, d, open, props)
  PROVE  /\ \/ /\ receipt[k] = Nothing /\ open = {} /\ Treatable(d)
               /\ prop' = [props EXCEPT ![k] = Proposal(d)]
            \/ prop' = props
         /\ receipt' \in [Keys -> {Nothing} \cup Receipt]
         /\ receipt'[k] # Nothing
         /\ \A p \in Keys \ {k} : receipt'[p] = receipt[p]
         /\ Answer(k, d, open) \in Keys
<1>1. Answer(k, d, open) \in Keys
  <2>1. receipt[k] # Nothing => receipt[k] \in Receipt
    BY DEF TypeOK
  <2>2. receipt[k] # Nothing => receipt[k].prop \in Keys
    BY <2>1 DEF Receipt
  <2>3. open # {} => (CHOOSE p \in open : TRUE) \in open
    BY ChosenIsMember
  <2> QED
    BY <2>2, <2>3 DEF Answer
<1>2. /\ receipt \in [Keys -> {Nothing} \cup Receipt]
      /\ receipt' = IF receipt[k] = Nothing
                    THEN [receipt EXCEPT ![k] = [draft |-> d, prop |-> Answer(k, d, open)]]
                    ELSE receipt
  BY DEF TypeOK, Commit
<1>3. [draft |-> d, prop |-> Answer(k, d, open)] \in Receipt
  BY <1>1 DEF Receipt
<1>4. /\ receipt' \in [Keys -> {Nothing} \cup Receipt]
      /\ receipt'[k] # Nothing
      /\ \A p \in Keys \ {k} : receipt'[p] = receipt[p]
  BY <1>2, <1>3, NamesApart
<1>5. CASE receipt[k] # Nothing
  BY <1>1, <1>4, <1>5 DEF Commit
<1>6. CASE receipt[k] = Nothing /\ open = {}
  <2>1. Answer(k, d, open) = k /\ Treatable(d)
    BY <1>6 DEF Answer, Accepts
  <2> QED
    BY <1>1, <1>4, <1>6, <2>1 DEF Commit
<1>7. CASE receipt[k] = Nothing /\ open # {}
  <2>1. Answer(k, d, open) \in open
    BY <1>7, ChosenIsMember DEF Answer
  <2>2. ~There(k)
    BY <1>7 DEF Unused, There, NoProposal
  <2> QED
    BY <1>1, <1>4, <1>7, <2>1, <2>2 DEF Commit
<1> QED
  BY <1>5, <1>6, <1>7

-----------------------------------------------------------------------------
(* Making, revising and dropping proposals. *)

\* Nothing but proposals, receipts and what was shown or delegated changes.
Desk == /\ UNCHANGED <<place, ideas, touches>>
        /\ \A p \in Keys : Marked(p)

LEMMA DeskStep ==
  ASSUME Inv, Desk, TypeOK', \A p \in Keys : Core(p)' /\ Unused(p)',
         \A q \in Keys : (Standing(q)' <=> Standing(q)) /\ (Standing(q) => SameTerms(q))
  PROVE  Inv'
<1>1. World
  BY SameWorld DEF Inv, Desk
<1>2. (\A p \in Keys : Covers(p)') /\ ContinuedInStandingFusion'
  <2>1. \A p \in Keys : Covers(p)
    BY DEF Inv
  <2>2. \A w \in Places : place'[w].log = place[w].log
    BY DEF Desk
  <2> QED
    BY <1>1, <2>1, <2>2, HoldsStay DEF Inv
<1> QED
  BY <1>2 DEF Inv

LEMMA DeskUntouched ==
  ASSUME Inv, Desk, NEW p \in Keys, prop'[p] = prop[p], seen'[p] = seen[p], moved'[p] = moved[p]
  PROVE  Core(p)'
<1>1. World
  BY SameWorld DEF Inv, Desk
<1> QED
  BY <1>1, Untouched DEF Inv, Desk, Core, Moves

LEMMA UnmarkedDesk ==
  ASSUME TypeOK, UNCHANGED <<place, ideas, touches, moved, unseen>>
  PROVE  Desk
  BY DEF Desk, Marked

OnePending(props) ==
  \A p, q \in Keys : props[p].state = "proposed" /\ props[q].state = "proposed"
                       /\ props[p].draft.sources = props[q].draft.sources => p = q

\* One field of a proposal.
LEMMA OtherState ==
  ASSUME NEW d \in Drafts, NEW r \in Proposals(d), NEW state \in States \ {"absent"}
  PROVE  [r EXCEPT !.state = state] \in Proposals(d)
  BY DEF Proposals

LEMMA OtherVersion ==
  ASSUME NEW d \in Drafts, NEW r \in Proposals(d), NEW n \in Nat
  PROVE  [r EXCEPT !.version = n] \in Proposals(d)
  BY DEF Proposals

LEMMA OtherHand ==
  ASSUME NEW d \in Drafts, NEW r \in Proposals(d), NEW kind \in {"user", "agent"}
  PROVE  [r EXCEPT !.by = kind] \in Proposals(d)
  BY DEF Proposals

LEMMA OtherContent ==
  ASSUME NEW old \in Drafts, NEW r \in Proposals(old), NEW d \in Drafts,
         Activities(d) = Activities(old), NEW b \in [d.sources -> SourceRow],
         NEW n \in Nat, NEW m \in Nat, NEW i \in Nat
  PROVE  [r EXCEPT !.version = n, !.revision = m, !.draft = d, !.basis = b, !.idea = i]
           \in Proposals(d)
<1> DEFINE s == [r EXCEPT !.version = n, !.revision = m, !.draft = d, !.basis = b, !.idea = i]
           Fields == {"state", "version", "revision", "draft", "basis", "idea", "initial", "by"}
<1>1. r = [x \in Fields |-> r[x]]
  BY DEF Proposals
<1>2. s = [x \in Fields |-> CASE x = "version" -> n [] x = "revision" -> m [] x = "draft" -> d
                              [] x = "basis" -> b [] x = "idea" -> i [] OTHER -> r[x]]
  BY <1>1, Zenon
<1> QED
  BY <1>2 DEF Proposals

\* One row: another state, the next version.
LEMMA SteppedRow ==
  ASSUME TypeOK, NEW p \in Keys, There(p), NEW state \in States \ {"absent"}
  PROVE  LET row == [prop[p] EXCEPT !.state = state, !.version = @ + 1]
         IN  /\ row \in Proposals(prop[p].draft)
             /\ row.state = state /\ row.draft = prop[p].draft /\ row.basis = prop[p].basis
             /\ row.version = prop[p].version + 1 /\ row.revision = prop[p].revision
             /\ row.idea = prop[p].idea /\ row.initial = prop[p].initial /\ row.by = prop[p].by
<1> DEFINE d   == prop[p].draft
           row == [prop[p] EXCEPT !.state = state, !.version = @ + 1]
<1>1. prop[p] \in Proposals(d) /\ d \in Drafts
  BY ProposalRow
<1>2. DOMAIN prop[p] = {"state", "version", "revision", "draft", "basis", "idea", "initial", "by"}
  BY <1>1 DEF Proposals
<1>3. /\ row.state = state /\ row.draft = d /\ row.basis = prop[p].basis
      /\ row.version = prop[p].version + 1 /\ row.revision = prop[p].revision
      /\ row.idea = prop[p].idea /\ row.initial = prop[p].initial /\ row.by = prop[p].by
  BY <1>2
<1>4. prop[p].version + 1 \in Nat
  BY <1>1 DEF Proposals
<1>5. row \in Proposals(d)
  BY <1>1, <1>4, OtherState, OtherVersion
<1> QED
  BY <1>3, <1>5

LEMMA ShowStep ==
  ASSUME Inv, NEW p \in Keys, Show(p)
  PROVE  Inv'
<1> USE DEF Inv
<1>1. Standing(p) /\ There(p) /\ prop[p].draft \in Drafts
  BY ProposalRow DEF Show, Standing, There
<1>2. DOMAIN seen = Keys /\ DOMAIN unseen = Keys
  BY DEF TypeOK
<1>3. /\ seen'[p] = Activity(p) /\ unseen'[p] = FALSE
      /\ \A q \in Keys \ {p} : seen'[q] = seen[q] /\ unseen'[q] = unseen[q]
      /\ UNCHANGED <<place, ideas, prop, receipt, deleg, moved, touches>>
  BY <1>2 DEF Show
<1>4. Activity(p) \in Activities(prop[p].draft) /\ NoLater(Activity(p), prop[p].draft, place)
  BY <1>1, ActivityNow
<1>5. Desk
  BY <1>3 DEF Desk, Marked
<1>6. TypeOK'
  <2>1. DOMAIN seen' = Keys /\ unseen' \in [Keys -> BOOLEAN]
    BY <1>2, <1>3 DEF TypeOK, Show
  <2>2. \A q \in Keys : seen'[q] # Nothing =>
           prop'[q].draft \in Drafts /\ seen'[q] \in Activities(prop'[q].draft)
    BY <1>1, <1>3, <1>4 DEF TypeOK
  <2> QED
    BY <1>3, <2>1, <2>2 DEF TypeOK
<1>7. \A q \in Keys \ {p} : Core(q)'
  BY <1>3, <1>5, DeskUntouched
<1>8. Core(p)'
  <2>1. Watched(p)'
    <3>1. prop[p].initial # Nothing /\ NoLater(prop[p].initial, prop[p].draft, place)
      BY <1>1 DEF Watched, Core
    <3>2. \A a \in {prop[p].initial, Activity(p)} \ {Nothing} : NoLater(a, prop[p].draft, place)
      BY <1>4, <3>1
    <3>3. prop'[p] = prop[p] /\ place' = place /\ seen'[p] = Activity(p) /\ ~unseen'[p]
      BY <1>3
    <3>4. prop'[p].state \in {"applied", "reversed"} /\ prop'[p].initial # Nothing
      BY <1>1, <3>1, <3>3 DEF Standing
    <3>5. \A a \in {prop'[p].initial, seen'[p]} \ {Nothing} :
             NoLater(a, prop'[p].draft, place')
      BY <3>2, <3>3
    <3> QED
      BY <3>3, <3>4, <3>5 DEF Watched
  <2>2. Rests(p)' /\ Moves(p)' /\ Stands(p)'
    <3>1. Rests(p) /\ Moves(p) /\ Stands(p)
      BY DEF Core
    <3> QED
      BY <1>3, <3>1 DEF Rests, Moves, Stands, There, Standing, Exists
  <2> QED
    BY <2>1, <2>2 DEF Core
<1>9. \A q \in Keys : Unused(q)'
  BY <1>3 DEF Unused
<1>10. \A q \in Keys : (Standing(q)' <=> Standing(q)) /\ SameTerms(q)
  BY <1>3 DEF Standing, SameTerms
<1> QED
  BY <1>5, <1>6, <1>7, <1>8, <1>9, <1>10, DeskStep

LEMMA DelegateStep ==
  ASSUME Inv, NEW p \in Keys, NEW action \in Delegable, Delegate(p, action)
  PROVE  Inv'
<1> DEFINE new == [prop |-> p, revision |-> prop[p].revision, action |-> action]
<1>1. /\ deleg' = deleg \cup {new}
      /\ UNCHANGED <<place, ideas, prop, receipt, seen, moved, unseen, touches>>
  BY DEF Delegate
<1>2. There(p)
  BY DEF Delegate, There
<1>3. prop[p].revision \in Nat
  BY <1>2, ProposalRow DEF Inv, Proposals
<1>4. new \in Delegation
  BY <1>3, NamesApart DEF Delegation
<1>5. TypeOK'
  BY <1>1, <1>4 DEF Inv, TypeOK
<1>6. Desk
  BY <1>1, UnmarkedDesk DEF Inv
<1>7. \A q \in Keys : Core(q)' /\ Unused(q)'
  BY <1>1, <1>6, DeskUntouched DEF Inv, Unused
<1>8. \A q \in Keys : (Standing(q)' <=> Standing(q)) /\ SameTerms(q)
  BY <1>1 DEF Standing, SameTerms
<1> QED
  BY <1>5, <1>6, <1>7, <1>8, DeskStep

\* Whoever resolves.
LEMMA ResolvedRow ==
  ASSUME TypeOK, NEW p \in Keys, There(p), NEW state \in States \ {"absent"},
         NEW kind \in {"user", "agent"}
  PROVE  LET row == Resolved(p, state, kind)
         IN  /\ row \in Proposals(prop[p].draft)
             /\ row.state = state /\ row.draft = prop[p].draft /\ row.basis = prop[p].basis
             /\ row.version = prop[p].version + 1 /\ row.revision = prop[p].revision
             /\ row.idea = prop[p].idea /\ row.initial = prop[p].initial
<1> DEFINE d == prop[p].draft
<1>1. prop[p] \in Proposals(d) /\ d \in Drafts
  BY ProposalRow
<1>2. DOMAIN prop[p] = {"state", "version", "revision", "draft", "basis", "idea", "initial", "by"}
  BY <1>1 DEF Proposals
<1>3. LET row == Resolved(p, state, kind)
      IN  /\ row.state = state /\ row.draft = d /\ row.basis = prop[p].basis
          /\ row.version = prop[p].version + 1 /\ row.revision = prop[p].revision
          /\ row.idea = prop[p].idea /\ row.initial = prop[p].initial
  BY <1>2 DEF Resolved
<1>4. prop[p].version + 1 \in Nat
  BY <1>1 DEF Proposals
<1>5. [[prop[p] EXCEPT !.state = state] EXCEPT !.version = prop[p].version + 1] \in Proposals(d)
  BY <1>1, <1>4, OtherState, OtherVersion
<1>6. Resolved(p, state, kind) \in Proposals(d)
  BY <1>1, <1>5, OtherHand DEF Resolved
<1> QED
  BY <1>3, <1>6

\* Proposals that wait for a decision end, or the first one over its sources is made.
LEMMA DealtStep ==
  ASSUME Inv, UNCHANGED <<place, ideas, seen, deleg, moved, unseen, touches>>,
         receipt' \in [Keys -> {Nothing} \cup Receipt],
         \A q \in Keys : receipt[q] # Nothing => receipt'[q] # Nothing,
         NEW ended \in SUBSET Keys, NEW made \in SUBSET Keys, NEW d \in Drafts,
         DOMAIN prop' = Keys,
         \A q \in Keys : q \notin ended /\ q \notin made => prop'[q] = prop[q],
         \A q \in ended :
           /\ prop[q].state = "proposed" /\ prop'[q] \in Proposals(prop[q].draft)
           /\ prop'[q].state \in {"superseded", "rejected"} /\ prop'[q].basis = prop[q].basis,
         \A q \in made :
           /\ q \notin ended /\ receipt[q] = Nothing /\ receipt'[q] # Nothing
           /\ Treatable(d) /\ prop'[q] = Proposal(d)
           /\ \A r \in made : r = q
           /\ \A r \in Keys : prop[r].state = "proposed" /\ prop[r].draft.sources = d.sources
                              => r \in ended
  PROVE  Inv'
<1>1. TypeOK /\ Desk /\ World
  BY UnmarkedDesk, SameWorld DEF Inv
<1>2. ASSUME NEW q \in ended
      PROVE  /\ There(q) /\ prop[q].draft \in Drafts /\ prop'[q].draft = prop[q].draft
             /\ receipt[q] # Nothing
  BY <1>1, <1>2, ProposalRow DEF Inv, There, Unused, NoProposal, Proposals
<1>3. ASSUME NEW q \in made
      PROVE  /\ prop[q] = NoProposal /\ seen[q] = Nothing /\ moved[q] = {}
             /\ prop'[q] \in Proposals(d) /\ prop'[q].state = "proposed"
             /\ prop'[q].draft = d /\ prop'[q].basis = SourceState(d)
  <2>1. prop[q] = NoProposal
    BY <1>3 DEF Inv, Unused
  <2>2. seen[q] = Nothing /\ moved[q] = {}
    BY <2>1 DEF Inv, Core, Watched, Moves, There, NoProposal
  <2> QED
    BY <1>1, <1>3, <2>1, <2>2, NewProposal
<1>4. TypeOK'
  <2>1. \A q \in Keys : prop'[q] = NoProposal \/ \E e \in Drafts : prop'[q] \in Proposals(e)
    <3> TAKE q \in Keys
    <3>1. CASE q \in ended
      BY <1>2, <3>1
    <3>2. CASE q \in made
      BY <1>3, <3>2
    <3>3. CASE q \notin ended /\ q \notin made
      BY <1>1, <3>3 DEF TypeOK
    <3> QED
      BY <3>1, <3>2, <3>3
  <2>2. \A q \in Keys : seen'[q] # Nothing =>
           prop'[q].draft \in Drafts /\ seen'[q] \in Activities(prop'[q].draft)
    <3> SUFFICES ASSUME NEW q \in Keys, seen[q] # Nothing
                 PROVE  prop'[q].draft = prop[q].draft
      BY <1>1 DEF TypeOK
    <3> QED
      BY <1>2, <1>3
  <2>3. OnePending(prop')
    <3> SUFFICES ASSUME NEW q \in Keys, NEW r \in Keys,
                        prop'[q].state = "proposed", prop'[r].state = "proposed",
                        prop'[q].draft.sources = prop'[r].draft.sources
                 PROVE  q = r
      BY DEF OnePending
    <3>1. q \notin ended /\ r \notin ended
      OBVIOUS
    <3>2. CASE q \notin made /\ r \notin made
      BY <1>1, <3>1, <3>2 DEF TypeOK
    <3>3. CASE q \in made /\ r \notin made
      BY <1>3, <3>1, <3>3
    <3>4. CASE q \notin made /\ r \in made
      BY <1>3, <3>1, <3>4
    <3> QED
      BY <3>2, <3>3, <3>4
  <2> QED
    BY <1>1, <2>1, <2>2, <2>3 DEF TypeOK, OnePending
<1>5. ASSUME NEW q \in Keys PROVE Core(q)'
  <2>1. CASE q \in ended
    <3>1. Core(q) /\ Marked(q) /\ SameTerms(q)
      BY <1>1, <1>2, <2>1 DEF Inv, Desk, SameTerms
    <3> QED
      BY <1>1, <1>2, <2>1, <3>1, Ending
  <2>2. CASE q \in made
    BY <1>1, <1>3, <2>2, Fresh
  <2>3. CASE q \notin ended /\ q \notin made
    BY <1>1, <2>3, DeskUntouched
  <2> QED
    BY <2>1, <2>2, <2>3
<1>6. \A q \in Keys : Unused(q)'
  <2> SUFFICES ASSUME NEW q \in Keys, receipt'[q] = Nothing
               PROVE  prop'[q] = NoProposal
    BY DEF Unused
  <2> QED
    BY <1>2 DEF Inv, Unused
<1>7. \A q \in Keys : (Standing(q)' <=> Standing(q)) /\ (Standing(q) => SameTerms(q))
  <2> TAKE q \in Keys
  <2>1. CASE q \in ended
    BY <2>1 DEF Standing
  <2>2. CASE q \in made
    BY <1>3, <2>2 DEF Standing, NoProposal
  <2>3. CASE q \notin ended /\ q \notin made
    BY <2>3 DEF Standing, SameTerms
  <2> QED
    BY <2>1, <2>2, <2>3
<1> QED
  BY <1>1, <1>4, <1>5, <1>6, <1>7, DeskStep

LEMMA RejectStep ==
  ASSUME Inv, NEW p \in Keys, NEW kind \in {"user", "agent"}, Reject(p, kind)
  PROVE  Inv'
<1>1. There(p) /\ prop[p].state = "proposed" /\ receipt[p] # Nothing
  BY DEF Inv, Reject, There, Unused, NoProposal
<1>2. /\ Resolved(p, "rejected", kind) \in Proposals(prop[p].draft)
      /\ Resolved(p, "rejected", kind).state = "rejected"
      /\ Resolved(p, "rejected", kind).basis = prop[p].basis
  BY <1>1, ResolvedRow DEF Inv, States
<1>3. /\ DOMAIN prop' = Keys /\ prop'[p] = Resolved(p, "rejected", kind)
      /\ \A q \in Keys \ {p} : prop'[q] = prop[q]
      /\ UNCHANGED <<place, ideas, receipt, seen, deleg, moved, unseen, touches>>
  BY DEF Inv, TypeOK, Reject
<1>4. receipt \in [Keys -> {Nothing} \cup Receipt] /\ prop[p].draft \in Drafts
  BY <1>1, ProposalRow DEF Inv, TypeOK
<1> DEFINE ended == {p}
           made  == {}
<1>5. ended \in SUBSET Keys /\ made \in SUBSET Keys
  OBVIOUS
<1>6. /\ \A q \in Keys : q \notin ended /\ q \notin made => prop'[q] = prop[q]
      /\ \A q \in ended :
           /\ prop[q].state = "proposed" /\ prop'[q] \in Proposals(prop[q].draft)
           /\ prop'[q].state \in {"superseded", "rejected"} /\ prop'[q].basis = prop[q].basis
      /\ \A q \in made : FALSE
  BY <1>1, <1>2, <1>3
<1> HIDE DEF ended, made
<1> QED
  BY <1>3, <1>4, <1>5, <1>6, DealtStep

LEMMA ReviseStep ==
  ASSUME Inv, NEW p \in Keys, NEW d \in Drafts, Revise(p, d)
  PROVE  Inv'
<1> DEFINE row == [prop[p] EXCEPT !.version = @ + 1, !.revision = @ + 1, !.draft = d,
                                  !.basis = SourceState(d), !.idea = ideas + 1]
           old == prop[p].draft
<1>1. /\ TypeOK /\ There(p) /\ prop[p].state = "proposed" /\ receipt[p] # Nothing
      /\ old \in Drafts /\ prop[p] \in Proposals(old)
      /\ d.sources = old.sources /\ Treatable(d)
  BY ProposalRow DEF Inv, Revise, There, Unused, NoProposal
<1>2. DOMAIN prop = Keys /\ DOMAIN moved = Keys
  BY <1>1 DEF TypeOK
<1>3. /\ DOMAIN prop' = Keys /\ prop'[p] = row
      /\ \A q \in Keys \ {p} : prop'[q] = prop[q]
  BY <1>2 DEF Revise
<1>4. /\ moved'[p] = {} /\ (\A q \in Keys \ {p} : moved'[q] = moved[q])
      /\ moved' \in [Keys -> SUBSET Places]
      /\ UNCHANGED <<place, ideas, receipt, seen, deleg, unseen, touches>>
  BY <1>1 DEF Revise, TypeOK
<1>5. /\ DOMAIN prop[p] = {"state", "version", "revision", "draft", "basis", "idea", "initial", "by"}
      /\ prop[p].version + 1 \in Nat /\ prop[p].revision + 1 \in Nat /\ ideas + 1 \in Nat
      /\ prop[p].initial \in {Nothing} \cup Activities(old)
      /\ prop[p].by \in {"user", "agent", Nothing}
  BY <1>1 DEF Proposals, TypeOK
<1>6. /\ row.state = "proposed" /\ row.draft = d /\ row.basis = SourceState(d)
      /\ row.initial = prop[p].initial
  BY <1>1, <1>5
<1>7. row \in Proposals(d)
  <2>1. Activities(d) = Activities(old)
    BY <1>1 DEF Activities
  <2> QED
    BY <1>1, <1>5, <2>1, SourceStateNow, OtherContent
<1>8. seen[p] = Nothing
  BY <1>1 DEF Inv, Core, Watched
<1>9. TypeOK'
  <2>1. \A q \in Keys : prop'[q] = NoProposal \/ \E e \in Drafts : prop'[q] \in Proposals(e)
    <3>1. \E e \in Drafts : prop'[p] \in Proposals(e)
      BY <1>3, <1>7
    <3>2. \A q \in Keys \ {p} : prop'[q] = NoProposal \/ \E e \in Drafts : prop'[q] \in Proposals(e)
      BY <1>1, <1>3 DEF TypeOK
    <3> QED
      BY <3>1, <3>2
  <2>2. \A q \in Keys : seen'[q] # Nothing =>
           prop'[q].draft \in Drafts /\ seen'[q] \in Activities(prop'[q].draft)
    BY <1>1, <1>3, <1>4, <1>8 DEF TypeOK
  <2>3. OnePending(prop')
    <3>1. prop'[p].state = prop[p].state /\ prop'[p].draft.sources = prop[p].draft.sources
      BY <1>1, <1>3, <1>6
    <3>2. \A q \in Keys : /\ prop'[q].state = prop[q].state
                          /\ prop'[q].draft.sources = prop[q].draft.sources
      BY <1>3, <3>1
    <3> QED
      BY <1>1, <3>2 DEF TypeOK, OnePending
  <2> QED
    BY <1>1, <1>3, <1>4, <2>1, <2>2, <2>3 DEF TypeOK, OnePending
<1>10. Desk
  BY <1>4 DEF Desk, Marked
<1>11. Core(p)'
  BY <1>1, <1>3, <1>4, <1>6, <1>8, Fresh
<1>12. \A q \in Keys \ {p} : Core(q)'
  BY <1>3, <1>4, <1>10, DeskUntouched
<1>13. \A q \in Keys : Unused(q)'
  BY <1>1, <1>3, <1>4 DEF Inv, Unused
<1>14. \A q \in Keys : (Standing(q)' <=> Standing(q)) /\ (Standing(q) => SameTerms(q))
  BY <1>1, <1>3, <1>6 DEF Standing, SameTerms
<1> QED
  BY <1>9, <1>10, <1>11, <1>12, <1>13, <1>14, DeskStep

LEMMA CreateStep ==
  ASSUME Inv, NEW k \in Keys, NEW d \in Drafts, Create(k, d)
  PROVE  Inv'
<1> DEFINE open  == Pending(d.sources)
           ended == {}
           made  == {k}
<1>1. /\ TypeOK /\ receipt[k] = Nothing /\ Unused(k) /\ Accepts(k, d, open)
      /\ Commit(k, d, open, prop) /\ open \in SUBSET Keys
      /\ \A p \in open : There(p)
  BY DEF Inv, Create, Pending, There
<1>2. /\ \/ open = {} /\ Treatable(d) /\ prop' = [prop EXCEPT ![k] = Proposal(d)]
         \/ prop' = prop
      /\ receipt' \in [Keys -> {Nothing} \cup Receipt]
      /\ receipt'[k] # Nothing
      /\ \A p \in Keys \ {k} : receipt'[p] = receipt[p]
  BY <1>1, CommitFacts
<1>3. UNCHANGED <<place, ideas, seen, deleg, moved, unseen, touches>>
  BY <1>1 DEF Commit
<1>4. DOMAIN prop' = Keys
  BY <1>1, <1>2 DEF TypeOK
<1>5. /\ \A q \in Keys : receipt[q] # Nothing => receipt'[q] # Nothing
      /\ receipt' \in [Keys -> {Nothing} \cup Receipt]
  BY <1>2
<1>6. /\ ended \in SUBSET Keys /\ made \in SUBSET Keys
      /\ \A q \in ended : FALSE
  OBVIOUS
<1>7. CASE prop' = prop
  <2> DEFINE none == {}
  <2>1. none \in SUBSET Keys /\ (\A q \in none : FALSE)
    OBVIOUS
  <2> HIDE DEF none
  <2> QED
    BY <1>2, <1>3, <1>4, <1>5, <1>7, <2>1, DealtStep
<1>8. CASE open = {} /\ Treatable(d) /\ prop' = [prop EXCEPT ![k] = Proposal(d)]
  <2>1. \A q \in made :
           /\ q \notin ended /\ receipt[q] = Nothing /\ receipt'[q] # Nothing
           /\ Treatable(d) /\ prop'[q] = Proposal(d)
           /\ \A r \in made : r = q
           /\ \A r \in Keys : prop[r].state = "proposed" /\ prop[r].draft.sources = d.sources
                              => r \in ended
    BY <1>1, <1>2, <1>8 DEF TypeOK, Pending
  <2>2. \A q \in Keys : q \notin ended /\ q \notin made => prop'[q] = prop[q]
    BY <1>1, <1>8 DEF TypeOK
  <2> HIDE DEF ended, made, open
  <2> QED
    BY <1>3, <1>4, <1>5, <1>8, <1>6, <2>1, <2>2, DealtStep
<1> QED
  BY <1>2, <1>7, <1>8

LEMMA SupersedeStep ==
  ASSUME Inv, NEW p \in Keys, NEW k \in Keys, NEW d \in Drafts, Supersede(p, k, d)
  PROVE  Inv'
<1> DEFINE open  == Pending(d.sources) \ {p}
           row   == [prop[p] EXCEPT !.state = "superseded", !.version = @ + 1]
           props == [prop EXCEPT ![p].state = "superseded", ![p].version = @ + 1]
           ended == {p}
           made  == {k}
           none  == {}
<1>1. /\ TypeOK /\ Unused(k) /\ Accepts(k, d, open) /\ Commit(k, d, open, props)
      /\ open \in SUBSET Keys /\ \A q \in open : There(q)
      /\ prop[p].state = "proposed" /\ d.sources = prop[p].draft.sources
  BY DEF Inv, Supersede, Pending, There
<1>2. There(p) /\ receipt[p] # Nothing /\ prop[p].draft \in Drafts
  BY <1>1, ProposalRow DEF Inv, There, Unused, NoProposal
<1>3. row \in Proposals(prop[p].draft) /\ row.state = "superseded" /\ row.basis = prop[p].basis
  BY <1>1, <1>2, SteppedRow DEF States
<1>4. /\ DOMAIN props = Keys /\ props[p] = row /\ \A q \in Keys \ {p} : props[q] = prop[q]
  BY <1>1 DEF TypeOK
<1>5. /\ \/ /\ receipt[k] = Nothing /\ open = {} /\ Treatable(d)
            /\ prop' = [props EXCEPT ![k] = Proposal(d)]
         \/ prop' = props
      /\ receipt' \in [Keys -> {Nothing} \cup Receipt]
      /\ receipt'[k] # Nothing
      /\ \A q \in Keys \ {k} : receipt'[q] = receipt[q]
  <2> HIDE DEF open, props
  <2> QED
    BY <1>1, CommitFacts
<1>6. UNCHANGED <<place, ideas, seen, deleg, moved, unseen, touches>>
  BY <1>1 DEF Commit
<1>7. /\ ended \in SUBSET Keys /\ made \in SUBSET Keys /\ none \in SUBSET Keys
      /\ \A q \in none : FALSE
  OBVIOUS
<1>8. \A q \in Keys : receipt[q] # Nothing => receipt'[q] # Nothing
  BY <1>5
<1> HIDE DEF row, props
<1>9. CASE prop' = props
  <2>1. /\ DOMAIN prop' = Keys
        /\ \A q \in Keys : q \notin ended /\ q \notin none => prop'[q] = prop[q]
        /\ \A q \in ended :
             /\ prop[q].state = "proposed" /\ prop'[q] \in Proposals(prop[q].draft)
             /\ prop'[q].state \in {"superseded", "rejected"} /\ prop'[q].basis = prop[q].basis
    BY <1>1, <1>3, <1>4, <1>9
  <2> HIDE DEF ended, none
  <2> QED
    BY <1>5, <1>6, <1>7, <1>8, <2>1, DealtStep
<1>10. CASE /\ receipt[k] = Nothing /\ open = {} /\ Treatable(d)
            /\ prop' = [props EXCEPT ![k] = Proposal(d)]
  <2>1. p # k /\ DOMAIN prop' = Keys /\ prop'[k] = Proposal(d)
        /\ \A q \in Keys \ {k} : prop'[q] = props[q]
    BY <1>2, <1>4, <1>10
  <2>2. /\ \A q \in Keys : q \notin ended /\ q \notin made => prop'[q] = prop[q]
        /\ \A q \in ended :
             /\ prop[q].state = "proposed" /\ prop'[q] \in Proposals(prop[q].draft)
             /\ prop'[q].state \in {"superseded", "rejected"} /\ prop'[q].basis = prop[q].basis
    BY <1>1, <1>3, <1>4, <2>1
  <2>3. \A r \in Keys : prop[r].state = "proposed" /\ prop[r].draft.sources = d.sources => r = p
    BY <1>10 DEF Pending
  <2>4. \A q \in made :
           /\ q \notin ended /\ receipt[q] = Nothing /\ receipt'[q] # Nothing
           /\ Treatable(d) /\ prop'[q] = Proposal(d)
           /\ \A r \in made : r = q
           /\ \A r \in Keys : prop[r].state = "proposed" /\ prop[r].draft.sources = d.sources
                              => r \in ended
    BY <1>5, <1>10, <2>1, <2>3
  <2> HIDE DEF ended, made
  <2> QED
    BY <1>5, <1>6, <1>7, <1>8, <2>1, <2>2, <2>4, DealtStep
<1> QED
  BY <1>5, <1>9, <1>10

-----------------------------------------------------------------------------
(* What others do. *)

\* A row that only counts one thing further.
LEMMA EditedRow ==
  ASSUME NEW r \in Workspace
  PROVE  LET s == [r EXCEPT !.defn = @ + 1]
         IN  s \in Workspace /\ Grown(r, s) /\ Advanced(r, s) /\ s.log = r.log
<1> DEFINE s == [r EXCEPT !.defn = @ + 1]
<1>1. r.defn \in Nat /\ r.defn + 1 \in Nat /\ r.defn <= r.defn + 1 /\ r.defn < r.defn + 1
  BY WorkspaceRow
<1>2. s \in Workspace
  BY <1>1 DEF Workspace
<1>3. /\ s.born = r.born /\ s.defn = r.defn + 1 /\ s.answer = r.answer /\ s.log = r.log
      /\ s.work = r.work
  BY DEF Workspace
<1>4. Grown(r, r)
  BY SameIsGrown
<1>5. Grown(r, s)
  BY <1>1, <1>3, <1>4 DEF Grown
<1> QED
  BY <1>1, <1>2, <1>3, <1>5 DEF Advanced

LEMMA AnsweredRow ==
  ASSUME NEW r \in Workspace
  PROVE  LET s == [r EXCEPT !.answer = @ + 1]
         IN  s \in Workspace /\ Grown(r, s) /\ Stirred(r, s) /\ s.log = r.log
<1> DEFINE s == [r EXCEPT !.answer = @ + 1]
<1>1. /\ r.answer \in Nat /\ r.answer + 1 \in Nat
      /\ r.answer <= r.answer + 1 /\ r.answer < r.answer + 1
  BY WorkspaceRow
<1>2. s \in Workspace
  BY <1>1 DEF Workspace
<1>3. /\ s.born = r.born /\ s.defn = r.defn /\ s.answer = r.answer + 1 /\ s.log = r.log
      /\ s.work = r.work
  BY DEF Workspace
<1>4. Grown(r, r)
  BY SameIsGrown
<1>5. Grown(r, s)
  BY <1>1, <1>3, <1>4 DEF Grown
<1> QED
  BY <1>1, <1>2, <1>3, <1>5 DEF Stirred

LEMMA WorkedRow ==
  ASSUME NEW r \in Workspace, NEW status \in Status
  PROVE  LET s == [r EXCEPT !.work = Worked(r.work, status)]
         IN  /\ s \in Workspace /\ Grown(r, s) /\ Stirred(r, s)
             /\ s.log = r.log /\ s.born = r.born /\ s.defn = r.defn /\ s.answer = r.answer
             /\ s.work.status = status /\ s.work.version = r.work.version + 1
<1> DEFINE s == [r EXCEPT !.work = Worked(r.work, status)]
           n == r.work.version
<1>1. n \in Nat /\ n + 1 \in Nat /\ n <= n + 1 /\ n < n + 1
  BY WorkspaceRow
<1>2. Worked(r.work, status) \in WorkRow
  BY <1>1 DEF Worked, WorkRow
<1>3. s \in Workspace
  BY <1>2 DEF Workspace
<1>4. /\ s.born = r.born /\ s.defn = r.defn /\ s.answer = r.answer /\ s.log = r.log
      /\ s.work = Worked(r.work, status)
  BY DEF Workspace
<1>5. s.work.status = status /\ s.work.version = n + 1
  BY <1>4 DEF Worked
<1>6. Grown(r, r)
  BY SameIsGrown
<1>7. Grown(r, s)
  BY <1>1, <1>4, <1>5, <1>6 DEF Grown
<1>8. Stirred(r, s)
  BY <1>1, <1>5 DEF Stirred
<1> QED
  BY <1>3, <1>4, <1>5, <1>7, <1>8

LEMMA ReviewedGrown ==
  ASSUME TypeOK, NEW w \in Places, NEW review \in Review
  PROVE  Grown(place[w], Reviewed(w, review)) /\ Stirred(place[w], Reviewed(w, review))
<1> DEFINE r == place[w]
           s == Reviewed(w, review)
<1>1. r \in Workspace /\ Len(r.log) \in Nat /\ Grown(r, r)
  BY PlacesTyped, PlaceRow, SameIsGrown
<1>2. /\ s.born = r.born /\ s.defn = r.defn /\ s.answer = r.answer /\ s.work = r.work
      /\ Len(s.log) = Len(r.log) + 1
      /\ \A i \in 1..Len(r.log) : s.log[i] = r.log[i]
  BY ReviewedRow
<1>3. Len(r.log) <= Len(s.log) /\ Len(r.log) < Len(s.log)
  BY <1>1, <1>2
<1>4. /\ s.born = r.born /\ r.defn <= s.defn /\ r.answer <= s.answer
      /\ r.work.version <= s.work.version
  BY <1>1, <1>2 DEF Grown
<1> QED
  BY <1>2, <1>3, <1>4 DEF Grown, Stirred

\* No step of others makes, ends or revises a proposal.
LEMMA OthersStep ==
  ASSUME Inv, World, TypeOK', UNCHANGED <<prop, receipt, seen>>,
         \A p \in Keys : Marked(p) /\ (~There(p) => moved'[p] = {}),
         \A w \in Places : \/ place'[w].log = place[w].log
                           \/ place'[w].log = <<>>
                           \/ Latest(place'[w].log).next \notin Ventures
  PROVE  Inv'
<1>1. \A p \in Keys : Core(p)'
  BY Untouched DEF Inv
<1>2. \A q \in Keys : (Standing(q)' <=> Standing(q)) /\ SameTerms(q)
  BY DEF Standing, SameTerms
<1>3. (\A p \in Keys : Covers(p)') /\ ContinuedInStandingFusion'
  <2>1. \A p \in Keys : Covers(p)
    BY DEF Inv
  <2> QED
    BY <1>2, <2>1, HoldsStay DEF Inv
<1>4. \A p \in Keys : Unused(p)'
  BY DEF Inv, Unused
<1> QED
  BY <1>1, <1>3, <1>4 DEF Inv

LEMMA TouchStep ==
  ASSUME Inv, NEW w \in Places, NEW new \in Workspace, Touch(w, new), Grown(place[w], new),
         new.log = place[w].log \/ Latest(new.log).next \notin Ventures,
         moved' \in [Keys -> SUBSET Places], unseen' \in [Keys -> BOOLEAN],
         \A p \in Keys : Marked(p) /\ (~There(p) => moved'[p] = {})
  PROVE  Inv'
<1>1. /\ place \in [Places -> Workspace] /\ place' = [place EXCEPT ![w] = new]
      /\ UNCHANGED <<ideas, prop, receipt, seen, deleg>>
      /\ touches' = touches + 1
  BY PlacesTyped DEF Inv, Touch
<1>2. place' \in [Places -> Workspace] /\ place'[w] = new
      /\ \A x \in Places \ {w} : place'[x] = place[x]
  BY <1>1
<1>3. TypeOK'
  <2>1. touches + 1 \in Nat
    BY DEF Inv, TypeOK
  <2> QED
    BY <1>1, <1>2, <2>1 DEF Inv, TypeOK
<1>4. \A x \in Places : Grown(place[x], place'[x])
  BY <1>1, <1>2, SameIsGrown
<1>5. World
  BY <1>2, <1>4 DEF World
<1> QED
  BY <1>1, <1>2, <1>3, <1>5, OthersStep

\* What Noticed notes is so when the row was stirred.
LEMMA NoticedOne ==
  ASSUME Inv, NEW w \in Places, Noticed({w}), Stirred(place[w], place'[w])
  PROVE  /\ moved' \in [Keys -> SUBSET Places] /\ unseen' \in [Keys -> BOOLEAN]
         /\ \A p \in Keys : Marked(p) /\ (~There(p) => moved'[p] = {})
<1>1. moved \in [Keys -> SUBSET Places] /\ unseen \in [Keys -> BOOLEAN]
  BY DEF Inv, TypeOK
<1>2. /\ moved' \in [Keys -> SUBSET Places]
      /\ \A p \in Keys : moved'[p] = moved[p] \cup {x \in {w} : Uses(p, x)}
  BY <1>1 DEF Noticed
<1>3. /\ unseen' \in [Keys -> BOOLEAN]
      /\ \A p \in Keys : unseen'[p] <=> unseen[p] \/ Uses(p, w) \/ Made(p, w)
  BY <1>1 DEF Noticed
<1>4. ASSUME NEW p \in Keys PROVE Marked(p) /\ (~There(p) => moved'[p] = {})
  <2>1. Advanced(place[w], place'[w])
    BY DEF Advanced
  <2>2. Marked(p)
    BY <1>2, <1>3, <2>1 DEF Marked
  <2>3. ~There(p) => moved[p] = {} /\ ~Uses(p, w)
    BY DEF Inv, Core, Moves, Uses, There
  <2> QED
    BY <1>2, <2>2, <2>3
<1> QED
  BY <1>2, <1>3, <1>4

LEMMA RedefineStep ==
  ASSUME Inv, NEW w \in Places, Redefine(w)
  PROVE  Inv'
<1> DEFINE new == [place[w] EXCEPT !.defn = @ + 1]
<1>1. /\ place[w] \in Workspace /\ moved \in [Keys -> SUBSET Places]
      /\ unseen \in [Keys -> BOOLEAN] /\ place \in [Places -> Workspace]
  BY PlacesTyped, PlaceRow DEF Inv, TypeOK
<1>2. new \in Workspace /\ Grown(place[w], new) /\ Advanced(place[w], new) /\ new.log = place[w].log
  BY <1>1, EditedRow
<1>3. Touch(w, new)
  BY DEF Redefine
<1>4. place'[w] = new
  BY <1>1, <1>3 DEF Touch
<1> HIDE DEF new
<1>5. /\ moved' \in [Keys -> SUBSET Places]
      /\ \A p \in Keys : moved'[p] = moved[p] \cup {x \in {w} : Uses(p, x)}
  BY <1>1 DEF Redefine
<1>6. /\ unseen' \in [Keys -> BOOLEAN]
      /\ \A p \in Keys : unseen'[p] <=> unseen[p] \/ Made(p, w)
  BY <1>1 DEF Redefine
<1>7. ASSUME NEW p \in Keys PROVE Marked(p) /\ (~There(p) => moved'[p] = {})
  <2>1. Marked(p)
    BY <1>2, <1>4, <1>5, <1>6 DEF Marked
  <2>2. ~There(p) => moved[p] = {} /\ ~Uses(p, w)
    BY DEF Inv, Core, Moves, Uses, There
  <2> QED
    BY <1>5, <2>1, <2>2
<1> QED
  BY <1>2, <1>3, <1>5, <1>6, <1>7, TouchStep

LEMMA AnswerStep ==
  ASSUME Inv, NEW w \in Places, AnswerRequest(w)
  PROVE  Inv'
<1> DEFINE new == [place[w] EXCEPT !.answer = @ + 1]
<1>1. place[w] \in Workspace /\ place \in [Places -> Workspace]
  BY PlacesTyped, PlaceRow DEF Inv
<1>2. new \in Workspace /\ Grown(place[w], new) /\ Stirred(place[w], new) /\ new.log = place[w].log
  BY <1>1, AnsweredRow
<1>3. Touch(w, new) /\ Noticed({w}) /\ place'[w] = new
  BY <1>1 DEF AnswerRequest, Touch
<1> HIDE DEF new
<1> QED
  BY <1>2, <1>3, NoticedOne, TouchStep

LEMMA DecideStep ==
  ASSUME Inv, NEW w \in Places, Decide(w, Hold(Own))
  PROVE  Inv'
<1> DEFINE new == Reviewed(w, Hold(Own))
<1>1. TypeOK /\ place \in [Places -> Workspace] /\ Hold(Own) \in Review /\ Own \notin Ventures
  BY PlacesTyped, NamesApart DEF Inv, Hold, Review
<1>2. /\ new \in Workspace /\ Grown(place[w], new) /\ Stirred(place[w], new)
      /\ Latest(new.log) = Hold(Own)
  BY <1>1, ReviewedRow, ReviewedGrown
<1>3. Latest(new.log).next \notin Ventures
  BY <1>1, <1>2 DEF Hold
<1>4. Touch(w, new) /\ Noticed({w}) /\ place'[w] = new
  BY <1>1 DEF Decide, Touch
<1> HIDE DEF new
<1> QED
  BY <1>2, <1>3, <1>4, NoticedOne, TouchStep

LEMMA WorkStep ==
  ASSUME Inv, NEW w \in Places, NEW status \in Status,
         Touch(w, [place[w] EXCEPT !.work = Worked(@, status)]), Noticed({w})
  PROVE  Inv'
<1> DEFINE new == [place[w] EXCEPT !.work = Worked(@, status)]
<1>1. place[w] \in Workspace /\ place \in [Places -> Workspace]
  BY PlacesTyped, PlaceRow DEF Inv
<1>2. new \in Workspace /\ Grown(place[w], new) /\ Stirred(place[w], new) /\ new.log = place[w].log
  BY <1>1, WorkedRow
<1>3. Touch(w, new) /\ Noticed({w}) /\ place'[w] = new
  BY <1>1 DEF Touch
<1> HIDE DEF new
<1> QED
  BY <1>2, <1>3, NoticedOne, TouchStep

LEMMA NewRow ==
  ASSUME NEW born \in {"user"} \cup Keys, NEW log \in Seq(Review),
         NEW status \in Status, NEW version \in Nat
  PROVE  Begun(born, log, status, version) \in Workspace
<1>1. [status |-> status, version |-> version] \in WorkRow
  BY DEF WorkRow, Status
<1> QED
  BY <1>1 DEF Begun, Workspace

LEMMA PromoteStep ==
  ASSUME Inv, NEW v \in Ventures, Promote(v)
  PROVE  Inv'
<1> DEFINE new == Begun("user", <<>>, "ready", 0)
<1>1. /\ place \in [Places -> Workspace] /\ ~Exists(v) /\ v \in Places
      /\ place' = [place EXCEPT ![v] = new] /\ touches' = touches + 1
      /\ UNCHANGED <<ideas, prop, receipt, seen, deleg, moved, unseen>>
  BY PlacesTyped DEF Inv, Promote, Places
<1>2. new \in Workspace /\ new.log = <<>>
  <2>1. <<>> \in Seq(Review) /\ 0 \in Nat /\ "user" \in {"user"} \cup Keys /\ "ready" \in Status
    BY DEF Status
  <2>2. new \in Workspace
    BY <2>1, NewRow
  <2> QED
    BY <2>2 DEF Begun
<1> HIDE DEF new
<1>3. place' \in [Places -> Workspace] /\ place'[v] = new /\ \A x \in Places \ {v} : place'[x] = place[x]
  BY <1>1, <1>2
<1>4. World
  <2>1. \A w \in Places : Exists(w) => w # v
    BY <1>1
  <2> QED
    BY <1>1, <1>3, <2>1, SameIsGrown DEF World
<1>5. TypeOK'
  <2>1. touches + 1 \in Nat
    BY DEF Inv, TypeOK
  <2> QED
    BY <1>1, <1>3, <2>1 DEF Inv, TypeOK
<1>6. \A p \in Keys : Marked(p) /\ (~There(p) => moved'[p] = {})
  BY <1>1 DEF Marked, Inv, Core, Moves
<1> QED
  BY <1>1, <1>2, <1>3, <1>4, <1>5, <1>6, OthersStep

LEMMA CaptureStep == ASSUME Inv, Capture PROVE Inv'
<1>1. /\ ideas' = ideas + 1 /\ touches' = touches + 1
      /\ UNCHANGED <<place, prop, receipt, seen, deleg, moved, unseen>>
  BY DEF Capture
<1>2. ideas + 1 \in Nat /\ touches + 1 \in Nat
  BY DEF Inv, TypeOK
<1>3. TypeOK'
  BY <1>1, <1>2 DEF Inv, TypeOK
<1>4. World
  BY <1>1, SameWorld DEF Inv
<1>5. \A p \in Keys : Marked(p) /\ (~There(p) => moved'[p] = {})
  BY <1>1 DEF Marked, Inv, Core, Moves
<1> QED
  BY <1>1, <1>3, <1>4, <1>5, OthersStep

-----------------------------------------------------------------------------
(* Accepting and reversing. *)

WithWork(r, work) == [r EXCEPT !.work = work]

\* A workspace gets a review, and its work may change.
LEMMA TreatedRow ==
  ASSUME TypeOK, NEW w \in Places, NEW review \in Review, NEW status \in Status,
         NEW work \in {place[w].work, Worked(place[w].work, status)}, NEW s,
         s = WithWork(Reviewed(w, review), work)
  PROVE  LET r == place[w]
         IN  /\ s \in Workspace /\ Grown(r, s) /\ Stirred(r, s)
             /\ s.log # <<>> /\ Latest(s.log) = review
             /\ Len(s.log) = Len(r.log) + 1 /\ s.log[Len(r.log) + 1] = review
             /\ s.answer = r.answer /\ s.work = work
<1> DEFINE r == place[w]
           m == Reviewed(w, review)
<1>1. /\ m \in Workspace /\ m.log = Append(r.log, review) /\ m.answer = r.answer
      /\ Len(m.log) = Len(r.log) + 1 /\ m.log[Len(r.log) + 1] = review /\ Latest(m.log) = review
      /\ m.work = r.work
  BY ReviewedRow
<1>2. Grown(r, m)
  BY ReviewedGrown
<1>3. r \in Workspace /\ r.log \in Seq(Review) /\ Len(r.log) \in Nat /\ r.work.version \in Nat
  BY PlacesTyped, PlaceRow
<1>4. m.log # <<>>
  BY <1>1, <1>3
<1>5. /\ work \in WorkRow /\ r.work.version <= work.version
  <2>1. r.work.version <= r.work.version + 1 /\ r.work.version + 1 \in Nat
    BY <1>3
  <2>2. Worked(r.work, status) \in WorkRow
    BY <2>1 DEF Worked, WorkRow
  <2>3. r.work.version <= Worked(r.work, status).version
    BY <2>1 DEF Worked
  <2>4. r.work \in WorkRow /\ r.work.version <= r.work.version
    BY <1>3, PlacesTyped, PlaceRow
  <2> QED
    BY <2>2, <2>3, <2>4
<1>6. /\ s \in Workspace /\ s.work = work /\ s.log = m.log /\ s.born = m.born
      /\ s.defn = m.defn /\ s.answer = m.answer
  BY <1>1, <1>5 DEF Workspace, WithWork
<1> HIDE DEF m
<1>7. Grown(r, s)
  BY <1>2, <1>5, <1>6 DEF Grown
<1>8. Stirred(r, s)
  <2>1. Len(r.log) < Len(s.log)
    BY <1>1, <1>3, <1>6
  <2> QED
    BY <2>1 DEF Stirred
<1> QED
  BY <1>1, <1>4, <1>6, <1>7, <1>8

\* An activity that says what is there is not later.
LEMMA ActivityAt ==
  ASSUME NEW d \in Drafts, NEW at \in [Places -> Workspace], NEW a,
         a.result = at[d.venture],
         \A w \in d.sources : /\ a.reviews[w] = Len(at[w].log)
                              /\ a.work[w] = at[w].work.version
                              /\ a.answers[w] = at[w].answer
  PROVE  NoLater(a, d, at)
<1> DEFINE r == at[d.venture]
<1>1. /\ r.defn \in Nat /\ r.answer \in Nat /\ Len(r.log) \in Nat /\ r.work.version \in Nat
  BY DraftNames, PlaceRow
<1>2. \A w \in d.sources : /\ Len(at[w].log) \in Nat /\ at[w].work.version \in Nat
                           /\ at[w].answer \in Nat
  BY DraftNames, PlaceRow
<1>3. Len(a.result.log) = Len(r.log)
  OBVIOUS
<1>4. /\ a.result.defn <= r.defn /\ a.result.answer <= r.answer
      /\ a.result.work.version <= r.work.version
  BY <1>1
<1>5. Len(a.result.log) <= Len(r.log)
  BY <1>1, <1>3
<1>6. \A w \in d.sources : /\ a.reviews[w] <= Len(at[w].log)
                           /\ a.work[w] <= at[w].work.version
                           /\ a.answers[w] <= at[w].answer
  BY <1>2
<1> QED
  BY <1>4, <1>5, <1>6 DEF NoLater

\* What one acceptance does to the workspaces.
LEMMA AppliedRows ==
  ASSUME TypeOK, NEW p \in Keys, There(p)
  PROVE  LET d == prop[p].draft
         IN  /\ Applied(p) \in [Places -> Workspace]
             /\ \A w \in d.sources :
                  LET r == place[w]
                      s == Applied(p)[w]
                  IN  /\ Grown(r, s) /\ Stirred(r, s)
                      /\ s.log # <<>> /\ Latest(s.log) = Hold(d.venture)
                      /\ Len(s.log) = Len(r.log) + 1
                      /\ s.log[Len(r.log) + 1] = Hold(d.venture)
                      /\ s.answer = r.answer
             /\ Applied(p)[d.venture] = Begun(p, <<Pursue(Own)>>, "ready", 1)
             /\ \A w \in Places : w \notin d.sources /\ w # d.venture => Applied(p)[w] = place[w]
<1> DEFINE d == prop[p].draft
           log == <<Pursue(Own)>>
<1>1. /\ d \in Drafts /\ d.venture \in Places /\ d.venture \notin d.sources
      /\ d.sources \subseteq Places /\ d.venture \in Ventures
  BY ProposalRow, DraftNames
<1>2. Hold(d.venture) \in Review /\ "cancelled" \in Status
  BY <1>1 DEF Hold, Review, Status
<1>3. ASSUME NEW w \in d.sources
      PROVE  LET r == place[w]
                 s == Continued(w, d)
             IN  /\ s \in Workspace /\ Grown(r, s) /\ Stirred(r, s)
                 /\ s.log # <<>> /\ Latest(s.log) = Hold(d.venture)
                 /\ Len(s.log) = Len(r.log) + 1
                 /\ s.log[Len(r.log) + 1] = Hold(d.venture)
                 /\ s.answer = r.answer
  <2> DEFINE work   == IF w \in d.drops THEN Worked(place[w].work, "cancelled") ELSE place[w].work
             review == Hold(d.venture)
             s      == Continued(w, d)
  <2>1. w \in Places /\ review \in Review /\ "cancelled" \in Status
    BY <1>1, <1>2, <1>3
  <2>2. Reviewed(w, review).work = place[w].work
    BY <2>1, ReviewedRow
  <2>3. s = WithWork(Reviewed(w, review), work)
    BY <2>2 DEF Continued, WithWork
  <2>4. work \in {place[w].work, Worked(place[w].work, "cancelled")}
    OBVIOUS
  <2> HIDE DEF work, review, s
  <2>5. LET r == place[w]
        IN  /\ s \in Workspace /\ Grown(r, s) /\ Stirred(r, s)
            /\ s.log # <<>> /\ Latest(s.log) = review
            /\ Len(s.log) = Len(r.log) + 1 /\ s.log[Len(r.log) + 1] = review
            /\ s.answer = r.answer /\ s.work = work
    BY <2>1, <2>3, <2>4, TreatedRow
  <2> QED
    BY <2>5 DEF review, s
<1>4. Begun(p, log, "ready", 1) \in Workspace
  <2>1. log \in Seq(Review) /\ 1 \in Nat /\ p \in {"user"} \cup Keys /\ "ready" \in Status
    BY DEF Pursue, Review, Status
  <2> QED
    BY <2>1, NewRow
<1>5. /\ \A w \in d.sources : Applied(p)[w] = Continued(w, d)
      /\ Applied(p)[d.venture] = Begun(p, log, "ready", 1)
      /\ \A w \in Places : w \notin d.sources /\ w # d.venture => Applied(p)[w] = place[w]
  BY <1>1 DEF Applied
<1>6. Applied(p) \in [Places -> Workspace]
  <2>1. \A w \in Places : Applied(p)[w] \in Workspace
    BY <1>3, <1>4, <1>5, PlacesTyped, PlaceRow
  <2>2. Applied(p) = [w \in Places |-> Applied(p)[w]]
    BY DEF Applied
  <2> QED
    BY <2>1, <2>2
<1> QED
  BY <1>3, <1>5, <1>6

\* What an acceptance does, taken apart.
LEMMA ApplyFacts ==
  ASSUME Inv, NEW p \in Keys, NEW kind \in {"user", "agent"}, Apply(p, kind)
  PROVE  LET d == prop[p].draft
         IN  /\ There(p) /\ ~Standing(p) /\ d \in Drafts /\ ~Exists(d.venture)
             /\ receipt[p] # Nothing /\ seen[p] = Nothing
             /\ place' = Applied(p) /\ World
             /\ DOMAIN prop' = Keys /\ \A q \in Keys \ {p} : prop'[q] = prop[q]
             /\ Standing(p)' /\ SameTerms(p) /\ prop'[p].initial = InitialActivity(p)
             /\ prop'[p] \in Proposals(d)
             /\ UNCHANGED <<receipt, seen, deleg, touches>>
<1> DEFINE d == prop[p].draft
<1>1. /\ TypeOK /\ There(p) /\ ~Standing(p) /\ d \in Drafts /\ prop[p] \in Proposals(d)
      /\ receipt[p] # Nothing /\ seen[p] = Nothing /\ ~Exists(d.venture)
  BY ProposalRow DEF Inv, Apply, There, Standing, Unused, NoProposal, Core, Watched, Free
<1>2. place' = Applied(p) /\ UNCHANGED <<receipt, seen, deleg, touches>>
  BY DEF Apply
<1>3. World
  <2>1. place' \in [Places -> Workspace]
    BY <1>1, <1>2, AppliedRows
  <2>2. ASSUME NEW w \in Places, Exists(w) PROVE Grown(place[w], place'[w])
    <3>1. w # d.venture
      BY <1>1, <2>2
    <3>2. CASE w \in d.sources
      BY <1>1, <1>2, <3>2, AppliedRows
    <3>3. CASE w \notin d.sources
      <4>1. place'[w] = place[w] /\ place[w] \in Workspace
        BY <1>1, <1>2, <3>1, <3>3, AppliedRows, PlacesTyped, PlaceRow
      <4> QED
        BY <4>1, SameIsGrown
    <3> QED
      BY <3>2, <3>3
  <2> QED
    BY <2>1, <2>2 DEF World
<1>4. DOMAIN prop = Keys
  BY <1>1 DEF TypeOK
<1>5. /\ DOMAIN prop' = Keys /\ \A q \in Keys \ {p} : prop'[q] = prop[q]
      /\ prop'[p] = [Resolved(p, "applied", kind) EXCEPT !.initial = InitialActivity(p)]
  BY <1>4 DEF Apply
<1>6. LET row == Resolved(p, "applied", kind)
      IN  /\ row \in Proposals(d)
          /\ row.state = "applied" /\ row.draft = d /\ row.basis = prop[p].basis
  <2>1. "applied" \in States \ {"absent"}
    BY DEF States
  <2> QED
    BY <1>1, <2>1, ResolvedRow
<1>7. InitialActivity(p) \in Activities(d)
  <2>1. d.venture \in Places /\ d.sources \subseteq Places /\ Applied(p) \in [Places -> Workspace]
    BY <1>1, DraftNames, AppliedRows
  <2>2. Applied(p)[d.venture] \in Workspace
    BY <2>1, PlaceRow
  <2>3. \A w \in d.sources : /\ Len(Applied(p)[w].log) \in Nat
                             /\ Applied(p)[w].work.version \in Nat /\ place[w].answer \in Nat
    BY <1>1, <2>1, PlacesTyped, PlaceRow
  <2> QED
    BY <2>2, <2>3 DEF InitialActivity, Activities
<1>8. /\ prop'[p].state = "applied" /\ prop'[p].draft = d /\ prop'[p].basis = prop[p].basis
      /\ prop'[p].initial = InitialActivity(p) /\ prop'[p] \in Proposals(d)
  BY <1>5, <1>6, <1>7 DEF Proposals
<1> QED
  BY <1>1, <1>2, <1>3, <1>5, <1>8 DEF Standing, SameTerms

LEMMA ApplyMarks ==
  ASSUME Inv, NEW p \in Keys, NEW kind \in {"user", "agent"}, Apply(p, kind)
  PROVE  /\ moved' \in [Keys -> SUBSET Places] /\ unseen' \in [Keys -> BOOLEAN]
         /\ ~unseen'[p] /\ moved'[p] = moved[p]
         /\ \A q \in Keys : Marked(q) /\ (~There(q) => moved'[q] = {})
<1> DEFINE d == prop[p].draft
<1>1. TypeOK /\ There(p) /\ d \in Drafts /\ place' = Applied(p) /\ d.sources \subseteq Places
  BY ApplyFacts, DraftNames DEF Inv
<1>2. /\ moved \in [Keys -> SUBSET Places] /\ unseen \in [Keys -> BOOLEAN]
  BY <1>1 DEF TypeOK
<1>3. /\ moved' \in [Keys -> SUBSET Places] /\ moved'[p] = moved[p]
      /\ \A q \in Keys \ {p} : moved'[q] = moved[q] \cup {w \in d.sources : Uses(q, w)}
  BY <1>1, <1>2 DEF Apply
<1>4. /\ unseen' \in [Keys -> BOOLEAN] /\ ~unseen'[p]
      /\ \A q \in Keys \ {p} :
           unseen'[q] <=> unseen[q] \/ (\E w \in d.sources : Uses(q, w) \/ Made(q, w))
  BY <1>1, <1>2 DEF Apply
<1>5. \A w \in d.sources : Stirred(place[w], place'[w]) /\ Advanced(place[w], place'[w])
  BY <1>1, AppliedRows DEF Advanced
<1>6. ASSUME NEW q \in Keys PROVE Marked(q) /\ (~There(q) => moved'[q] = {})
  <2>1. Marked(q)
    BY <1>1, <1>3, <1>4, <1>5 DEF Marked
  <2>2. ~There(q) => moved[q] = {} /\ \A w \in d.sources : ~Uses(q, w)
    BY DEF Inv, Core, Moves, Uses, There
  <2> QED
    BY <1>3, <2>1, <2>2
<1> QED
  BY <1>3, <1>4, <1>6

\* The accepted proposal itself.
LEMMA ApplyCore ==
  ASSUME Inv, NEW p \in Keys, NEW kind \in {"user", "agent"}, Apply(p, kind)
  PROVE  Core(p)'
<1> DEFINE d == prop[p].draft
<1>1. /\ TypeOK /\ There(p) /\ d \in Drafts /\ place' = Applied(p) /\ World
      /\ Standing(p)' /\ SameTerms(p) /\ seen[p] = Nothing /\ seen' = seen
      /\ prop'[p].initial = InitialActivity(p) /\ prop'[p] \in Proposals(d)
      /\ d.sources \subseteq Places
  BY ApplyFacts, DraftNames DEF Inv
<1>2. Marked(p) /\ ~unseen'[p]
  BY ApplyMarks
<1>3. Rests(p) /\ Moves(p) /\ There(p)'
  BY <1>1 DEF Inv, Core, Standing, There
<1>4. Rests(p)' /\ Moves(p)'
  BY <1>1, <1>2, <1>3, StaysRested, StaysMoved
<1>5. Stands(p)'
  <2>1. place'[d.venture].born = p
    <3>1. place'[d.venture] = Begun(p, <<Pursue(Own)>>, "ready", 1)
      BY <1>1, AppliedRows
    <3> QED
      BY <3>1 DEF Begun
  <2>2. ASSUME NEW w \in d.sources
        PROVE  /\ prop[p].basis[w].revision < Len(place'[w].log)
               /\ place'[w].log[prop[p].basis[w].revision + 1] = Hold(d.venture)
    <3>1. prop[p].basis[w].revision = Len(place[w].log)
      <4>1. prop[p].basis = SourceState(d)
        BY DEF Apply, Agrees
      <4> QED
        BY <4>1 DEF SourceState, Source
    <3>2. /\ Len(place'[w].log) = Len(place[w].log) + 1
          /\ place'[w].log[Len(place[w].log) + 1] = Hold(d.venture)
      BY <1>1, AppliedRows
    <3>3. Len(place[w].log) \in Nat
      BY <1>1, PlacesTyped, PlaceRow
    <3>4. Len(place[w].log) < Len(place'[w].log)
      BY <3>2, <3>3
    <3> QED
      BY <3>1, <3>2, <3>4
  <2> QED
    BY <1>1, <2>1, <2>2 DEF Stands, SameTerms
<1>6. Watched(p)'
  <2>1. /\ InitialActivity(p).result = place'[d.venture]
        /\ \A w \in d.sources :
             /\ InitialActivity(p).reviews[w] = Len(place'[w].log)
             /\ InitialActivity(p).work[w] = place'[w].work.version
             /\ InitialActivity(p).answers[w] = place[w].answer
    BY <1>1 DEF InitialActivity
  <2>2. \A w \in d.sources : place[w].answer = place'[w].answer
    BY <1>1, AppliedRows
  <2>3. place' \in [Places -> Workspace]
    BY <1>1 DEF World
  <2>4. NoLater(InitialActivity(p), d, place')
    BY <1>1, <2>1, <2>2, <2>3, ActivityAt
  <2>5. InitialActivity(p) # Nothing
    <3>1. InitialActivity(p) \in Activities(d)
      <4>1. /\ d.venture \in Places
            /\ \A w \in d.sources : /\ Len(place'[w].log) \in Nat
                                    /\ place'[w].work.version \in Nat /\ place[w].answer \in Nat
        BY <1>1, <2>3, PlacesTyped, PlaceRow, DraftNames
      <4>2. place'[d.venture] \in Workspace
        BY <2>3, <4>1
      <4> QED
        BY <1>1, <4>1, <4>2 DEF InitialActivity, Activities
    <3> QED
      BY <1>1, <3>1, NamesApart
  <2>6. prop'[p].draft = d /\ prop'[p].initial = InitialActivity(p) /\ seen'[p] = Nothing
    BY <1>1 DEF SameTerms
  <2>7. \A a \in {prop'[p].initial, seen'[p]} \ {Nothing} : NoLater(a, prop'[p].draft, place')
    BY <2>4, <2>6
  <2> QED
    BY <1>1, <1>2, <2>5, <2>6, <2>7 DEF Watched, Standing
<1> QED
  BY <1>4, <1>5, <1>6 DEF Core

\* Holds that say a source is continued in a venture: the new ones, and those there were.
LEMMA ApplyHolds ==
  ASSUME Inv, NEW p \in Keys, NEW kind \in {"user", "agent"}, Apply(p, kind)
  PROVE  (\A q \in Keys : Covers(q)') /\ ContinuedInStandingFusion'
<1> DEFINE d == prop[p].draft
<1>1. /\ TypeOK /\ There(p) /\ ~Standing(p) /\ d \in Drafts /\ ~Exists(d.venture)
      /\ place' = Applied(p) /\ World
      /\ \A q \in Keys \ {p} : prop'[q] = prop[q]
      /\ Standing(p)' /\ SameTerms(p) /\ d.sources \subseteq Places /\ d.venture \in Places
  BY ApplyFacts, DraftNames DEF Inv
<1>2. ASSUME NEW q \in Keys, NEW v \in Ventures, Standing(q), place[v].born = q
      PROVE  /\ q # p /\ prop'[q] = prop[q] /\ Standing(q)' /\ place'[v].born = q
             /\ Exists(v)
  <2>1. q # p /\ prop'[q] = prop[q] /\ v \in Places /\ Exists(v)
    BY <1>1, <1>2, NamesApart DEF Places, Exists
  <2>2. place'[v].born = q
    BY <1>1, <1>2, <2>1 DEF World, Grown
  <2> QED
    BY <1>2, <2>1, <2>2 DEF Standing
<1>3. ASSUME NEW w \in d.sources, NEW v \in Ventures,
             prop[p].basis[w].review # Nothing, prop[p].basis[w].review.next = v
      PROVE  \E q \in Keys : HeldBefore(q, w, v, prop[p].basis[w].revision)'
  <2> DEFINE log == place[w].log
  <2>1. /\ prop[p].basis[w].revision = Len(log) /\ prop[p].basis[w].review = Latest(log)
        /\ w \in Places
    <3>1. prop[p].basis = SourceState(d)
      BY DEF Apply, Agrees
    <3> QED
      BY <1>1, <1>3, <3>1 DEF SourceState, Source
  <2>2. log # <<>> /\ Latest(log).next = v
    BY <1>3, <2>1 DEF Latest
  <2>3. PICK q \in Keys : Standing(q) /\ place[v].born = q /\ Uses(q, w)
    BY <2>1, <2>2 DEF Inv, ContinuedInStandingFusion, Standing
  <2>4. w \in prop[q].draft.sources /\ prop[q].basis[w].revision < Len(log)
    BY <2>3 DEF Inv, Core, Stands, Uses
  <2>5. q # p /\ prop'[q] = prop[q] /\ Standing(q)' /\ place'[v].born = q
    BY <1>2, <2>3
  <2>6. prop'[p].basis = prop[p].basis
    BY <1>1 DEF SameTerms
  <2>7. HeldBefore(q, w, v, prop[p].basis[w].revision)'
    BY <2>1, <2>4, <2>5, <2>6 DEF HeldBefore
  <2> QED
    BY <2>7
<1>4. Covers(p)'
  BY <1>1, <1>3 DEF Covers, SameTerms
<1>5. ASSUME NEW r \in Keys \ {p} PROVE Covers(r)'
  <2>1. prop'[r] = prop[r] /\ Covers(r)
    BY <1>1, <1>5 DEF Inv
  <2> SUFFICES ASSUME Standing(r), NEW w \in prop[r].draft.sources, NEW v \in Ventures,
                      prop[r].basis[w].review # Nothing, prop[r].basis[w].review.next = v
               PROVE  \E q \in Keys : HeldBefore(q, w, v, prop[r].basis[w].revision)'
    BY <2>1 DEF Covers, Standing
  <2>2. PICK q \in Keys : HeldBefore(q, w, v, prop[r].basis[w].revision)
    BY <2>1 DEF Covers
  <2>3. prop'[q] = prop[q] /\ Standing(q)' /\ place'[v].born = q
    BY <1>2, <2>2 DEF HeldBefore
  <2>4. HeldBefore(q, w, v, prop[r].basis[w].revision)'
    BY <2>1, <2>2, <2>3 DEF HeldBefore
  <2> QED
    BY <2>4
<1>6. ASSUME NEW w \in Places, NEW v \in Ventures,
             place'[w].log # <<>>, Latest(place'[w].log).next = v
      PROVE  \E q \in Keys : (Standing(q) /\ place[v].born = q /\ Uses(q, w))'
  <2>1. CASE w \in d.sources
    <3>1. Latest(place'[w].log) = Hold(d.venture)
      BY <1>1, <2>1, AppliedRows
    <3>2. v = d.venture
      BY <1>6, <3>1 DEF Hold
    <3>3. place'[v].born = p
      <4>1. place'[v] = Begun(p, <<Pursue(Own)>>, "ready", 1)
        BY <1>1, <3>2, AppliedRows
      <4> QED
        BY <4>1 DEF Begun
    <3>4. Uses(p, w)'
      BY <1>1, <2>1 DEF Uses, Standing, SameTerms
    <3> QED
      BY <1>1, <3>3, <3>4
  <2>2. CASE w = d.venture
    <3>1. place'[w] = Begun(p, <<Pursue(Own)>>, "ready", 1)
      BY <1>1, <2>2, AppliedRows
    <3>2. place'[w].log = <<Pursue(Own)>>
      BY <3>1 DEF Begun
    <3>3. Latest(<<Pursue(Own)>>) = Pursue(Own)
      BY DEF Latest
    <3>4. v = Own
      BY <1>6, <3>2, <3>3 DEF Pursue
    <3> QED
      BY <3>4, NamesApart
  <2>3. CASE w \notin d.sources /\ w # d.venture
    <3>1. place'[w] = place[w]
      BY <1>1, <2>3, AppliedRows
    <3>2. PICK q \in Keys : Standing(q) /\ place[v].born = q /\ Uses(q, w)
      BY <1>6, <3>1 DEF Inv, ContinuedInStandingFusion, Standing
    <3>3. prop'[q] = prop[q] /\ Standing(q)' /\ place'[v].born = q
      BY <1>2, <3>2
    <3>4. Uses(q, w)'
      BY <3>2, <3>3 DEF Uses
    <3> QED
      BY <3>3, <3>4
  <2> QED
    BY <2>1, <2>2, <2>3
<1>7. ContinuedInStandingFusion'
  BY <1>6 DEF ContinuedInStandingFusion, Standing
<1> QED
  BY <1>4, <1>5, <1>7

\* One proposal changes its state to one that is not pending.
LEMMA DecidedTypes ==
  ASSUME TypeOK, NEW p \in Keys, prop[p].draft \in Drafts, place' \in [Places -> Workspace],
         ideas' \in Nat, UNCHANGED <<receipt, seen, deleg, touches>>,
         DOMAIN prop' = Keys, \A q \in Keys \ {p} : prop'[q] = prop[q],
         prop'[p] \in Proposals(prop[p].draft), prop'[p].state # "proposed",
         prop'[p].draft = prop[p].draft,
         moved' \in [Keys -> SUBSET Places], unseen' \in [Keys -> BOOLEAN]
  PROVE  TypeOK'
<1>1. \A q \in Keys : prop'[q] = NoProposal \/ \E e \in Drafts : prop'[q] \in Proposals(e)
  <2>1. \E e \in Drafts : prop'[p] \in Proposals(e)
    OBVIOUS
  <2>2. \A q \in Keys \ {p} : prop'[q] = NoProposal \/ \E e \in Drafts : prop'[q] \in Proposals(e)
    BY DEF TypeOK
  <2> QED
    BY <2>1, <2>2
<1>2. \A q \in Keys : seen'[q] # Nothing =>
         prop'[q].draft \in Drafts /\ seen'[q] \in Activities(prop'[q].draft)
  BY DEF TypeOK
<1>3. OnePending(prop')
  BY DEF TypeOK, OnePending
<1> QED
  BY <1>1, <1>2, <1>3 DEF TypeOK, OnePending

LEMMA ApplyStep ==
  ASSUME Inv, NEW p \in Keys, NEW kind \in {"user", "agent"}, Apply(p, kind)
  PROVE  Inv'
<1>1. /\ TypeOK /\ There(p) /\ prop[p].draft \in Drafts /\ World
      /\ DOMAIN prop' = Keys /\ (\A q \in Keys \ {p} : prop'[q] = prop[q])
      /\ Standing(p)' /\ SameTerms(p) /\ prop'[p] \in Proposals(prop[p].draft)
      /\ receipt[p] # Nothing /\ UNCHANGED <<receipt, seen, deleg, touches>>
  BY ApplyFacts DEF Inv
<1>2. ideas' \in Nat
  BY <1>1, ProposalRow DEF Apply, Proposals
<1>3. TypeOK'
  <2>1. prop'[p].state # "proposed" /\ prop'[p].draft = prop[p].draft
        /\ place' \in [Places -> Workspace]
    BY <1>1 DEF Standing, SameTerms, World
  <2> QED
    BY <1>1, <1>2, <2>1, ApplyMarks, DecidedTypes
<1>4. \A q \in Keys : Core(q)'
  <2>1. ASSUME NEW q \in Keys \ {p} PROVE Core(q)'
    <3>1. Marked(q) /\ (~There(q) => moved'[q] = {})
      BY ApplyMarks
    <3>2. Core(q) /\ prop'[q] = prop[q] /\ seen'[q] = seen[q]
      BY <1>1 DEF Inv
    <3> QED
      BY <1>1, <3>1, <3>2, Untouched
  <2> QED
    BY <2>1, ApplyCore
<1>5. \A q \in Keys : Unused(q)'
  BY <1>1 DEF Inv, Unused
<1> QED
  BY <1>3, <1>4, <1>5, ApplyHolds DEF Inv

\* The review a reversal replays.
Replayed(old) == IF old.review = Nothing THEN Pursue("reopened") ELSE old.review

\* What one reversal does to the workspaces.
LEMMA ReversedRows ==
  ASSUME TypeOK, NEW p \in Keys, There(p)
  PROVE  LET d == prop[p].draft
         IN  /\ Reversed(p) \in [Places -> Workspace]
             /\ \A w \in d.sources :
                  LET r == place[w]
                      s == Reversed(p)[w]
                  IN  /\ Grown(r, s) /\ Stirred(r, s)
                      /\ s.log # <<>> /\ Latest(s.log) = Replayed(prop[p].basis[w])
                      /\ w \in d.drops => s.work.status = prop[p].basis[w].work.status
             /\ LET r == place[d.venture]
                    s == Reversed(p)[d.venture]
                IN  Grown(r, s) /\ Stirred(r, s) /\ s.log # <<>> /\ Latest(s.log) = Hold("treated")
             /\ \A w \in Places : w \notin d.sources /\ w # d.venture => Reversed(p)[w] = place[w]
<1> DEFINE d == prop[p].draft
<1>1. /\ d \in Drafts /\ d.venture \in Places /\ d.venture \notin d.sources
      /\ d.sources \subseteq Places
  BY ProposalRow, DraftNames
<1>2. ASSUME NEW w \in d.sources
      PROVE  LET r == place[w]
                 s == Restored(w, prop[p].basis[w], d.drops)
             IN  /\ s \in Workspace /\ Grown(r, s) /\ Stirred(r, s)
                 /\ s.log # <<>> /\ Latest(s.log) = Replayed(prop[p].basis[w])
                 /\ w \in d.drops => s.work.status = prop[p].basis[w].work.status
  <2> DEFINE old    == prop[p].basis[w]
             status == old.work.status
             work   == IF w \in d.drops THEN Worked(place[w].work, status) ELSE place[w].work
             review == Replayed(old)
             s      == Restored(w, old, d.drops)
  <2>1. /\ w \in Places /\ old.review \in Review \cup {Nothing} /\ old.work \in WorkRow
    BY <1>2, BasisRow
  <2>2. review \in Review /\ status \in Status
    BY <2>1 DEF Replayed, Pursue, Review, WorkRow
  <2>3. Reviewed(w, review).work = place[w].work
    BY <2>1, <2>2, ReviewedRow
  <2>4. s = WithWork(Reviewed(w, review), work)
    BY <2>3 DEF Restored, WithWork, Replayed
  <2>5. work \in {place[w].work, Worked(place[w].work, status)}
    OBVIOUS
  <2> HIDE DEF work, review, s, status
  <2>6. LET r == place[w]
        IN  /\ s \in Workspace /\ Grown(r, s) /\ Stirred(r, s)
            /\ s.log # <<>> /\ Latest(s.log) = review
            /\ s.work = work
    BY <2>1, <2>2, <2>4, <2>5, TreatedRow
  <2>7. w \in d.drops => work.status = status
    BY DEF work, Worked
  <2> QED
    BY <2>6, <2>7 DEF review, s, status
<1>3. LET r == place[d.venture]
          s == Held(d.venture)
      IN  s \in Workspace /\ Grown(r, s) /\ Stirred(r, s) /\ s.log # <<>> /\ Latest(s.log) = Hold("treated")
  <2> DEFINE v      == d.venture
             status == "cancelled"
             work   == IF place[v].work.status = "ready" THEN Worked(place[v].work, status)
                       ELSE place[v].work
             review == Hold("treated")
             s      == Held(v)
  <2>1. v \in Places /\ review \in Review /\ status \in Status
    BY <1>1 DEF Hold, Review, Status
  <2>2. Reviewed(v, review).work = place[v].work
    BY <2>1, ReviewedRow
  <2>3. s = WithWork(Reviewed(v, review), work)
    BY <2>2 DEF Held, WithWork
  <2>4. work \in {place[v].work, Worked(place[v].work, status)}
    OBVIOUS
  <2> HIDE DEF work, review, s, status, v
  <2>5. LET r == place[v]
        IN  /\ s \in Workspace /\ Grown(r, s) /\ Stirred(r, s)
            /\ s.log # <<>> /\ Latest(s.log) = review
    BY <2>1, <2>3, <2>4, TreatedRow
  <2> QED
    BY <2>5 DEF review, s, v
<1>4. /\ \A w \in d.sources : Reversed(p)[w] = Restored(w, prop[p].basis[w], d.drops)
      /\ Reversed(p)[d.venture] = Held(d.venture)
      /\ \A w \in Places : w \notin d.sources /\ w # d.venture => Reversed(p)[w] = place[w]
  BY <1>1 DEF Reversed
<1>5. Reversed(p) \in [Places -> Workspace]
  <2>1. \A w \in Places : Reversed(p)[w] \in Workspace
    BY <1>2, <1>3, <1>4, PlacesTyped, PlaceRow
  <2>2. Reversed(p) = [w \in Places |-> Reversed(p)[w]]
    BY DEF Reversed
  <2> QED
    BY <2>1, <2>2
<1> QED
  BY <1>2, <1>3, <1>4, <1>5

LEMMA ReverseFacts ==
  ASSUME Inv, NEW p \in Keys, NEW kind \in {"user", "agent"}, Reverse(p, kind)
  PROVE  LET d == prop[p].draft
         IN  /\ There(p) /\ Standing(p) /\ d \in Drafts /\ receipt[p] # Nothing
             /\ place' = Reversed(p) /\ World
             /\ DOMAIN prop' = Keys /\ \A q \in Keys \ {p} : prop'[q] = prop[q]
             /\ prop'[p].state = "reversed" /\ SameTerms(p) /\ prop'[p] \in Proposals(d)
             /\ UNCHANGED <<ideas, receipt, seen, deleg, touches>>
<1> DEFINE d == prop[p].draft
<1>1. /\ TypeOK /\ There(p) /\ Standing(p) /\ d \in Drafts /\ receipt[p] # Nothing
  BY ProposalRow DEF Inv, Reverse, There, Standing, Unused, NoProposal
<1>2. place' = Reversed(p) /\ UNCHANGED <<ideas, receipt, seen, deleg, touches>>
  BY DEF Reverse
<1>3. World
  <2>1. place' \in [Places -> Workspace]
    BY <1>1, <1>2, ReversedRows
  <2>2. ASSUME NEW w \in Places PROVE Grown(place[w], place'[w])
    <3>1. CASE w \in d.sources \/ w = d.venture
      BY <1>1, <1>2, <3>1, ReversedRows
    <3>2. CASE w \notin d.sources /\ w # d.venture
      <4>1. place'[w] = place[w] /\ place[w] \in Workspace
        BY <1>1, <1>2, <3>2, ReversedRows, PlacesTyped, PlaceRow
      <4> QED
        BY <4>1, SameIsGrown
    <3> QED
      BY <3>1, <3>2
  <2> QED
    BY <2>1, <2>2 DEF World
<1>4. DOMAIN prop = Keys
  BY <1>1 DEF TypeOK
<1>5. /\ DOMAIN prop' = Keys /\ \A q \in Keys \ {p} : prop'[q] = prop[q]
      /\ prop'[p] = Resolved(p, "reversed", kind)
  BY <1>4 DEF Reverse
<1>6. LET row == Resolved(p, "reversed", kind)
      IN  /\ row \in Proposals(d)
          /\ row.state = "reversed" /\ row.draft = d /\ row.basis = prop[p].basis
  <2>1. "reversed" \in States \ {"absent"}
    BY DEF States
  <2> QED
    BY <1>1, <2>1, ResolvedRow
<1> QED
  BY <1>1, <1>2, <1>3, <1>5, <1>6 DEF SameTerms

LEMMA ReverseMarks ==
  ASSUME Inv, NEW p \in Keys, NEW kind \in {"user", "agent"}, Reverse(p, kind)
  PROVE  /\ moved' \in [Keys -> SUBSET Places] /\ unseen' \in [Keys -> BOOLEAN]
         /\ \A q \in Keys : Marked(q) /\ (~There(q) => moved'[q] = {})
<1> DEFINE d  == prop[p].draft
           ws == d.sources \cup {d.venture}
<1>1. TypeOK /\ There(p) /\ d \in Drafts /\ place' = Reversed(p) /\ ws \subseteq Places
  BY ReverseFacts, DraftNames DEF Inv
<1>2. /\ moved \in [Keys -> SUBSET Places] /\ unseen \in [Keys -> BOOLEAN] /\ Noticed(ws)
  BY <1>1 DEF TypeOK, Reverse
<1>3. /\ moved' \in [Keys -> SUBSET Places]
      /\ \A q \in Keys : moved'[q] = moved[q] \cup {w \in ws : Uses(q, w)}
  BY <1>1, <1>2 DEF Noticed
<1>4. /\ unseen' \in [Keys -> BOOLEAN]
      /\ \A q \in Keys : unseen'[q] <=> unseen[q] \/ (\E w \in ws : Uses(q, w) \/ Made(q, w))
  BY <1>1, <1>2 DEF Noticed
<1>5. \A w \in ws : Stirred(place[w], place'[w]) /\ Advanced(place[w], place'[w])
  BY <1>1, ReversedRows DEF Advanced
<1>6. ASSUME NEW q \in Keys PROVE Marked(q) /\ (~There(q) => moved'[q] = {})
  <2>1. Marked(q)
    BY <1>1, <1>3, <1>4, <1>5 DEF Marked
  <2>2. ~There(q) => moved[q] = {} /\ \A w \in ws : ~Uses(q, w)
    BY DEF Inv, Core, Moves, Uses, There
  <2> QED
    BY <1>3, <2>1, <2>2
<1> QED
  BY <1>3, <1>4, <1>6

\* No source is left pointing at the venture that is put down.
LEMMA ReverseHolds ==
  ASSUME Inv, NEW p \in Keys, NEW kind \in {"user", "agent"}, Reverse(p, kind)
  PROVE  (\A q \in Keys : Covers(q)') /\ ContinuedInStandingFusion'
<1> DEFINE d == prop[p].draft
<1>1. /\ TypeOK /\ There(p) /\ Standing(p) /\ d \in Drafts /\ place' = Reversed(p) /\ World
      /\ \A q \in Keys \ {p} : prop'[q] = prop[q]
      /\ prop'[p].state = "reversed" /\ d.sources \subseteq Places
  BY ReverseFacts, DraftNames DEF Inv
<1>2. ASSUME NEW q \in Keys \ {p}, NEW v \in Ventures, Standing(q), place[v].born = q
      PROVE  prop'[q] = prop[q] /\ Standing(q)' /\ place'[v].born = q
  <2>1. prop'[q] = prop[q] /\ v \in Places /\ Exists(v)
    BY <1>1, <1>2, NamesApart DEF Places, Exists
  <2>2. place'[v].born = q
    BY <1>1, <1>2, <2>1 DEF World, Grown
  <2> QED
    BY <1>2, <2>1, <2>2 DEF Standing
<1>3. Covers(p)'
  BY <1>1 DEF Covers, Standing
<1>4. ASSUME NEW r \in Keys \ {p} PROVE Covers(r)'
  <2>1. prop'[r] = prop[r] /\ Covers(r)
    BY <1>1, <1>4 DEF Inv
  <2> SUFFICES ASSUME Standing(r), NEW w \in prop[r].draft.sources, NEW v \in Ventures,
                      prop[r].basis[w].review # Nothing, prop[r].basis[w].review.next = v
               PROVE  \E q \in Keys : HeldBefore(q, w, v, prop[r].basis[w].revision)'
    BY <2>1 DEF Covers, Standing
  <2>2. PICK q \in Keys : HeldBefore(q, w, v, prop[r].basis[w].revision)
    BY <2>1 DEF Covers
  <2>3. q # p
    <3> SUFFICES ASSUME q = p PROVE FALSE
      OBVIOUS
    <3> DEFINE m == prop[r].basis[w].revision
               n == prop[p].basis[w].revision
    <3>1. w \in d.sources /\ n < m
      BY <2>2 DEF HeldBefore
    <3>2. Len(place[w].log) = n + 1
      BY <3>1 DEF Reverse, NothingLater
    <3>3. m < Len(place[w].log)
      BY DEF Inv, Core, Stands
    <3>4. m \in Nat /\ n \in Nat
      BY <1>1, <3>1, BasisRow DEF Standing, There
    <3> QED
      BY <3>1, <3>2, <3>3, <3>4
  <2>4. prop'[q] = prop[q] /\ Standing(q)' /\ place'[v].born = q
    BY <1>2, <2>2, <2>3 DEF HeldBefore
  <2>5. HeldBefore(q, w, v, prop[r].basis[w].revision)'
    BY <2>1, <2>2, <2>4 DEF HeldBefore
  <2> QED
    BY <2>5
<1>5. ASSUME NEW w \in Places, NEW v \in Ventures,
             place'[w].log # <<>>, Latest(place'[w].log).next = v
      PROVE  \E q \in Keys : (Standing(q) /\ place[v].born = q /\ Uses(q, w))'
  <2>1. CASE w \in d.sources
    <3> DEFINE old == prop[p].basis[w]
    <3>1. Replayed(old).next = v
      BY <1>1, <1>5, <2>1, ReversedRows
    <3>2. old.review # Nothing /\ old.review.next = v
      <4>1. Pursue("reopened").next = "reopened"
        BY DEF Pursue
      <4> QED
        BY <3>1, <4>1, NamesApart DEF Replayed
    <3>3. PICK q \in Keys : HeldBefore(q, w, v, old.revision)
      BY <1>1, <2>1, <3>2 DEF Inv, Covers
    <3>4. q # p
      <4>1. old.revision \in Nat
        BY <1>1, <2>1, BasisRow
      <4> QED
        BY <3>3, <4>1 DEF HeldBefore
    <3>5. prop'[q] = prop[q] /\ Standing(q)' /\ place'[v].born = q
      BY <1>2, <3>3, <3>4 DEF HeldBefore
    <3>6. Uses(q, w)'
      BY <3>3, <3>5 DEF HeldBefore, Uses, Standing
    <3> QED
      BY <3>5, <3>6
  <2>2. CASE w = d.venture
    <3>1. Latest(place'[w].log) = Hold("treated")
      BY <1>1, <2>2, ReversedRows
    <3>2. v = "treated"
      BY <1>5, <3>1 DEF Hold
    <3> QED
      BY <3>2, NamesApart
  <2>3. CASE w \notin d.sources /\ w # d.venture
    <3>1. place'[w] = place[w]
      BY <1>1, <2>3, ReversedRows
    <3>2. PICK q \in Keys : Standing(q) /\ place[v].born = q /\ Uses(q, w)
      BY <1>5, <3>1 DEF Inv, ContinuedInStandingFusion, Standing
    <3>3. q # p
      BY <2>3, <3>2 DEF Uses
    <3>4. prop'[q] = prop[q] /\ Standing(q)' /\ place'[v].born = q
      BY <1>2, <3>2, <3>3
    <3>5. Uses(q, w)'
      BY <3>2, <3>4 DEF Uses
    <3> QED
      BY <3>4, <3>5
  <2> QED
    BY <2>1, <2>2, <2>3
<1>6. ContinuedInStandingFusion'
  BY <1>5 DEF ContinuedInStandingFusion, Standing
<1> QED
  BY <1>3, <1>4, <1>6

LEMMA ReverseStep ==
  ASSUME Inv, NEW p \in Keys, NEW kind \in {"user", "agent"}, Reverse(p, kind)
  PROVE  Inv'
<1>1. /\ TypeOK /\ There(p) /\ prop[p].draft \in Drafts /\ World
      /\ DOMAIN prop' = Keys /\ (\A q \in Keys \ {p} : prop'[q] = prop[q])
      /\ prop'[p].state = "reversed" /\ SameTerms(p) /\ prop'[p] \in Proposals(prop[p].draft)
      /\ receipt[p] # Nothing /\ UNCHANGED <<ideas, receipt, seen, deleg, touches>>
  BY ReverseFacts DEF Inv
<1>2. TypeOK'
  <2>1. /\ prop'[p].state # "proposed" /\ prop'[p].draft = prop[p].draft
        /\ place' \in [Places -> Workspace] /\ ideas' \in Nat
    BY <1>1 DEF SameTerms, World, TypeOK
  <2> QED
    BY <1>1, <2>1, ReverseMarks, DecidedTypes
<1>3. ASSUME NEW q \in Keys PROVE Core(q)'
  <2>1. Marked(q) /\ (~There(q) => moved'[q] = {}) /\ Core(q) /\ seen'[q] = seen[q]
    BY <1>1, ReverseMarks DEF Inv
  <2>2. CASE q = p
    BY <1>1, <2>1, <2>2, Ending
  <2>3. CASE q # p
    BY <1>1, <2>1, <2>3, Untouched
  <2> QED
    BY <2>2, <2>3
<1>4. \A q \in Keys : Unused(q)'
  BY <1>1 DEF Inv, Unused
<1> QED
  BY <1>2, <1>3, <1>4, ReverseHolds DEF Inv

-----------------------------------------------------------------------------
(* The invariant. *)

LEMMA InitInv == Init => Inv
<1> SUFFICES ASSUME Init PROVE Inv
  OBVIOUS
<1>1. ASSUME NEW w \in Places
      PROVE  place[w] \in Workspace /\ (place[w].log = <<>> \/ Latest(place[w].log) = Pursue(Own))
  <2> DEFINE log    == IF w \in Unreviewed THEN <<>> ELSE <<Pursue(Own)>>
             status == IF w \in Busy THEN "in_progress" ELSE "ready"
  <2>1. CASE w \in Bases
    <3>1. place[w] = Begun("user", log, status, 0)
      BY <2>1 DEF Init
    <3>2. log \in Seq(Review) /\ (log = <<>> \/ Latest(log) = Pursue(Own))
      <4>1. <<Pursue(Own)>> \in Seq(Review)
        BY DEF Pursue, Review
      <4>2. Latest(<<Pursue(Own)>>) = Pursue(Own)
        BY DEF Latest
      <4> QED
        BY <4>1, <4>2
    <3>3. status \in Status
      BY DEF Status
    <3> HIDE DEF log, status
    <3>4. place[w] \in Workspace
      BY <3>1, <3>2, <3>3, NewRow
    <3>5. place[w].log = log
      BY <3>1 DEF Begun
    <3> QED
      BY <3>2, <3>4, <3>5
  <2>2. CASE w \notin Bases
    <3>1. place[w] = Absent
      BY <2>2 DEF Init
    <3>2. <<>> \in Seq(Review)
      OBVIOUS
    <3> QED
      BY <3>1, <3>2 DEF Absent, Workspace, WorkRow, Status
  <2> QED
    BY <2>1, <2>2
<1>2. /\ prop = [p \in Keys |-> NoProposal] /\ receipt = [k \in Keys |-> Nothing]
      /\ seen = [p \in Keys |-> Nothing] /\ moved = [p \in Keys |-> {}]
      /\ unseen = [p \in Keys |-> FALSE] /\ deleg = {} /\ ideas = 0 /\ touches = 0
  BY DEF Init
<1>3. place \in [Places -> Workspace]
  <2>1. place = [w \in Places |-> place[w]]
    BY DEF Init
  <2> QED
    BY <1>1, <2>1
<1>4. \A p \in Keys : prop[p] = NoProposal /\ prop[p].state = "absent"
  BY <1>2 DEF NoProposal
<1>5. TypeOK
  BY <1>2, <1>3, <1>4 DEF TypeOK
<1>6. \A p \in Keys : Core(p) /\ Covers(p) /\ Unused(p)
  BY <1>2, <1>4 DEF Core, Rests, Moves, Stands, Watched, Covers, Unused, There, Standing
<1>7. ContinuedInStandingFusion
  <2>1. Pursue(Own).next = Own
    BY DEF Pursue
  <2> QED
    BY <1>1, <2>1, NamesApart DEF ContinuedInStandingFusion
<1> QED
  BY <1>5, <1>6, <1>7 DEF Inv

LEMMA StutterStep == ASSUME Inv, UNCHANGED vars PROVE Inv'
<1>1. UNCHANGED <<place, ideas, prop, receipt, seen, deleg, moved, unseen, touches>>
  BY DEF vars
<1>2. TypeOK'
  BY <1>1 DEF Inv, TypeOK
<1>3. World
  BY <1>1, SameWorld DEF Inv
<1>4. \A p \in Keys : Marked(p) /\ (~There(p) => moved'[p] = {})
  BY <1>1 DEF Marked, Inv, Core, Moves
<1> QED
  BY <1>1, <1>2, <1>3, <1>4, OthersStep

LEMMA NextKeeps == Inv /\ [Next]_vars => Inv'
<1> SUFFICES ASSUME Inv, [Next]_vars PROVE Inv'
  OBVIOUS
<1>1. ASSUME NEW k \in Keys, NEW d \in Drafts, Create(k, d) PROVE Inv'
  BY <1>1, CreateStep
<1>2. ASSUME NEW k \in Keys, NEW d \in Drafts, Revise(k, d) PROVE Inv'
  BY <1>2, ReviseStep
<1>3. ASSUME NEW k \in Keys, NEW d \in Drafts, NEW p \in Keys, Supersede(p, k, d) PROVE Inv'
  BY <1>3, SupersedeStep
<1>4. ASSUME NEW p \in Keys, Show(p) PROVE Inv'
  BY <1>4, ShowStep
<1>5. ASSUME NEW p \in Keys, NEW a \in Delegable, Delegate(p, a) PROVE Inv'
  BY <1>5, DelegateStep
<1>6. ASSUME NEW p \in Keys, NEW kind \in {"user", "agent"}, Apply(p, kind) PROVE Inv'
  BY <1>6, ApplyStep
<1>7. ASSUME NEW p \in Keys, NEW kind \in {"user", "agent"}, Reject(p, kind) PROVE Inv'
  BY <1>7, RejectStep
<1>8. ASSUME NEW p \in Keys, NEW kind \in {"user", "agent"}, Reverse(p, kind) PROVE Inv'
  BY <1>8, ReverseStep
<1>9. ASSUME NEW w \in Places, Redefine(w) PROVE Inv'
  BY <1>9, RedefineStep
<1>10. ASSUME NEW w \in Places, AnswerRequest(w) PROVE Inv'
  BY <1>10, AnswerStep
<1>11. ASSUME NEW w \in Places, Claim(w) PROVE Inv'
  BY <1>11, WorkStep DEF Claim, Status
<1>12. ASSUME NEW w \in Places, Release(w) PROVE Inv'
  BY <1>12, WorkStep DEF Release, Status
<1>13. ASSUME NEW w \in Places, Decide(w, Hold(Own)) PROVE Inv'
  BY <1>13, DecideStep
<1>14. CASE Capture
  BY <1>14, CaptureStep
<1>15. ASSUME NEW v \in Ventures, Promote(v) PROVE Inv'
  BY <1>15, PromoteStep
<1>16. CASE UNCHANGED vars
  BY <1>16, StutterStep
<1> QED
  BY <1>1, <1>2, <1>3, <1>4, <1>5, <1>6, <1>7, <1>8, <1>9, <1>10, <1>11, <1>12, <1>13,
     <1>14, <1>15, <1>16 DEF Next, Others

THEOREM InvariantHolds == Spec => []Inv
  BY InitInv, NextKeeps, PTL DEF Spec

-----------------------------------------------------------------------------
(* What a step does to the proposals. *)

LEMMA CreateCases ==
  ASSUME Inv, NEW k \in Keys, NEW d \in Drafts, Create(k, d)
  PROVE  /\ UNCHANGED place /\ DOMAIN prop' = Keys
         /\ \A q \in Keys \ {k} : prop'[q] = prop[q]
         /\ prop'[k] = prop[k] \/ (prop[k] = NoProposal /\ prop'[k] = Proposal(d))
<1>1. /\ TypeOK /\ receipt[k] = Nothing /\ Unused(k) /\ Accepts(k, d, Pending(d.sources))
      /\ Commit(k, d, Pending(d.sources), prop) /\ Pending(d.sources) \in SUBSET Keys
      /\ \A p \in Pending(d.sources) : There(p)
  BY DEF Inv, Create, Pending, There
<1>2. prop' = prop \/ prop' = [prop EXCEPT ![k] = Proposal(d)]
  BY <1>1, CommitFacts
<1>3. DOMAIN prop = Keys /\ prop[k] = NoProposal /\ UNCHANGED place
  BY <1>1 DEF TypeOK, Unused, Commit
<1>4. /\ DOMAIN prop' = Keys /\ \A q \in Keys \ {k} : prop'[q] = prop[q]
      /\ prop'[k] = prop[k] \/ prop'[k] = Proposal(d)
  BY <1>2, <1>3
<1> QED
  BY <1>3, <1>4

LEMMA SupersedeCases ==
  ASSUME Inv, NEW p \in Keys, NEW k \in Keys, NEW d \in Drafts, Supersede(p, k, d)
  PROVE  /\ UNCHANGED place /\ DOMAIN prop' = Keys
         /\ prop[p].state = "proposed" /\ prop'[p].state = "superseded" /\ SameTerms(p)
         /\ \/ \A q \in Keys \ {p} : prop'[q] = prop[q]
            \/ /\ p # k /\ prop[k] = NoProposal /\ prop'[k] = Proposal(d)
               /\ \A q \in Keys \ {p, k} : prop'[q] = prop[q]
<1> DEFINE open  == Pending(d.sources) \ {p}
           row   == [prop[p] EXCEPT !.state = "superseded", !.version = @ + 1]
           props == [prop EXCEPT ![p].state = "superseded", ![p].version = @ + 1]
<1>1. /\ TypeOK /\ Unused(k) /\ Accepts(k, d, open) /\ Commit(k, d, open, props)
      /\ open \in SUBSET Keys /\ \A q \in open : There(q)
      /\ prop[p].state = "proposed"
  BY DEF Inv, Supersede, Pending, There
<1>2. There(p) /\ receipt[p] # Nothing
  BY <1>1 DEF Inv, There, Unused, NoProposal
<1>3. row.state = "superseded" /\ row.basis = prop[p].basis /\ row.draft = prop[p].draft
  BY <1>1, <1>2, SteppedRow DEF States
<1>4. DOMAIN props = Keys /\ props[p] = row /\ \A q \in Keys \ {p} : props[q] = prop[q]
  BY <1>1 DEF TypeOK
<1>5. \/ receipt[k] = Nothing /\ prop' = [props EXCEPT ![k] = Proposal(d)]
      \/ prop' = props
  <2> HIDE DEF open, props
  <2> QED
    BY <1>1, CommitFacts
<1>6. UNCHANGED place
  BY <1>1 DEF Commit
<1> HIDE DEF row, props
<1>7. CASE prop' = props
  BY <1>1, <1>3, <1>4, <1>6, <1>7 DEF SameTerms
<1>8. CASE receipt[k] = Nothing /\ prop' = [props EXCEPT ![k] = Proposal(d)]
  <2>1. p # k /\ prop[k] = NoProposal
    BY <1>1, <1>2, <1>8 DEF Unused
  <2>2. /\ DOMAIN prop' = Keys /\ prop'[k] = Proposal(d) /\ prop'[p] = row
        /\ \A q \in Keys \ {p, k} : prop'[q] = prop[q]
    BY <1>4, <1>8, <2>1
  <2> QED
    BY <1>1, <1>3, <1>6, <2>1, <2>2 DEF SameTerms
<1> QED
  BY <1>5, <1>7, <1>8

LEMMA ReviseCases ==
  ASSUME Inv, NEW p \in Keys, NEW d \in Drafts, Revise(p, d)
  PROVE  /\ UNCHANGED place /\ DOMAIN prop' = Keys
         /\ prop[p].state = "proposed" /\ prop'[p].state = "proposed"
         /\ prop'[p].basis = SourceState(d)
         /\ \A q \in Keys \ {p} : prop'[q] = prop[q]
<1>1. TypeOK /\ There(p) /\ prop[p].state = "proposed" /\ DOMAIN prop = Keys
  BY DEF Inv, Revise, There, TypeOK
<1>2. DOMAIN prop[p] = {"state", "version", "revision", "draft", "basis", "idea", "initial", "by"}
  BY <1>1, ProposalRow DEF Proposals
<1> QED
  BY <1>1, <1>2 DEF Revise

LEMMA RejectCases ==
  ASSUME Inv, NEW p \in Keys, NEW kind \in {"user", "agent"}, Reject(p, kind)
  PROVE  /\ UNCHANGED place /\ DOMAIN prop' = Keys
         /\ prop[p].state = "proposed" /\ prop'[p].state = "rejected" /\ SameTerms(p)
         /\ \A q \in Keys \ {p} : prop'[q] = prop[q]
<1>1. TypeOK /\ There(p) /\ prop[p].state = "proposed" /\ DOMAIN prop = Keys
  BY DEF Inv, Reject, There, TypeOK
<1>2. LET row == Resolved(p, "rejected", kind)
      IN  row.state = "rejected" /\ row.draft = prop[p].draft /\ row.basis = prop[p].basis
  BY <1>1, ResolvedRow DEF States
<1> QED
  BY <1>1, <1>2 DEF Reject, SameTerms

\* Others, looking and delegating leave the proposals as they are.
LEMMA OthersKeep ==
  ASSUME Others \/ (\E p \in Keys : Show(p) \/ \E a \in Delegable : Delegate(p, a)) \/ UNCHANGED vars
  PROVE  prop' = prop
  BY DEF Others, Redefine, AnswerRequest, Decide, Claim, Release, Touch, Capture, Promote,
         Show, Delegate, vars

\* Only accepting makes a proposal applied, and only reversing makes it reversed.
LEMMA Decisions ==
  ASSUME Inv, [Next]_vars, NEW q \in Keys
  PROVE  /\ prop[q].state = "proposed" /\ prop'[q].state = "applied" =>
              \E kind \in {"user", "agent"} : Apply(q, kind)
         /\ prop[q].state = "applied" /\ prop'[q].state = "reversed" =>
              \E kind \in {"user", "agent"} : Reverse(q, kind)
<1> DEFINE Kinds == {"user", "agent"}
           Goal  == /\ prop[q].state = "proposed" /\ prop'[q].state = "applied" =>
                         \E kind \in Kinds : Apply(q, kind)
                    /\ prop[q].state = "applied" /\ prop'[q].state = "reversed" =>
                         \E kind \in Kinds : Reverse(q, kind)
<1>1. ASSUME NEW k \in Keys, NEW d \in Drafts, Create(k, d) PROVE Goal
  BY <1>1, CreateCases DEF NoProposal
<1>2. ASSUME NEW k \in Keys, NEW d \in Drafts, Revise(k, d) PROVE Goal
  BY <1>2, ReviseCases
<1>3. ASSUME NEW k \in Keys, NEW d \in Drafts, NEW p \in Keys, Supersede(p, k, d) PROVE Goal
  BY <1>3, SupersedeCases DEF NoProposal
<1>4. ASSUME NEW p \in Keys, NEW kind \in Kinds, Apply(p, kind) PROVE Goal
  BY <1>4, ApplyFacts DEF Standing
<1>5. ASSUME NEW p \in Keys, NEW kind \in Kinds, Reject(p, kind) PROVE Goal
  BY <1>5, RejectCases
<1>6. ASSUME NEW p \in Keys, NEW kind \in Kinds, Reverse(p, kind) PROVE Goal
  BY <1>6, ReverseFacts
<1>7. CASE Others \/ (\E p \in Keys : Show(p) \/ \E a \in Delegable : Delegate(p, a)) \/ UNCHANGED vars
  BY <1>7, OthersKeep
<1> QED
  BY <1>1, <1>2, <1>3, <1>4, <1>5, <1>6, <1>7 DEF Next

-----------------------------------------------------------------------------
(* What the runs check. *)

(* Rows are what the schema allows, and at most one proposal over a set of  *)
(* sources waits for a decision, however proposals are created, replaced    *)
(* and revised under equal and other request keys.                          *)
LEMMA TypeCorrect == Spec => []TypeOK
  BY InvariantHolds, PTL DEF Inv

(* No acceptance, reversal or promotion leaves a source on hold as          *)
(* continued in a venture whose fusion does not stand.                      *)
THEOREM SourcesContinueInStandingFusions == Spec => []ContinuedInStandingFusion
  BY InvariantHolds, PTL DEF Inv

LEMMA AcceptedStep ==
  ASSUME Inv, [Next]_vars, NEW p \in Keys, prop[p].state = "proposed", prop'[p].state = "applied"
  PROVE  moved[p] = {}
<1> SUFFICES ASSUME NEW w \in moved[p] PROVE FALSE
  OBVIOUS
<1>1. PICK kind \in {"user", "agent"} : Apply(p, kind)
  BY Decisions
<1>2. TypeOK /\ There(p) /\ prop[p].draft \in Drafts
  BY ProposalRow DEF Inv, There
<1>3. w \in prop[p].draft.sources /\ Less(prop[p].basis[w], place[w])
  BY <1>2 DEF Inv, Core, Moves
<1>4. prop[p].basis[w] = Source(w) /\ w \in Places
  BY <1>1, <1>2, <1>3, DraftNames DEF Apply, Agrees, SourceState
<1> QED
  BY <1>2, <1>3, <1>4, SourceNow

(* A fusion that is accepted was revised after everything others did to its *)
(* sources: whatever happened to one of them since, the comparison with the *)
(* recorded source state tells it from the present one.                     *)
THEOREM AcceptanceIsOverSourcesAsRevised == Spec => AcceptedOverSourcesAsRevised
<1>1. Inv /\ [Next]_vars =>
        [\A p \in Keys : prop[p].state = "proposed" /\ prop'[p].state = "applied" =>
           moved[p] = {}]_vars
  BY AcceptedStep
<1> QED
  BY <1>1, InvariantHolds, PTL DEF Spec, AcceptedOverSourcesAsRevised

LEMMA ReversedStep ==
  ASSUME Inv, [Next]_vars, NEW p \in Keys, prop[p].state = "applied", prop'[p].state = "reversed"
  PROVE  ~unseen[p]
<1> SUFFICES ASSUME unseen[p] PROVE FALSE
  BY DEF Inv, TypeOK
<1>1. PICK kind \in {"user", "agent"} : Reverse(p, kind)
  BY Decisions
<1>2. TypeOK /\ There(p) /\ Standing(p)
  BY DEF Inv, There, Standing
<1>3. Activity(p) \in {prop[p].initial, seen[p]} /\ Activity(p) # Nothing
  <2>1. Activity(p) \in Activities(prop[p].draft) /\ prop[p].draft \in Drafts
    BY <1>2, ActivityNow, ProposalRow
  <2> QED
    BY <1>1, <2>1, NamesApart DEF Reverse, ActivityKnown
<1>4. Earlier(Activity(p), prop[p].draft, place)
  BY <1>2, <1>3 DEF Inv, Core, Watched
<1> QED
  BY <1>2, <1>4, ActivityNow

(* A reversal names an activity that somebody was shown, and that holds      *)
(* everything that happened to the result and to what it carried over: two  *)
(* activities that others kept apart by doing something in between never    *)
(* look alike.  Who was shown it the code does not ask.                     *)
THEOREM ReversalIsKnowing == Spec => ReversedKnowingly
<1>1. Inv /\ [Next]_vars =>
        [\A p \in Keys : prop[p].state = "applied" /\ prop'[p].state = "reversed" =>
           ~unseen[p]]_vars
  BY ReversedStep
<1> QED
  BY <1>1, InvariantHolds, PTL DEF Spec, ReversedKnowingly

LEMMA RestoredStep ==
  ASSUME Inv, [Next]_vars, NEW p \in Keys, prop[p].state = "applied", prop'[p].state = "reversed",
         NEW w \in prop[p].draft.sources
  PROVE  LET log == place[w].log
             n   == Len(log)
         IN  /\ log[n] = Hold(prop[p].draft.venture)
             /\ Latest(place'[w].log) = IF n = 1 THEN Pursue("reopened") ELSE log[n - 1]
             /\ w \in prop[p].draft.drops => place'[w].work.status = "ready"
<1> DEFINE log == place[w].log
           n   == Len(log)
           b   == prop[p].basis[w]
<1>1. PICK kind \in {"user", "agent"} : Reverse(p, kind)
  BY Decisions
<1>2. TypeOK /\ There(p) /\ Standing(p)
  BY DEF Inv, There, Standing
<1>3. n = b.revision + 1 /\ b.revision \in Nat
  BY <1>1, <1>2, BasisRow DEF Reverse, NothingLater
<1>4. log[n] = Hold(prop[p].draft.venture)
  BY <1>2, <1>3 DEF Inv, Core, Stands
<1>5. /\ Latest(place'[w].log) = Replayed(b)
      /\ w \in prop[p].draft.drops => place'[w].work.status = b.work.status
  BY <1>1, <1>2, ReversedRows DEF Reverse
<1>6. /\ b.review = IF b.revision = 0 THEN Nothing ELSE log[b.revision]
      /\ w \in prop[p].draft.drops => b.work.status = "ready"
  BY <1>2 DEF Inv, Core, Rests
<1>7. b.revision # 0 => b.review # Nothing
  <2>1. w \in Places /\ log \in Seq(Review)
    BY <1>2, BasisRow, PlacesTyped, PlaceRow
  <2>2. b.revision # 0 => b.revision \in 1..Len(log)
    BY <1>3
  <2>3. b.revision # 0 => log[b.revision] \in Review
    BY <2>1, <2>2
  <2> QED
    BY <1>6, <2>3, NamesApart
<1>8. (n = 1 <=> b.revision = 0) /\ n - 1 = b.revision
  BY <1>3
<1>9. Replayed(b) = IF n = 1 THEN Pursue("reopened") ELSE log[n - 1]
  BY <1>6, <1>7, <1>8 DEF Replayed
<1> QED
  BY <1>4, <1>5, <1>6, <1>9

(* Reversing covers up no review but the hold of this very fusion, gives    *)
(* each source the direction it had before that, and reopens the work that  *)
(* the acceptance cancelled.                                                *)
THEOREM ReversingRestores == Spec => ReversalRestores
<1>1. Inv /\ [Next]_vars =>
        [\A p \in Keys : prop[p].state = "applied" /\ prop'[p].state = "reversed" =>
           \A w \in prop[p].draft.sources :
             LET log == place[w].log
                 n   == Len(log)
             IN  /\ log[n] = Hold(prop[p].draft.venture)
                 /\ Latest(place'[w].log) = IF n = 1 THEN Pursue("reopened") ELSE log[n - 1]
                 /\ w \in prop[p].draft.drops => place'[w].work.status = "ready"]_vars
  BY RestoredStep
<1> QED
  BY <1>1, InvariantHolds, PTL DEF Spec, ReversalRestores

-----------------------------------------------------------------------------
(* Proposals are optimistic offers. *)

StatusFor(state) == CASE state = "absent"   -> "absent"
                      [] state = "proposed" -> "open"
                      [] state = "applied"  -> "accepted"
                      [] state = "reversed" -> "undone"
                      [] OTHER              -> "withdrawn"

Looks   == [w \in Places |-> Source(w)]
BasisOf == [p \in Keys |-> prop[p].basis]

LEMMA Statuses ==
  /\ StatusFor("absent") = "absent" /\ StatusFor("proposed") = "open"
  /\ StatusFor("applied") = "accepted" /\ StatusFor("reversed") = "undone"
  /\ StatusFor("superseded") = "withdrawn" /\ StatusFor("rejected") = "withdrawn"
  BY DEF StatusFor

LEMMA StatusRow == OfferStatus = [p \in Keys |-> StatusFor(prop[p].state)]
  BY DEF OfferStatus, StatusFor

\* Offers of which nothing changes.
LEMMA OffersStay ==
  ASSUME \A q \in Keys : /\ StatusFor(prop'[q].state) = StatusFor(prop[q].state)
                         /\ prop'[q].basis = prop[q].basis
  PROVE  UNCHANGED <<OfferStatus, BasisOf>>
<1>1. OfferStatus' = [p \in Keys |-> StatusFor(prop'[p].state)]
  BY DEF OfferStatus, StatusFor
<1> QED
  BY <1>1, StatusRow DEF BasisOf

\* One offer changes its status, and its basis or not.
LEMMA OneOffer ==
  ASSUME NEW p \in Keys, \A q \in Keys \ {p} : prop'[q] = prop[q]
  PROVE  /\ OfferStatus' = [OfferStatus EXCEPT ![p] = StatusFor(prop'[p].state)]
         /\ BasisOf' = [BasisOf EXCEPT ![p] = prop'[p].basis]
         /\ prop'[p].basis = prop[p].basis => BasisOf' = BasisOf
<1>1. OfferStatus' = [q \in Keys |-> StatusFor(prop'[q].state)]
  BY DEF OfferStatus, StatusFor
<1> QED
  BY <1>1, StatusRow DEF BasisOf

\* What a proposal is written from is how the sources look.
LEMMA LooksNow ==
  ASSUME NEW d \in Drafts
  PROVE  /\ d.sources \in SUBSET Places
         /\ SourceState(d) = [t \in d.sources |-> Looks[t]]
  BY DraftNames DEF SourceState, Looks

LEMMA OptimisticInit == Init => Optimistic!Init
<1> SUFFICES ASSUME Init PROVE Optimistic!Init
  OBVIOUS
<1>1. \A p \in Keys : prop[p].state = "absent" /\ prop[p].basis = Nothing
  BY DEF Init, NoProposal
<1>2. OfferStatus = [o \in Keys |-> "absent"]
  BY <1>1, StatusRow, Statuses
<1>3. [p \in Keys |-> prop[p].basis] = [o \in Keys |-> Nothing]
  BY <1>1
<1> QED
  BY <1>2, <1>3 DEF Optimistic!Init

LEMMA OptimisticMake ==
  ASSUME NEW p \in Keys, NEW d \in Drafts, \A q \in Keys \ {p} : prop'[q] = prop[q],
         prop[p].state \in {"absent", "proposed"}, prop'[p].state = "proposed",
         prop'[p].basis = SourceState(d)
  PROVE  Optimistic!Make(p)
<1>1. OfferStatus[p] \in {"absent", "open"}
  BY StatusRow, Statuses
<1>2. OfferStatus' = [OfferStatus EXCEPT ![p] = "open"]
  BY OneOffer, Statuses
<1>3. BasisOf' = [BasisOf EXCEPT ![p] = [t \in d.sources |-> Looks[t]]]
  BY OneOffer, LooksNow
<1>4. \E on \in SUBSET Places : BasisOf' = [BasisOf EXCEPT ![p] = [t \in on |-> Looks[t]]]
  BY <1>3, LooksNow
<1> QED
  BY <1>1, <1>2, <1>4 DEF Optimistic!Make, BasisOf, Looks

LEMMA OptimisticSupersede ==
  ASSUME Inv, NEW p \in Keys, NEW k \in Keys, NEW d \in Drafts, Supersede(p, k, d)
  PROVE  Optimistic!Withdraw(p)
<1>1. /\ UNCHANGED place
      /\ prop[p].state = "proposed" /\ prop'[p].state = "superseded" /\ SameTerms(p)
      /\ \/ \A q \in Keys \ {p} : prop'[q] = prop[q]
         \/ /\ p # k /\ prop[k] = NoProposal /\ prop'[k] = Proposal(d)
            /\ \A q \in Keys \ {p, k} : prop'[q] = prop[q]
  BY SupersedeCases
<1>2. OfferStatus[p] = "open"
  BY <1>1, StatusRow, Statuses
<1>3. Looks' = Looks
  BY <1>1 DEF Looks, Source
<1>4. CASE \A q \in Keys \ {p} : prop'[q] = prop[q]
  <2>1. OfferStatus' = [OfferStatus EXCEPT ![p] = "withdrawn"] /\ BasisOf' = BasisOf
    BY <1>1, <1>4, OneOffer, Statuses DEF SameTerms
  <2> QED
    BY <1>2, <1>3, <2>1 DEF Optimistic!Withdraw, BasisOf, Looks
<1>5. CASE /\ p # k /\ prop[k] = NoProposal /\ prop'[k] = Proposal(d)
           /\ \A q \in Keys \ {p, k} : prop'[q] = prop[q]
  <2>1. /\ k \in Keys \ {p} /\ OfferStatus[k] = "absent"
        /\ prop'[k].state = "proposed" /\ prop'[k].basis = SourceState(d)
    BY <1>5, StatusRow, Statuses DEF NoProposal, Proposal
  <2>2. OfferStatus' = [q \in Keys |-> StatusFor(prop'[q].state)]
    BY DEF OfferStatus, StatusFor
  <2>3. OfferStatus' = [OfferStatus EXCEPT ![p] = "withdrawn", ![k] = "open"]
    BY <1>1, <1>5, <2>1, <2>2, StatusRow, Statuses
  <2>4. BasisOf' = [BasisOf EXCEPT ![k] = [t \in d.sources |-> Looks[t]]]
    BY <1>1, <1>5, <2>1, LooksNow DEF BasisOf, SameTerms
  <2>5. \E n \in Keys \ {p}, on \in SUBSET Places :
          /\ OfferStatus[n] = "absent"
          /\ OfferStatus' = [OfferStatus EXCEPT ![p] = "withdrawn", ![n] = "open"]
          /\ BasisOf' = [BasisOf EXCEPT ![n] = [t \in on |-> Looks[t]]]
    BY <2>1, <2>3, <2>4, LooksNow
  <2> QED
    BY <1>2, <1>3, <2>5 DEF Optimistic!Withdraw, BasisOf, Looks
<1> QED
  BY <1>1, <1>4, <1>5

LEMMA OptimisticStep ==
  Inv /\ [Next]_vars => [Optimistic!Next]_<<Looks, OfferStatus, BasisOf>>
<1> DEFINE Kinds == {"user", "agent"}
<1> SUFFICES ASSUME Inv, [Next]_vars
             PROVE  Optimistic!Next
  OBVIOUS
<1>1. ASSUME NEW p \in Keys, Optimistic!Make(p) \/ Optimistic!Accept(p) \/ Optimistic!Withdraw(p)
                              \/ Optimistic!Undo(p)
      PROVE  Optimistic!Next
  BY <1>1 DEF Optimistic!Next
<1>2. ASSUME UNCHANGED <<OfferStatus, BasisOf>> PROVE Optimistic!Next
  BY <1>2 DEF Optimistic!Next, Optimistic!Change, BasisOf
<1>3. ASSUME prop' = prop PROVE Optimistic!Next
  <2>1. UNCHANGED <<OfferStatus, BasisOf>>
    BY <1>3, OffersStay
  <2> QED
    BY <1>2, <2>1
<1>4. ASSUME NEW k \in Keys, NEW d \in Drafts, Create(k, d) PROVE Optimistic!Next
  <2>1. /\ \A q \in Keys \ {k} : prop'[q] = prop[q]
        /\ prop'[k] = prop[k] \/ (prop[k] = NoProposal /\ prop'[k] = Proposal(d))
    BY <1>4, CreateCases
  <2>2. CASE prop'[k] = prop[k]
    <3>1. UNCHANGED <<OfferStatus, BasisOf>>
      BY <2>1, <2>2, OffersStay
    <3> QED
      BY <1>2, <3>1
  <2>3. CASE prop[k] = NoProposal /\ prop'[k] = Proposal(d)
    <3>1. prop[k].state = "absent" /\ prop'[k].state = "proposed" /\ prop'[k].basis = SourceState(d)
      BY <2>3 DEF NoProposal, Proposal
    <3> QED
      BY <1>1, <2>1, <3>1, OptimisticMake
  <2> QED
    BY <2>1, <2>2, <2>3
<1>5. ASSUME NEW k \in Keys, NEW d \in Drafts, Revise(k, d) PROVE Optimistic!Next
  BY <1>1, <1>5, ReviseCases, OptimisticMake
<1>6. ASSUME NEW k \in Keys, NEW d \in Drafts, NEW p \in Keys, Supersede(p, k, d)
      PROVE  Optimistic!Next
  BY <1>1, <1>6, OptimisticSupersede
<1>7. ASSUME NEW p \in Keys, NEW kind \in Kinds, Apply(p, kind) PROVE Optimistic!Next
  <2>1. /\ (\A q \in Keys \ {p} : prop'[q] = prop[q]) /\ prop[p].state = "proposed"
        /\ prop'[p].state = "applied" /\ prop'[p].basis = prop[p].basis
        /\ prop[p].draft \in Drafts /\ prop[p].basis = SourceState(prop[p].draft)
    BY <1>7, ApplyFacts DEF Apply, Agrees, Standing, SameTerms
  <2>2. /\ OfferStatus' = [OfferStatus EXCEPT ![p] = "accepted"] /\ BasisOf' = BasisOf
        /\ OfferStatus[p] = "open"
    BY <2>1, OneOffer, StatusRow, Statuses
  <2>3. BasisOf[p] = [t \in prop[p].draft.sources |-> Looks[t]]
    BY <2>1, LooksNow DEF BasisOf
  <2>4. \A t \in DOMAIN BasisOf[p] : BasisOf[p][t] = Looks[t]
    BY <2>3
  <2>5. Optimistic!Accept(p)
    BY <2>2, <2>4 DEF Optimistic!Accept, BasisOf, Looks
  <2> QED
    BY <1>1, <2>5
<1>8. ASSUME NEW p \in Keys, NEW kind \in Kinds, Reject(p, kind) PROVE Optimistic!Next
  <2>1. /\ (\A q \in Keys \ {p} : prop'[q] = prop[q]) /\ prop[p].state = "proposed"
        /\ prop'[p].state = "rejected" /\ prop'[p].basis = prop[p].basis /\ UNCHANGED place
    BY <1>8, RejectCases DEF SameTerms
  <2>2. /\ OfferStatus' = [OfferStatus EXCEPT ![p] = "withdrawn"] /\ BasisOf' = BasisOf
        /\ OfferStatus[p] = "open"
    BY <2>1, OneOffer, StatusRow, Statuses
  <2>3. Looks' = Looks
    BY <2>1 DEF Looks, Source
  <2>4. Optimistic!Withdraw(p)
    BY <2>2, <2>3 DEF Optimistic!Withdraw, BasisOf, Looks
  <2> QED
    BY <1>1, <2>4
<1>9. ASSUME NEW p \in Keys, NEW kind \in Kinds, Reverse(p, kind) PROVE Optimistic!Next
  <2>1. /\ (\A q \in Keys \ {p} : prop'[q] = prop[q]) /\ prop[p].state = "applied"
        /\ prop'[p].state = "reversed" /\ prop'[p].basis = prop[p].basis
    BY <1>9, ReverseFacts DEF Standing, SameTerms
  <2>2. /\ OfferStatus' = [OfferStatus EXCEPT ![p] = "undone"] /\ BasisOf' = BasisOf
        /\ OfferStatus[p] = "accepted"
    BY <2>1, OneOffer, StatusRow, Statuses
  <2>3. Optimistic!Undo(p)
    BY <2>2 DEF Optimistic!Undo, BasisOf
  <2> QED
    BY <1>1, <2>3
<1>10. CASE Others \/ (\E p \in Keys : Show(p) \/ \E a \in Delegable : Delegate(p, a)) \/ UNCHANGED vars
  BY <1>3, <1>10, OthersKeep
<1> QED
  BY <1>4, <1>5, <1>6, <1>7, <1>8, <1>9, <1>10 DEF Next

(* A proposal is an optimistic offer: it is accepted only while its sources *)
(* look as they did when it was last written, once, and undone only after   *)
(* it was accepted.                                                         *)
THEOREM ProposalsAreOptimistic == Spec => IsOptimistic
  BY OptimisticInit, OptimisticStep, InvariantHolds, PTL
     DEF Spec, IsOptimistic, Optimistic!Spec, Looks, BasisOf

-----------------------------------------------------------------------------
(* Workspaces: names go on selecting what they select.                      *)

\* No alias is of two ventures.
AliasesApart ==
  \A v, w \in Spaces!Existing :
    venture[v].alias # Nothing /\ venture[v].alias = venture[w].alias => v = w

\* An intake that is to store a checkpoint has its venture.
IntakeOf(p) ==
  /\ taking[p].at # "idle" => taking[p].manifest \in Manifests
  /\ taking[p].at = "storing" => Spaces!Exists(taking[p].manifest.of)

\* A checkpoint came with a review of its venture, which no other came with; a
\* manifest has one checkpoint.
CheckpointsStand ==
  /\ \A c \in checkpoints : /\ Spaces!Exists(c.manifest.of)
                            /\ c.review <= venture[c.manifest.of].review
  /\ \A c, d \in checkpoints :
        \/ c.manifest = d.manifest
        \/ c.manifest.of = d.manifest.of /\ c.review = d.review
        => c = d

SpaceInv ==
  /\ venture \in [Ids -> {Nothing} \cup Spaces!Venture] /\ known \subseteq Ids
  /\ taking \in [Intakes -> Spaces!Taking]
  /\ AliasesApart
  /\ \A p \in Intakes : IntakeOf(p)
  /\ checkpoints \subseteq Spaces!Checkpoint
  /\ CheckpointsStand

\* What may happen to the rows of ventures: one is opened, without an alias; one gets an
\* alias that no other has; or one keeps its alias, and has the same reviews or more.
RowsMove ==
  \E v \in Ids, row \in Spaces!Venture :
    /\ venture' = [venture EXCEPT ![v] = row]
    /\ \/ ~Spaces!Exists(v) /\ row.alias = Nothing
       \/ /\ Spaces!Exists(v)
          /\ row.review >= venture[v].review
          /\ \/ row.alias = venture[v].alias
             \/ Spaces!Free(v, row.alias) /\ row.alias \in Aliases

LEMMA OpenMoves ==
  ASSUME SpaceInv, NEW v \in Ids, NEW i \in Ids \cup {Nothing}, Spaces!Open(v, i)
  PROVE  RowsMove /\ Spaces!Exists(v)'
<1>1. Spaces!Opened(i) \in Spaces!Venture /\ Spaces!Opened(i).alias = Nothing
  BY SpaceNames DEF Spaces!Opened, Spaces!Venture
<1>2. venture' = [venture EXCEPT ![v] = Spaces!Opened(i)] /\ ~Spaces!Exists(v)
  BY DEF Spaces!Open
<1> QED
  BY SpaceNames, <1>1, <1>2 DEF RowsMove, Spaces!Exists, SpaceInv

LEMMA AliasMoves ==
  ASSUME SpaceInv, NEW x \in Spaces!Names, NEW alias \in Aliases,
         Spaces!SetAlias(x, alias)
  PROVE  RowsMove
<1>1. PICK v \in Spaces!ByIdentity(x) :
        /\ Spaces!Free(v, alias)
        /\ venture' = [venture EXCEPT ![v] = [venture[v] EXCEPT !.alias = alias]]
  BY DEF Spaces!SetAlias
<1>2. v \in Ids /\ Spaces!Exists(v) /\ venture[v] \in Spaces!Venture
  BY <1>1 DEF Spaces!ByIdentity, Spaces!Existing, Spaces!Exists, SpaceInv
<1> DEFINE row == [venture[v] EXCEPT !.alias = alias]
<1>3. row \in Spaces!Venture /\ row.alias = alias /\ row.review >= venture[v].review
  BY <1>2 DEF Spaces!Venture
<1> HIDE DEF row
<1>4. venture' = [venture EXCEPT ![v] = row]
  BY <1>1 DEF row
<1> QED
  BY <1>1, <1>2, <1>3, <1>4 DEF RowsMove

\* A title, a snapshot of a module, a review.
LEMMA EditMoves ==
  ASSUME SpaceInv, NEW v \in Ids, Spaces!Exists(v),
         \/ Spaces!Rename(v)
         \/ \E m \in Spaces!Modules : Spaces!AppendSnapshot(v, m)
         \/ venture' = Spaces!Reviewed(v) /\ venture[v].review < MaxReviews
  PROVE  RowsMove
<1>1. venture[v] \in Spaces!Venture /\ v \in Spaces!Existing
  BY DEF SpaceInv, Spaces!Exists, Spaces!Existing
<1>2. ASSUME Spaces!Editable(v)
      PROVE  /\ venture[v].title < MaxEdits
             /\ venture[v].snapshots["configuration"] < MaxEdits
             /\ venture[v].snapshots["metrics"] < MaxEdits
  <2>1. Spaces!Edits(v) < MaxEdits
    BY <1>1, <1>2 DEF Spaces!Editable
  <2>2. /\ venture[v].title \in Nat
        /\ venture[v].snapshots["configuration"] \in Nat
        /\ venture[v].snapshots["metrics"] \in Nat
        /\ MaxEdits \in Nat
    BY SpaceNames, <1>1 DEF Spaces!Venture, Spaces!Modules
  <2> DEFINE a == venture[v].title
             b == venture[v].snapshots["configuration"]
             c == venture[v].snapshots["metrics"]
  <2>3. a + b + c < MaxEdits
    BY <2>1 DEF Spaces!Edits
  <2>4. a \in Nat /\ b \in Nat /\ c \in Nat
    BY <2>2
  <2> HIDE DEF a, b, c
  <2>5. a < MaxEdits
    BY <2>2, <2>3, <2>4
  <2>6. b < MaxEdits
    BY <2>2, <2>3, <2>4
  <2>7. c < MaxEdits
    BY <2>2, <2>3, <2>4
  <2> QED
    BY <2>5, <2>6, <2>7 DEF a, b, c
<1> DEFINE Moved(row) == /\ venture' = [venture EXCEPT ![v] = row]
                         /\ row.alias = venture[v].alias /\ row.review >= venture[v].review
<1>3. \E row \in Spaces!Venture : Moved(row)
  <2>1. CASE Spaces!Rename(v)
    <3> DEFINE row == [venture[v] EXCEPT !.title = venture[v].title + 1]
    <3>1. venture' = [venture EXCEPT ![v] = row]
      BY <2>1 DEF Spaces!Rename
    <3>2. venture[v].title < MaxEdits
      BY <1>2, <2>1 DEF Spaces!Rename
    <3>3. row \in Spaces!Venture /\ row.alias = venture[v].alias /\ row.review >= venture[v].review
      BY SpaceNames, <1>1, <3>2 DEF Spaces!Venture
    <3> HIDE DEF row
    <3> QED
      BY <3>1, <3>3
  <2>2. CASE \E m \in Spaces!Modules : Spaces!AppendSnapshot(v, m)
    <3>1. PICK m \in Spaces!Modules : Spaces!AppendSnapshot(v, m)
      BY <2>2
    <3> DEFINE row == [venture[v] EXCEPT !.snapshots = [venture[v].snapshots EXCEPT
                                                      ![m] = venture[v].snapshots[m] + 1]]
    <3>2. venture' = [venture EXCEPT ![v] = row]
      BY <3>1 DEF Spaces!AppendSnapshot
    <3>3. venture[v].snapshots[m] < MaxEdits
      BY <1>2, <3>1 DEF Spaces!AppendSnapshot, Spaces!Modules
    <3>4. row \in Spaces!Venture /\ row.alias = venture[v].alias /\ row.review >= venture[v].review
      BY SpaceNames, <1>1, <3>3 DEF Spaces!Venture
    <3> HIDE DEF row
    <3> QED
      BY <3>2, <3>4
  <2>3. CASE venture' = Spaces!Reviewed(v) /\ venture[v].review < MaxReviews
    <3> DEFINE row == [venture[v] EXCEPT !.review = venture[v].review + 1]
    <3>1. venture' = [venture EXCEPT ![v] = row]
      BY <2>3 DEF Spaces!Reviewed
    <3>2. row \in Spaces!Venture /\ row.alias = venture[v].alias /\ row.review >= venture[v].review
      BY SpaceNames, <1>1, <2>3 DEF Spaces!Venture
    <3> HIDE DEF row
    <3> QED
      BY <3>1, <3>2
  <2> QED
    BY <2>1, <2>2, <2>3
<1> QED
  BY <1>3 DEF RowsMove

\* Every step leaves the rows of ventures alone or is one of those.
LEMMA RowsStep ==
  ASSUME SpaceInv, Spaces!Next
  PROVE  venture' = venture \/ RowsMove
<1>1. ASSUME NEW v \in Ids,
             \/ Spaces!CreateVenture(v) \/ Spaces!Rename(v) \/ Spaces!OtherReview(v)
             \/ \E i \in Ids : Spaces!Promote(i, v)
             \/ \E m \in Spaces!Modules : Spaces!AppendSnapshot(v, m)
      PROVE  RowsMove
  <2>1. CASE Spaces!CreateVenture(v) \/ \E i \in Ids : Spaces!Promote(i, v)
    BY <2>1, OpenMoves DEF Spaces!CreateVenture, Spaces!Promote
  <2>2. CASE Spaces!Rename(v) \/ Spaces!OtherReview(v)
               \/ \E m \in Spaces!Modules : Spaces!AppendSnapshot(v, m)
    <3>1. Spaces!Exists(v)
      BY <2>2 DEF Spaces!Rename, Spaces!OtherReview, Spaces!AppendSnapshot, Spaces!Editable
    <3>2. Spaces!OtherReview(v) => venture' = Spaces!Reviewed(v) /\ venture[v].review < MaxReviews
      BY DEF Spaces!OtherReview
    <3> QED
      BY <2>2, <3>1, <3>2, EditMoves
  <2> QED
    BY <1>1, <2>1, <2>2
<1>2. ASSUME NEW p \in Intakes,
             Spaces!PromoteProject(p) \/ Spaces!CreateProject(p) \/ Spaces!StoreProject(p)
      PROVE  venture' = venture \/ RowsMove
  <2> DEFINE v == taking[p].manifest.of
             i == taking[p].manifest.idea
  <2>1. v \in Ids /\ i \in Ids \cup {Nothing}
    BY SpaceNames, <1>2
    DEF Spaces!PromoteProject, Spaces!CreateProject, Spaces!StoreProject, Spaces!At, SpaceInv,
        IntakeOf
  <2>2. \/ Spaces!Open(v, i) \/ Spaces!Open(v, Nothing) \/ venture' = venture
        \/ /\ taking[p].at = "storing" /\ venture' = Spaces!Reviewed(v)
           /\ venture[v].review < MaxReviews
    BY <1>2 DEF Spaces!PromoteProject, Spaces!CreateProject, Spaces!StoreProject, Spaces!At
  <2>3. taking[p].at = "storing" => Spaces!Exists(v)
    BY DEF SpaceInv, IntakeOf
  <2> QED
    BY <2>1, <2>2, <2>3, OpenMoves, EditMoves
<1> QED
  BY <1>1, <1>2, AliasMoves
  DEF Spaces!Next, Spaces!CreateIdea, Spaces!BeginIntake, Spaces!LookForProject

\* Rows that move so are rows; no alias comes to be of two ventures, and no venture
\* is lost or loses a review.
LEMMA RowsStay ==
  ASSUME SpaceInv, venture' = venture \/ RowsMove
  PROVE  /\ venture' \in [Ids -> {Nothing} \cup Spaces!Venture]
         /\ AliasesApart'
         /\ \A v \in Ids : Spaces!Exists(v) =>
               /\ Spaces!Exists(v)'
               /\ venture[v].review \in Nat /\ venture'[v].review \in Nat
               /\ venture[v].review <= venture'[v].review
<1>1. venture \in [Ids -> {Nothing} \cup Spaces!Venture] /\ AliasesApart
      /\ \A row \in Spaces!Venture : row # Nothing /\ row.review \in 0..MaxReviews
      /\ MaxReviews \in Nat
  BY SpaceNames DEF SpaceInv, Spaces!Venture
<1>2. CASE venture' = venture
  BY <1>1, <1>2 DEF AliasesApart, Spaces!Existing, Spaces!Exists
<1>3. CASE RowsMove
  <2>1. PICK v \in Ids, row \in Spaces!Venture :
          /\ venture' = [venture EXCEPT ![v] = row]
          /\ \/ ~Spaces!Exists(v) /\ row.alias = Nothing
             \/ /\ Spaces!Exists(v)
                /\ row.review >= venture[v].review
                /\ \/ row.alias = venture[v].alias
                   \/ Spaces!Free(v, row.alias) /\ row.alias \in Aliases
    BY <1>3 DEF RowsMove
  <2>2. /\ venture' \in [Ids -> {Nothing} \cup Spaces!Venture]
        /\ venture'[v] = row /\ \A w \in Ids : w # v => venture'[w] = venture[w]
    BY <1>1, <2>1
  <2>3. \A w \in Ids : Spaces!Exists(w) =>
               /\ Spaces!Exists(w)'
               /\ venture[w].review \in Nat /\ venture'[w].review \in Nat
               /\ venture[w].review <= venture'[w].review
    <3>1. ASSUME NEW w \in Ids, Spaces!Exists(w), w # v
          PROVE  /\ Spaces!Exists(w)'
                 /\ venture[w].review \in Nat /\ venture'[w].review \in Nat
                 /\ venture[w].review <= venture'[w].review
      BY <1>1, <2>2, <3>1 DEF Spaces!Exists
    <3>2. ASSUME Spaces!Exists(v)
          PROVE  /\ Spaces!Exists(v)'
                 /\ venture[v].review \in Nat /\ venture'[v].review \in Nat
                 /\ venture[v].review <= venture'[v].review
      BY <1>1, <2>1, <2>2, <3>2 DEF Spaces!Exists
    <3> QED
      BY <3>1, <3>2
  <2>4. \A w \in Spaces!Existing : w # v => venture[w].alias # row.alias \/ row.alias = Nothing
    BY <1>1, <2>1 DEF AliasesApart, Spaces!Free, Spaces!Unique, Spaces!Existing, Spaces!Exists
  <2>5. \A w \in Ids : w # v => (w \in Spaces!Existing' <=> w \in Spaces!Existing)
    BY <2>2 DEF Spaces!Existing, Spaces!Exists
  <2>6. AliasesApart'
    <3>1. SUFFICES ASSUME NEW u \in Spaces!Existing', NEW w \in Spaces!Existing',
                          venture'[u].alias # Nothing, venture'[u].alias = venture'[w].alias
                   PROVE  u = w
      BY DEF AliasesApart
    <3>2. u \in Ids /\ w \in Ids
      BY DEF Spaces!Existing
    <3> QED
      BY <1>1, <2>2, <2>4, <2>5, <3>1, <3>2 DEF AliasesApart
  <2> QED
    BY <2>2, <2>3, <2>6
<1> QED
  BY <1>2, <1>3

\* What an intake does next is of its manifest, and it stores where the venture is.
LEMMA TakingStep ==
  ASSUME SpaceInv, Spaces!Next
  PROVE  taking' \in [Intakes -> Spaces!Taking] /\ \A p \in Intakes : IntakeOf(p)'
<1>1. /\ taking \in [Intakes -> Spaces!Taking] /\ \A p \in Intakes : IntakeOf(p)
      /\ venture \in [Ids -> {Nothing} \cup Spaces!Venture]
      /\ \A m \in Manifests : m.of \in Ids
  BY SpaceNames DEF SpaceInv
<1>2. \A v \in Ids : Spaces!Exists(v) => Spaces!Exists(v)'
  BY RowsStep, RowsStay
<1>3. ASSUME NEW p \in Intakes, NEW row \in Spaces!Taking,
             taking' = [taking EXCEPT ![p] = row],
             row.at # "idle" => row.manifest \in Manifests,
             row.at = "storing" => Spaces!Exists(row.manifest.of)'
      PROVE  taking' \in [Intakes -> Spaces!Taking] /\ \A q \in Intakes : IntakeOf(q)'
  <2>1. /\ taking' \in [Intakes -> Spaces!Taking] /\ taking'[p] = row
        /\ \A q \in Intakes : q # p => taking'[q] = taking[q]
    BY <1>1, <1>3
  <2>2. ASSUME NEW q \in Intakes PROVE IntakeOf(q)'
    <3>1. CASE q = p
      BY <1>3, <2>1, <3>1 DEF IntakeOf
    <3>2. CASE q # p
      <4>1. IntakeOf(q) /\ taking'[q] = taking[q]
        BY <1>1, <2>1, <3>2
      <4>2. taking[q].at = "storing" => taking[q].manifest.of \in Ids
        BY <1>1, <4>1 DEF IntakeOf
      <4> QED
        BY <1>2, <4>1, <4>2 DEF IntakeOf
    <3> QED
      BY <3>1, <3>2
  <2> QED
    BY <2>1, <2>2
<1>4. CASE UNCHANGED taking
  <2>1. ASSUME NEW q \in Intakes PROVE IntakeOf(q)'
    <3>1. IntakeOf(q) /\ taking'[q] = taking[q]
      BY <1>1, <1>4
    <3>2. taking[q].at = "storing" => taking[q].manifest.of \in Ids
      BY <1>1, <3>1 DEF IntakeOf
    <3> QED
      BY <1>2, <3>1, <3>2 DEF IntakeOf
  <2> QED
    BY <1>1, <1>4, <2>1
<1>5. ASSUME NEW p \in Intakes, NEW manifest \in Manifests, Spaces!BeginIntake(p, manifest)
      PROVE  taking' \in [Intakes -> Spaces!Taking] /\ \A q \in Intakes : IntakeOf(q)'
  <2> DEFINE asRead == IF Spaces!Exists(manifest.of) THEN venture[manifest.of].review ELSE 0
             row    == [at |-> "opening", manifest |-> manifest, expected |-> asRead]
  <2>1. asRead \in 0..MaxReviews
    <3>1. Spaces!Exists(manifest.of) => venture[manifest.of] \in Spaces!Venture
      BY <1>1 DEF Spaces!Exists
    <3> QED
      BY SpaceNames, <3>1 DEF Spaces!Venture
  <2>2. taking' = [taking EXCEPT ![p] = row]
    BY <1>5 DEF Spaces!BeginIntake
  <2>3. row \in Spaces!Taking /\ row.at = "opening" /\ row.manifest = manifest
    BY <2>1 DEF Spaces!Taking
  <2> HIDE DEF row
  <2> QED
    BY <1>3, <2>2, <2>3
<1>6. ASSUME NEW p \in Intakes,
             \/ Spaces!PromoteProject(p) \/ Spaces!LookForProject(p)
             \/ Spaces!CreateProject(p) \/ Spaces!StoreProject(p)
      PROVE  taking' \in [Intakes -> Spaces!Taking] /\ \A q \in Intakes : IntakeOf(q)'
  <2>1. CASE Spaces!Ends(p)
    <3>1. taking' = [taking EXCEPT ![p] = Spaces!Idle]
      BY <2>1 DEF Spaces!Ends
    <3>2. Spaces!Idle \in Spaces!Taking /\ Spaces!Idle.at = "idle"
      BY SpaceNames DEF Spaces!Idle, Spaces!Taking
    <3> QED
      BY <1>3, <3>1, <3>2
  <2>2. PICK manifest \in Manifests \cup {Nothing} : manifest = taking[p].manifest
    BY <1>1 DEF Spaces!Taking
  <2> DEFINE v == manifest.of
             i == manifest.idea
  <2>3. ASSUME NEW stage \in {"creating", "storing"}, Spaces!Goes(p, stage),
               taking[p].at # "idle", stage = "storing" => Spaces!Exists(v)'
        PROVE  taking' \in [Intakes -> Spaces!Taking] /\ \A q \in Intakes : IntakeOf(q)'
    <3>1. taking[p] \in Spaces!Taking /\ manifest \in Manifests
      BY <1>1, <2>2, <2>3 DEF IntakeOf
    <3>2. PICK row \in Spaces!Taking : /\ row.at = stage /\ row.manifest = manifest
                                   /\ row = [taking[p] EXCEPT !.at = stage]
      <4> DEFINE next == [at |-> stage, manifest |-> manifest, expected |-> taking[p].expected]
      <4>1. next \in Spaces!Taking /\ next.at = stage /\ next.manifest = manifest
        BY <2>2, <3>1 DEF Spaces!Taking
      <4>2. [taking[p] EXCEPT !.at = stage] = next
        BY <2>2, <3>1 DEF Spaces!Taking
      <4> HIDE DEF next
      <4> QED
        BY <4>1, <4>2
    <3>3. taking' = [taking EXCEPT ![p] = row]
      BY <2>3, <3>2 DEF Spaces!Goes
    <3> QED
      BY <1>3, <2>3, <3>1, <3>2, <3>3
  <2>4. taking[p].at # "idle" => v \in Ids /\ i \in Ids \cup {Nothing}
    BY SpaceNames, <1>1, <2>2 DEF IntakeOf
  <2>5. CASE Spaces!PromoteProject(p)
    <3>1. taking[p].at = "opening" /\ v \in Ids /\ i \in Ids \cup {Nothing}
      BY <2>4, <2>5 DEF Spaces!PromoteProject, Spaces!At
    <3>2. \/ Spaces!Goes(p, "storing") /\ (Spaces!Open(v, i) \/ Spaces!Exists(v))
          \/ Spaces!Ends(p)
      BY <2>2, <2>5 DEF Spaces!PromoteProject
    <3>3. Spaces!Open(v, i) \/ Spaces!Exists(v) => Spaces!Exists(v)'
      BY <1>2, <3>1, OpenMoves
    <3> QED
      BY <2>1, <2>3, <3>1, <3>2, <3>3
  <2>6. CASE Spaces!LookForProject(p)
    <3>1. taking[p].at = "opening" /\ v \in Ids
      BY <2>4, <2>6 DEF Spaces!LookForProject, Spaces!At
    <3>2. CASE Spaces!Exists(v)
      <4>1. Spaces!Goes(p, "storing")
        BY <2>2, <2>6, <3>2 DEF Spaces!LookForProject
      <4>2. Spaces!Exists(v)'
        BY <1>2, <3>1, <3>2
      <4> QED
        BY <2>3, <3>1, <4>1, <4>2
    <3>3. CASE ~Spaces!Exists(v)
      <4>1. Spaces!Goes(p, "creating")
        BY <2>2, <2>6, <3>3 DEF Spaces!LookForProject
      <4> QED
        BY <2>3, <3>1, <4>1
    <3> QED
      BY <3>2, <3>3
  <2>7. CASE Spaces!CreateProject(p)
    <3>1. taking[p].at = "creating" /\ v \in Ids
      BY <2>4, <2>7 DEF Spaces!CreateProject, Spaces!At
    <3>2. (Spaces!Goes(p, "storing") /\ Spaces!Open(v, Nothing)) \/ Spaces!Ends(p)
      BY <2>2, <2>7 DEF Spaces!CreateProject
    <3>3. Spaces!Open(v, Nothing) => Spaces!Exists(v)'
      BY <3>1, OpenMoves
    <3> QED
      BY <2>1, <2>3, <3>1, <3>2, <3>3
  <2>8. CASE Spaces!StoreProject(p)
    BY <2>1, <2>8 DEF Spaces!StoreProject
  <2> QED
    BY <1>6, <2>5, <2>6, <2>7, <2>8
<1> QED
  BY <1>4, <1>5, <1>6
  DEF Spaces!Next, Spaces!CreateVenture, Spaces!CreateIdea, Spaces!Rename, Spaces!OtherReview,
      Spaces!Promote, Spaces!AppendSnapshot, Spaces!SetAlias

\* Storing appends the checkpoint of the next review, of a manifest that has none.
LEMMA CheckpointsStep ==
  ASSUME SpaceInv, Spaces!Next
  PROVE  checkpoints' \subseteq Spaces!Checkpoint /\ CheckpointsStand'
<1>1. /\ CheckpointsStand /\ checkpoints \subseteq Spaces!Checkpoint
      /\ \A m \in Manifests : m.of \in Ids
  BY SpaceNames DEF SpaceInv
<1>2. \A v \in Ids : Spaces!Exists(v) =>
        /\ Spaces!Exists(v)'
        /\ venture[v].review \in Nat /\ venture'[v].review \in Nat
        /\ venture[v].review <= venture'[v].review
  BY RowsStep, RowsStay
<1>3. ASSUME NEW c \in checkpoints
      PROVE  /\ Spaces!Exists(c.manifest.of)'
             /\ c.review <= venture'[c.manifest.of].review
  <2>1. /\ c.manifest \in Manifests /\ c.review \in Nat /\ c.manifest.of \in Ids
        /\ Spaces!Exists(c.manifest.of) /\ c.review <= venture[c.manifest.of].review
    BY <1>1 DEF CheckpointsStand, Spaces!Checkpoint
  <2>2. /\ Spaces!Exists(c.manifest.of)'
        /\ venture[c.manifest.of].review \in Nat /\ venture'[c.manifest.of].review \in Nat
        /\ venture[c.manifest.of].review <= venture'[c.manifest.of].review
    BY <1>2, <2>1
  <2>3. c.review <= venture'[c.manifest.of].review
    BY <2>1, <2>2
  <2> QED
    BY <2>1, <2>2, <2>3
<1>4. CASE UNCHANGED checkpoints
  BY <1>1, <1>3, <1>4 DEF CheckpointsStand
<1>5. ASSUME NEW p \in Intakes, Spaces!StoreProject(p), ~UNCHANGED checkpoints
      PROVE  checkpoints' \subseteq Spaces!Checkpoint /\ CheckpointsStand'
  <2>1. PICK m \in Manifests : m = taking[p].manifest
    BY <1>5 DEF Spaces!StoreProject, Spaces!At, SpaceInv, IntakeOf
  <2>2. m.of \in Ids /\ Spaces!Exists(m.of)
    BY <1>1, <1>5, <2>1 DEF Spaces!StoreProject, Spaces!At, SpaceInv, IntakeOf
  <2>3. PICK review \in 1..MaxReviews : review = venture[m.of].review + 1
    BY SpaceNames, <1>2, <1>5, <2>1, <2>2 DEF Spaces!StoreProject
  <2> DEFINE new == [manifest |-> m, review |-> review]
  <2>4. /\ checkpoints' = checkpoints \cup {new}
        /\ ~Spaces!CheckedIn(m)
        /\ venture' = [venture EXCEPT ![m.of] =
                         [venture[m.of] EXCEPT !.review = venture[m.of].review + 1]]
    BY <1>5, <2>1, <2>3 DEF Spaces!StoreProject, Spaces!Reviewed
  <2>5. new.manifest = m /\ new.review = review /\ new \in Spaces!Checkpoint
    BY DEF Spaces!Checkpoint
  <2>6. Spaces!Exists(m.of)' /\ venture'[m.of].review = review
    <3>1. venture[m.of] \in Spaces!Venture /\ venture'[m.of] =
            [venture[m.of] EXCEPT !.review = venture[m.of].review + 1]
      BY <2>2, <2>4 DEF SpaceInv, Spaces!Exists
    <3>2. venture'[m.of].review = review
      BY <2>3, <3>1 DEF Spaces!Venture
    <3> QED
      BY <1>2, <2>2, <3>2
  <2> HIDE DEF new
  <2>7. ASSUME NEW c \in checkpoints
        PROVE  c.manifest # m /\ ~(c.manifest.of = m.of /\ c.review = review)
    <3>1. c.manifest # m
      BY <2>4 DEF Spaces!CheckedIn
    <3>2. c.manifest.of = m.of => c.review <= venture[m.of].review /\ c.review \in Nat
      BY <1>1 DEF CheckpointsStand, Spaces!Checkpoint
    <3>3. venture[m.of].review \in Nat
      BY <1>2, <2>2
    <3> QED
      BY <2>3, <3>1, <3>2, <3>3
  <2>8. \A c \in checkpoints' : /\ Spaces!Exists(c.manifest.of)'
                                /\ c.review <= venture'[c.manifest.of].review
    <3>1. new.review <= venture'[m.of].review
      BY <2>3, <2>5, <2>6
    <3> QED
      BY <1>3, <2>4, <2>5, <2>6, <3>1
  <2>9. \A c, d \in checkpoints' :
          \/ c.manifest = d.manifest
          \/ c.manifest.of = d.manifest.of /\ c.review = d.review
          => c = d
    <3>1. \A c, d \in checkpoints :
            \/ c.manifest = d.manifest
            \/ c.manifest.of = d.manifest.of /\ c.review = d.review
            => c = d
      BY <1>1 DEF CheckpointsStand
    <3> QED
      BY <2>4, <2>5, <2>7, <3>1
  <2> QED
    BY <1>1, <2>4, <2>5, <2>8, <2>9 DEF CheckpointsStand
<1> QED
  BY <1>4, <1>5
  DEF Spaces!Next, Spaces!CreateVenture, Spaces!CreateIdea, Spaces!Rename, Spaces!OtherReview,
      Spaces!Promote, Spaces!AppendSnapshot, Spaces!SetAlias, Spaces!BeginIntake,
      Spaces!PromoteProject, Spaces!LookForProject, Spaces!CreateProject

LEMMA SpaceInvariant == Spaces!Spec => []SpaceInv
<1>1. Spaces!Init => SpaceInv
  BY SpaceNames DEF Spaces!Init, SpaceInv, AliasesApart, IntakeOf, CheckpointsStand, Spaces!Existing,
         Spaces!Exists, Spaces!Idle, Spaces!Taking
<1>2. SpaceInv /\ [Spaces!Next]_(Spaces!vars) => SpaceInv'
  <2>1. CASE SpaceInv /\ Spaces!Next
    <3>1. known' \subseteq Ids
      BY <2>1
      DEF SpaceInv, Spaces!Next, Spaces!CreateVenture, Spaces!CreateIdea, Spaces!Rename,
          Spaces!OtherReview, Spaces!Promote, Spaces!AppendSnapshot, Spaces!SetAlias,
          Spaces!BeginIntake, Spaces!PromoteProject, Spaces!LookForProject,
          Spaces!CreateProject, Spaces!StoreProject
    <3>2. venture' \in [Ids -> {Nothing} \cup Spaces!Venture] /\ AliasesApart'
      BY <2>1, RowsStep, RowsStay
    <3> QED
      BY <2>1, <3>1, <3>2, TakingStep, CheckpointsStep DEF SpaceInv
  <2>2. CASE SpaceInv /\ UNCHANGED Spaces!vars
    BY <2>2
    DEF Spaces!vars, SpaceInv, AliasesApart, IntakeOf, CheckpointsStand, Spaces!Existing,
        Spaces!Exists
  <2> QED
    BY <2>1, <2>2
<1> QED
  BY <1>1, <1>2, PTL DEF Spaces!Spec

\* The rows of workspaces and checkpoints are of their kinds.  However many intakes of
\* one project run against one another and against other reviews, a manifest gets one
\* checkpoint and each checkpoint a review of its own; no alias is of two ventures.
LEMMA SpaceTypeCorrect == Spaces!Spec => []Spaces!TypeOK
<1>1. SpaceInv => Spaces!TypeOK
  BY DEF SpaceInv, AliasesApart, CheckpointsStand, Spaces!TypeOK, Spaces!Exists
<1> QED
  BY <1>1, SpaceInvariant, PTL

\* Of both ways: each is at any time in a state it can be in.
THEOREM TypesCorrect == Spec /\ Spaces!Spec => []TypesOK
<1>1. TypeOK /\ Spaces!TypeOK => TypesOK
  BY DEF TypesOK
<1> QED
  BY <1>1, TypeCorrect, SpaceTypeCorrect, PTL

\* What selects a venture by its identity is one venture.
LEMMA SelectedIsOne ==
  ASSUME AliasesApart, NEW x \in Spaces!Names, NEW v \in Spaces!ByIdentity(x)
  PROVE  /\ Spaces!ByIdentity(x) = {v}
         /\ Spaces!Selected(x) = [kind |-> "venture", id |-> v]
<1>1. Spaces!ByIdentity(x) = {v}
  BY SpaceNames DEF Spaces!ByIdentity, AliasesApart, Spaces!Names
<1> QED
  BY <1>1 DEF Spaces!Selected

\* A name that selects a venture goes on selecting it, and an alias that is set selects
\* its venture, but for what an id hides or another alias replaces.
THEOREM NamesStand == Spaces!Spec => SelectorsStand
<1> DEFINE Stand ==
      /\ \A v \in Spaces!Existing, alias \in Aliases :
            venture[v].alias # alias /\ venture'[v].alias = alias =>
              Spaces!Selected(alias)' = [kind |-> "venture", id |-> v]
      /\ \A x \in Spaces!Names : Spaces!Selected(x).kind = "venture" =>
            \/ Spaces!Selected(x)' = Spaces!Selected(x)
            \/ x \notin Spaces!Existing
                 /\ (x \in Spaces!Existing' \/ venture'[Spaces!Selected(x).id].alias # x)
<1>1. ASSUME SpaceInv, Spaces!Next PROVE Stand
  <2>1. /\ venture' = venture \/ RowsMove
        /\ venture \in [Ids -> {Nothing} \cup Spaces!Venture] /\ AliasesApart
        /\ venture' \in [Ids -> {Nothing} \cup Spaces!Venture] /\ AliasesApart'
        /\ \A v \in Spaces!Existing : v \in Ids /\ v \in Spaces!Existing'
    BY <1>1, RowsStep, RowsStay DEF SpaceInv, Spaces!Existing
  <2>2. ASSUME NEW x \in Spaces!Names, NEW v \in Spaces!ByIdentity(x)'
        PROVE  Spaces!Selected(x)' = [kind |-> "venture", id |-> v]
    <3>1. Spaces!ByIdentity(x)' = {v}
      BY SpaceNames, <2>1, <2>2 DEF Spaces!ByIdentity, AliasesApart, Spaces!Names
    <3> QED
      BY <3>1 DEF Spaces!Selected
  <2>3. ASSUME NEW v \in Spaces!Existing, NEW alias \in Aliases,
               venture[v].alias # alias, venture'[v].alias = alias
        PROVE  Spaces!Selected(alias)' = [kind |-> "venture", id |-> v]
    <3>1. RowsMove
      BY <2>1, <2>3
    <3>2. PICK u \in Ids, row \in Spaces!Venture :
            /\ venture' = [venture EXCEPT ![u] = row]
            /\ \/ ~Spaces!Exists(u) /\ row.alias = Nothing
               \/ /\ Spaces!Exists(u)
                  /\ row.review >= venture[u].review
                  /\ \/ row.alias = venture[u].alias
                     \/ Spaces!Free(u, row.alias) /\ row.alias \in Aliases
      BY <3>1 DEF RowsMove
    <3>3. u = v /\ row.alias = alias /\ Spaces!Free(v, alias)
      BY <2>1, <2>3, <3>2 DEF Spaces!Existing
    <3>4. \A w \in Ids : w # v => (w \in Spaces!Existing' <=> w \in Spaces!Existing)
      BY <2>1, <3>2, <3>3 DEF Spaces!Existing, Spaces!Exists
    <3>5. v \in Spaces!ByIdentity(alias)'
      BY <2>1, <2>3, <3>3, <3>4 DEF Spaces!ByIdentity, Spaces!Free, Spaces!Existing
    <3> QED
      BY <2>2, <3>5 DEF Spaces!Names
  <2>4. ASSUME NEW x \in Spaces!Names, Spaces!Selected(x).kind = "venture",
               ~(x \notin Spaces!Existing
                  /\ (x \in Spaces!Existing' \/ venture'[Spaces!Selected(x).id].alias # x))
        PROVE  Spaces!Selected(x)' = Spaces!Selected(x)
    <3>1. PICK v \in Spaces!ByIdentity(x) : TRUE
      BY <2>4 DEF Spaces!Selected
    <3>2. Spaces!Selected(x) = [kind |-> "venture", id |-> v]
      BY <2>1, SelectedIsOne
    <3>3. v \in Spaces!ByIdentity(x)'
      BY <2>1, <2>4, <3>2 DEF Spaces!ByIdentity
    <3>4. Spaces!Selected(x)' = [kind |-> "venture", id |-> v]
      BY <2>2, <3>3
    <3> QED
      BY <3>2, <3>4
  <2> QED
    BY <2>3, <2>4
<1>2. SpaceInv /\ [Spaces!Next]_(Spaces!vars) => [Stand]_(Spaces!vars)
  BY <1>1
<1> QED
  BY <1>2, SpaceInvariant, PTL DEF Spaces!Spec, SelectorsStand, Spaces!SelectorsStand
=============================================================================
