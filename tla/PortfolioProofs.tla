-------------------------- MODULE PortfolioProofs ---------------------------
(***************************************************************************)
(* The records of ideas and ventures, component by component: a subject is   *)
(* first reviewed once (ManualIntake), results about work leave the          *)
(* direction of a venture (Directions), the workbook scores an idea once      *)
(* (Scoring), a reviewed score is superseded only by a review                *)
(* (VentureScoring), observations are never lost (Discovery), and an apply    *)
(* of the request files settles (RequestFiles).                             *)
(***************************************************************************)
EXTENDS Portfolio, Sequences, FiniteSetTheorems, TLAPS

-----------------------------------------------------------------------------
(* ManualIntake: a subject is first reviewed once.                          *)

\* A venture that is not there has no intake and no promotion behind it.
NothingBefore(v) ==
  pinned[v] = Intake!Absent =>
    /\ last[v] = Intake!Absent
    /\ policy[v] = "none"
    /\ \A r \in 0..MaxRevision : intake[<<v, r>>].status = "none"

\* A venture that was linked to the idea's intake never gets one of its own.
LinkedHasNone(v) ==
  policy[v] = "linked_existing" =>
    /\ last[v] = Intake!Absent
    /\ last[Intake!TheIdea] # Intake!Absent
    /\ \A r \in 0..MaxRevision : intake[<<v, r>>].status = "none"

\* The idea's intake that a promotion superseded is there, and ended unless somebody
\* took it up again by hand.
SupersededStays(v) ==
  policy[v] = "superseded_unstarted" =>
    /\ intake[<<Intake!TheIdea, pinned[v]>>].status # "none"
    /\ <<Intake!TheIdea, pinned[v]>> \notin reopened => ~Intake!Active(<<Intake!TheIdea, pinned[v]>>)

\* A promotion pins a revision of the idea.
PromotionPins(v) == policy[v] # "none" => pinned[v] \in Intake!Revisions

\* What a subject has completed is its latest intake, and there will be no later
\* one: the completion left a review.
CompletedIsLast(w) ==
  /\ Intake!Exists(w[1])
  /\ w[2] = last[w[1]]
  /\ reviewed[w[1]] # "none"

IntakeInv ==
  /\ Intake!TypeOK
  /\ \A v \in Ventures :
        NothingBefore(v) /\ LinkedHasNone(v) /\ SupersededStays(v) /\ PromotionPins(v)
  /\ \A w \in completed : CompletedIsLast(w)

\* An intake gets another row, and may be completed by it or taken up again; a review
\* is recorded or not.
LEMMA IntakeRowStep ==
  ASSUME IntakeInv, NEW w \in Intake!Works, NEW row \in Intake!WorkRow,
         intake[w].status # "none", row.status # "none",
         intake' = [intake EXCEPT ![w] = row],
         \/ /\ reopened' = reopened
            /\ Intake!Active(w) \/ row.status \notin Intake!ActiveStates
         \/ reopened' = reopened \cup {w},
         UNCHANGED <<ideaRevision, pinned, last, policy>>,
         reviewed' \in [Intake!Subjects -> {"none"} \cup Intake!Dispositions],
         \A s \in Intake!Subjects : reviewed[s] # "none" => reviewed'[s] # "none",
         \/ completed' = completed
         \/ /\ completed' = completed \cup {w}
            /\ Intake!Exists(w[1]) /\ w[2] = last[w[1]] /\ reviewed'[w[1]] # "none"
  PROVE  IntakeInv'
<1>1. /\ intake \in [Intake!Works -> Intake!WorkRow]
      /\ intake' \in [Intake!Works -> Intake!WorkRow]
      /\ intake'[w] = row
      /\ \A x \in Intake!Works \ {w} : intake'[x] = intake[x]
  BY DEF IntakeInv, Intake!TypeOK
<1>2. /\ \A s \in Intake!Subjects, r \in 0..MaxRevision : <<s, r>> \in Intake!Works
      /\ \A x \in Intake!Works : x[1] \in Intake!Subjects
      /\ Intake!Subjects = {Intake!TheIdea} \cup Ventures
  BY DEF Intake!Works, Intake!Subjects
<1>3. Intake!TypeOK'
  <2>1. \A s \in Intake!Subjects :
          last[s] # Intake!Absent => last[s] \in 0..MaxRevision /\ intake[<<s, last[s]>>].status # "none"
    BY DEF IntakeInv, Intake!TypeOK
  <2>2. \A s \in Intake!Subjects :
          last[s] # Intake!Absent => intake'[<<s, last[s]>>].status # "none"
    BY <1>1, <1>2, <2>1
  <2>3. completed' \cup reopened' \subseteq {x \in Intake!Works : intake'[x].status # "none"}
    <3>1. completed \cup reopened \subseteq {x \in Intake!Works : intake[x].status # "none"}
      BY DEF IntakeInv, Intake!TypeOK
    <3> QED
      BY <1>1, <3>1
  <2> QED
    BY <1>1, <2>2, <2>3 DEF IntakeInv, Intake!TypeOK
<1>4. ASSUME NEW v \in Ventures
      PROVE  NothingBefore(v)' /\ LinkedHasNone(v)' /\ SupersededStays(v)' /\ PromotionPins(v)'
  <2>1. NothingBefore(v) /\ LinkedHasNone(v) /\ SupersededStays(v) /\ PromotionPins(v)
    BY DEF IntakeInv
  <2>2. \A x \in Intake!Works :
          /\ intake[x].status = "none" => intake'[x] = intake[x]
          /\ intake[x].status # "none" => intake'[x].status # "none"
    BY <1>1
  <2>3. v \in Intake!Subjects /\ Intake!TheIdea \in Intake!Subjects
    BY <1>2
  <2>4. NothingBefore(v)'
    BY <1>2, <2>1, <2>2, <2>3 DEF NothingBefore
  <2>5. LinkedHasNone(v)'
    BY <1>2, <2>1, <2>2, <2>3 DEF LinkedHasNone
  <2>6. SupersededStays(v)'
    <3> DEFINE x == <<Intake!TheIdea, pinned[v]>>
    <3>1. SUFFICES ASSUME policy[v] = "superseded_unstarted"
                   PROVE  /\ intake'[x].status # "none"
                          /\ x \notin reopened' => intake'[x].status \notin Intake!ActiveStates
      BY <2>1 DEF SupersededStays, Intake!Active
    <3>2. pinned[v] \in Intake!Revisions
      BY <2>1, <3>1 DEF PromotionPins
    <3>3. x \in Intake!Works
      BY IntakeNames, <1>2, <2>3, <3>2 DEF Intake!Revisions
    <3>4. /\ intake[x].status # "none"
          /\ x \notin reopened => intake[x].status \notin Intake!ActiveStates
      BY <2>1, <3>1 DEF SupersededStays, Intake!Active
    <3> HIDE DEF x
    <3>5. CASE x = w  BY <1>1, <3>4, <3>5 DEF Intake!Active
    <3>6. CASE x # w  BY <1>1, <3>3, <3>4, <3>6 DEF Intake!Active
    <3> QED
      BY <3>5, <3>6
  <2>7. PromotionPins(v)'
    BY <2>1 DEF PromotionPins
  <2> QED
    BY <2>4, <2>5, <2>6, <2>7
<1>5. ASSUME NEW x \in completed'
      PROVE  CompletedIsLast(x)'
  <2>1. CASE x \in completed
    <3>1. CompletedIsLast(x) /\ x[1] \in Intake!Subjects
      BY <1>2, <2>1 DEF IntakeInv, Intake!TypeOK
    <3> QED
      BY <3>1 DEF CompletedIsLast, Intake!Exists
  <2>2. CASE x = w /\ completed' = completed \cup {w} /\ x \notin completed
    BY <2>2 DEF CompletedIsLast, Intake!Exists
  <2> QED
    BY <2>1, <2>2
<1> QED
  BY <1>3, <1>4, <1>5 DEF IntakeInv

\* The operations on work that is there, through its subject or in general.
LEMMA WorkThatIsThereStep ==
  ASSUME IntakeInv,
         \/ \E s \in Intake!Subjects, actor \in Agents :
               \/ Intake!Claim(s, actor)
               \/ Intake!Release(s, actor)
               \/ \E outcome \in {"continue", "narrow", "hold", "stop"} :
                     Intake!Complete(s, actor, outcome)
         \/ Intake!HandoffStep
         \/ Intake!WorkStep
  PROVE  IntakeInv'
<1>1. /\ intake \in [Intake!Works -> Intake!WorkRow]
      /\ reviewed \in [Intake!Subjects -> {"none"} \cup Intake!Dispositions]
      /\ \A s \in Intake!Subjects : last[s] # Intake!Absent => <<s, last[s]>> \in Intake!Works
      /\ \A w \in Intake!Works : w[1] \in Intake!Subjects
  BY DEF IntakeInv, Intake!TypeOK, Intake!Works
<1>2. /\ \A actor \in Agents : /\ Intake!Taken(actor) \in Intake!WorkRow
                               /\ Intake!Taken(actor).status = "in_progress"
      /\ Intake!Queued \in Intake!WorkRow /\ Intake!Queued.status = "ready"
  BY DEF Intake!WorkRow, Intake!WorkStates, Intake!ActiveStates, Intake!Queued, Intake!Taken
<1>3. \A w \in Intake!Works, status \in Intake!WorkStates :
        /\ Intake!Moved(w, status) \in Intake!WorkRow
        /\ Intake!Moved(w, status).status = status
  BY <1>1 DEF Intake!WorkRow, Intake!Moved
<1>4. /\ \A w : intake[w].status \in {"ready", "in_progress", "todo"} => Intake!Active(w)
      /\ \A w : Intake!Active(w) => intake[w].status # "none"
      /\ "none" \notin Intake!WorkStates
      /\ {"ready", "in_progress", "done", "cancelled", "blocked"} \subseteq Intake!WorkStates
  BY DEF Intake!Active, Intake!ActiveStates, Intake!WorkStates
<1>5. ASSUME NEW s \in Intake!Subjects, NEW actor \in Agents,
             Intake!Claim(s, actor) \/ Intake!Release(s, actor)
      PROVE  IntakeInv'
  <2> DEFINE w == <<s, last[s]>>
  <2>1. /\ w \in Intake!Works
        /\ intake[w].status \in {"ready", "in_progress"}
        /\ \/ intake' = [intake EXCEPT ![w] = Intake!Taken(actor)]
           \/ intake' = [intake EXCEPT ![w] = Intake!Queued]
        /\ UNCHANGED <<ideaRevision, pinned, last, policy, reviewed, completed, reopened>>
    BY <1>1, <1>5 DEF Intake!Claim, Intake!Release, Intake!Workable, Intake!Taken
  <2> HIDE DEF w
  <2>2. PICK row \in Intake!WorkRow : row.status # "none" /\ intake' = [intake EXCEPT ![w] = row]
    BY <1>2, <2>1
  <2>3. intake[w].status # "none" /\ Intake!Active(w)
    BY <1>4, <2>1
  <2> QED
    BY <1>1, <1>4, <2>1, <2>2, <2>3, IntakeRowStep
<1>6. ASSUME NEW s \in Intake!Subjects, NEW actor \in Agents,
             NEW outcome \in {"continue", "narrow", "hold", "stop"},
             Intake!Complete(s, actor, outcome)
      PROVE  IntakeInv'
  <2> DEFINE w == <<s, last[s]>>
  <2>1. /\ w \in Intake!Works /\ w[1] = s /\ w[2] = last[s]
        /\ intake[w].status = "in_progress"
        /\ intake' = [intake EXCEPT ![w] = Intake!Moved(w, "done")]
        /\ completed' = completed \cup {w}
        /\ Intake!Exists(s)
        /\ UNCHANGED <<ideaRevision, pinned, last, policy, reopened>>
    BY <1>1, <1>6 DEF Intake!Complete, Intake!Workable, Intake!Taken
  <2>2. /\ reviewed' = [reviewed EXCEPT ![s] = Intake!DispositionOf(outcome)]
        /\ Intake!DispositionOf(outcome) \in Intake!Dispositions
        /\ Intake!DispositionOf(outcome) # "none"
    BY <1>6 DEF Intake!Complete, Intake!Directed, Intake!DispositionOf, Intake!Dispositions
  <2>3. /\ reviewed' \in [Intake!Subjects -> {"none"} \cup Intake!Dispositions]
        /\ \A x \in Intake!Subjects : reviewed[x] # "none" => reviewed'[x] # "none"
        /\ reviewed'[s] # "none"
    BY <1>1, <2>2
  <2>4. Intake!Moved(w, "done") \in Intake!WorkRow /\ Intake!Moved(w, "done").status = "done"
    BY <1>3, <1>4, <2>1
  <2> HIDE DEF w
  <2>5. intake[w].status # "none" /\ Intake!Active(w)
    BY <1>4, <2>1
  <2> QED
    BY <2>1, <2>3, <2>4, <2>5, IntakeRowStep
<1>7. ASSUME NEW w \in Intake!Works, Intake!AcceptResult(w)
      PROVE  IntakeInv'
  <2>1. /\ Intake!Active(w)
        /\ intake' = [intake EXCEPT ![w] = Intake!Moved(w, "done")]
        /\ reviewed' = [reviewed EXCEPT ![w[1]] = "pursue"]
        /\ UNCHANGED <<ideaRevision, pinned, last, policy, completed, reopened>>
    BY <1>7 DEF Intake!AcceptResult, Intake!MoveWork
  <2>2. /\ reviewed' \in [Intake!Subjects -> {"none"} \cup Intake!Dispositions]
        /\ \A x \in Intake!Subjects : reviewed[x] # "none" => reviewed'[x] # "none"
    BY <1>1, <2>1 DEF Intake!Dispositions
  <2>3. Intake!Moved(w, "done") \in Intake!WorkRow /\ Intake!Moved(w, "done").status = "done"
    BY <1>3, <1>4
  <2> QED
    BY <1>4, <2>1, <2>2, <2>3, IntakeRowStep
<1>8. ASSUME NEW w \in Intake!Works,
             \/ \E actor \in Agents : Intake!HandoffClaim(w, actor)
             \/ Intake!HandoffRelease(w)
             \/ Intake!CloseWork(w)
             \/ \E status \in {"blocked", "ready", "cancelled"} : Intake!TreatWork(w, status)
      PROVE  IntakeInv'
  <2>1. Intake!Active(w)
    BY <1>4, <1>8
    DEF Intake!HandoffClaim, Intake!HandoffRelease, Intake!CloseWork, Intake!TreatWork
  <2>2. PICK row \in Intake!WorkRow : row.status # "none" /\ Intake!MoveWork(w, row)
    BY <1>2, <1>3, <1>4, <1>8
    DEF Intake!HandoffClaim, Intake!HandoffRelease, Intake!CloseWork, Intake!TreatWork
  <2>3. UNCHANGED <<reviewed, reopened>>
    BY <1>8 DEF Intake!HandoffClaim, Intake!HandoffRelease, Intake!CloseWork, Intake!TreatWork
  <2>4. /\ intake' = [intake EXCEPT ![w] = row]
        /\ UNCHANGED <<ideaRevision, pinned, last, policy, reviewed, completed, reopened>>
    BY <2>2, <2>3 DEF Intake!MoveWork
  <2> QED
    BY <1>1, <1>4, <2>1, <2>2, <2>4, IntakeRowStep
<1>9. ASSUME NEW w \in Intake!Works, NEW status \in Intake!WorkStates,
             Intake!SetWorkStatus(w, status)
      PROVE  IntakeInv'
  <2>1. /\ intake[w].status # "none"
        /\ intake' = [intake EXCEPT ![w] = Intake!Moved(w, status)]
        /\ UNCHANGED <<ideaRevision, pinned, last, policy, reviewed, completed>>
    BY <1>9 DEF Intake!SetWorkStatus, Intake!MoveWork
  <2>2. /\ Intake!Moved(w, status) \in Intake!WorkRow
        /\ Intake!Moved(w, status).status = status /\ status # "none"
    BY <1>3, <1>4
  <2>3. \/ /\ reopened' = reopened
           /\ Intake!Active(w) \/ status \notin Intake!ActiveStates
        \/ reopened' = reopened \cup {w}
    BY <1>9 DEF Intake!SetWorkStatus
  <2> QED
    BY <1>1, <2>1, <2>2, <2>3, IntakeRowStep
<1> QED
  BY <1>5, <1>6, <1>7, <1>8, <1>9 DEF Intake!HandoffStep, Intake!WorkStep

\* Work that nobody has queued yet is queued as the latest intake of a subject that
\* has completed none; another intake may be cancelled with it.
LEMMA QueueStep ==
  ASSUME IntakeInv, NEW s \in Intake!Subjects, NEW r \in 0..MaxRevision,
         intake[<<s, r>>].status = "none",
         intake' \in [Intake!Works -> Intake!WorkRow],
         intake'[<<s, r>>].status # "none",
         \A x \in Intake!Works : \/ x = <<s, r>>
                                 \/ intake'[x] = intake[x]
                                 \/ intake[x].status = "ready" /\ intake'[x].status = "cancelled",
         last' = [last EXCEPT ![s] = r],
         reopened' \subseteq reopened,
         \A x \in reopened \ reopened' : intake'[x].status = "cancelled",
         ideaRevision' = ideaRevision, UNCHANGED <<reviewed, completed>>,
         \A w \in completed : w[1] # s,
         pinned' \in [Ventures -> Intake!Source],
         \A v \in Ventures : pinned[v] # Intake!Absent => pinned'[v] = pinned[v],
         policy' \in [Ventures -> Intake!Policies],
         \A v \in Ventures : /\ v # s => policy'[v] = policy[v] /\ pinned'[v] = pinned[v]
                             /\ v = s => /\ policy'[v] # "linked_existing"
                                         /\ pinned'[v] # Intake!Absent
                                         /\ policy'[v] # "none" => pinned'[v] \in Intake!Revisions,
         s \in Ventures => SupersededStays(s)'
  PROVE  IntakeInv'
<1>1. /\ \A x \in Intake!Subjects, n \in 0..MaxRevision : <<x, n>> \in Intake!Works
      /\ \A x \in Intake!Works : x[1] \in Intake!Subjects
      /\ Intake!Subjects = {Intake!TheIdea} \cup Ventures
      /\ r # Intake!Absent
  BY DEF Intake!Works, Intake!Subjects, Intake!Absent
<1>2. \A x \in Intake!Works : /\ intake[x].status # "none" => intake'[x].status # "none"
                              /\ x # <<s, r>> /\ intake[x].status \notin Intake!ActiveStates =>
                                   intake'[x].status \notin Intake!ActiveStates
                              /\ intake'[x].status = "cancelled" =>
                                   intake'[x].status \notin Intake!ActiveStates
                              /\ x # <<s, r>> /\ intake[x].status = "none" => intake'[x].status = "none"
  BY <1>1 DEF Intake!ActiveStates
<1>3. /\ last \in [Intake!Subjects -> {Intake!Absent} \cup (0..MaxRevision)]
      /\ last' \in [Intake!Subjects -> {Intake!Absent} \cup (0..MaxRevision)]
      /\ last'[s] = r /\ \A x \in Intake!Subjects : x # s => last'[x] = last[x]
  BY DEF IntakeInv, Intake!TypeOK
<1>4. Intake!TypeOK'
  <2>1. \A x \in Intake!Subjects : last'[x] # Intake!Absent => intake'[<<x, last'[x]>>].status # "none"
    <3>1. \A x \in Intake!Subjects : last[x] # Intake!Absent => intake[<<x, last[x]>>].status # "none"
      BY DEF IntakeInv, Intake!TypeOK
    <3> QED
      BY <1>1, <1>2, <1>3, <3>1
  <2>2. completed' \cup reopened' \subseteq {x \in Intake!Works : intake'[x].status # "none"}
    BY <1>2 DEF IntakeInv, Intake!TypeOK
  <2> QED
    BY <1>3, <2>1, <2>2 DEF IntakeInv, Intake!TypeOK
<1>5. ASSUME NEW v \in Ventures
      PROVE  NothingBefore(v)' /\ LinkedHasNone(v)' /\ SupersededStays(v)' /\ PromotionPins(v)'
  <2>1. /\ NothingBefore(v) /\ LinkedHasNone(v) /\ SupersededStays(v) /\ PromotionPins(v)
        /\ v # Intake!TheIdea /\ v \in Intake!Subjects /\ Intake!TheIdea \in Intake!Subjects
    BY IntakeNames, <1>1 DEF IntakeInv
  <2>2. v # s => \A n \in 0..MaxRevision :
                    intake[<<v, n>>].status = "none" => intake'[<<v, n>>].status = "none"
    BY <1>1, <1>2, <2>1
  <2>3. NothingBefore(v)'
    BY <1>3, <2>1, <2>2 DEF NothingBefore
  <2>4. LinkedHasNone(v)'
    BY <1>1, <1>3, <2>1, <2>2 DEF LinkedHasNone
  <2>5. SupersededStays(v)'
    <3> DEFINE x == <<Intake!TheIdea, pinned[v]>>
    <3>1. SUFFICES ASSUME policy[v] = "superseded_unstarted", v # s
                   PROVE  /\ intake'[x].status # "none"
                          /\ x \notin reopened' => intake'[x].status \notin Intake!ActiveStates
      BY <2>1 DEF SupersededStays, Intake!Active
    <3>2. pinned[v] \in Intake!Revisions
      BY <2>1, <3>1 DEF PromotionPins
    <3>3. x \in Intake!Works
      BY IntakeNames, <1>1, <2>1, <3>2 DEF Intake!Revisions
    <3>4. /\ intake[x].status # "none"
          /\ x \notin reopened => intake[x].status \notin Intake!ActiveStates
      BY <2>1, <3>1 DEF SupersededStays, Intake!Active
    <3> HIDE DEF x
    <3>5. x # <<s, r>>
      BY <3>4
    <3> QED
      BY <1>2, <3>3, <3>4, <3>5
  <2>6. PromotionPins(v)'
    BY <2>1 DEF PromotionPins
  <2> QED
    BY <2>3, <2>4, <2>5, <2>6
<1>6. ASSUME NEW x \in completed
      PROVE  CompletedIsLast(x)'
  <2>1. CompletedIsLast(x) /\ x[1] \in Intake!Subjects /\ x[1] # s
    BY <1>1 DEF IntakeInv, Intake!TypeOK
  <2>2. last'[x[1]] = last[x[1]]
    BY <1>3, <2>1
  <2>3. Intake!Exists(x[1])'
    BY <2>1 DEF CompletedIsLast, Intake!Exists
  <2> QED
    BY <2>1, <2>2, <2>3 DEF CompletedIsLast
<1> QED
  BY <1>4, <1>5, <1>6 DEF IntakeInv

\* A subject without a review asks for the intake of its current revision.
LEMMA RequestStep ==
  ASSUME IntakeInv, NEW s \in Intake!Subjects, Intake!Request(s)
  PROVE  IntakeInv'
<1>0. PICK r \in 0..MaxRevision : r = Intake!Current(s)
  <2>1. Intake!Exists(s)
    BY DEF Intake!Request
  <2> QED
    BY IntakeNames, <2>1
    DEF IntakeInv, Intake!TypeOK, Intake!Current, Intake!Exists, Intake!Subjects,
        Intake!Source, Intake!Revisions, Intake!Absent, Intake!Unlinked
<1> DEFINE w == <<s, r>>
<1>1. /\ Intake!Exists(s) /\ ~Intake!IsLinked(s) /\ intake[w].status = "none"
      /\ reviewed[s] = "none"
      /\ intake' = [intake EXCEPT ![w] = Intake!Queued]
      /\ last' = [last EXCEPT ![s] = r]
      /\ UNCHANGED <<ideaRevision, pinned, policy, reviewed, completed, reopened>>
  BY <1>0 DEF Intake!Request, Intake!Missing, Intake!MayQueue
<1>3. /\ w \in Intake!Works /\ intake \in [Intake!Works -> Intake!WorkRow]
      /\ Intake!Queued \in Intake!WorkRow /\ Intake!Queued.status = "ready"
      /\ pinned \in [Ventures -> Intake!Source] /\ policy \in [Ventures -> Intake!Policies]
  BY DEF IntakeInv, Intake!TypeOK, Intake!Works, Intake!WorkRow, Intake!WorkStates,
         Intake!ActiveStates, Intake!Queued
<1>4. \A x \in completed : x[1] # s
  BY <1>1 DEF IntakeInv, CompletedIsLast
<1>5. \A v \in Ventures :
        v = s => /\ policy[v] # "linked_existing"
                 /\ pinned[v] # Intake!Absent
                 /\ policy[v] # "none" => pinned[v] \in Intake!Revisions
  BY IntakeNames, <1>1
  DEF IntakeInv, LinkedHasNone, PromotionPins, Intake!Exists, Intake!IsLinked
<1>6. s \in Ventures => SupersededStays(s)'
  <2> DEFINE x == <<Intake!TheIdea, pinned[s]>>
  <2>1. SUFFICES ASSUME s \in Ventures, policy[s] = "superseded_unstarted"
                 PROVE  /\ intake'[x].status # "none"
                        /\ x \notin reopened => intake'[x].status \notin Intake!ActiveStates
    BY <1>1 DEF SupersededStays, Intake!Active
  <2>2. pinned[s] \in Intake!Revisions
    BY <1>5, <2>1
  <2>3. x \in Intake!Works /\ x # w
    BY IntakeNames, <2>1, <2>2 DEF Intake!Works, Intake!Subjects, Intake!Revisions
  <2>4. /\ intake[x].status # "none"
        /\ x \notin reopened => intake[x].status \notin Intake!ActiveStates
    BY <2>1 DEF IntakeInv, SupersededStays, Intake!Active
  <2> HIDE DEF w, x
  <2> QED
    BY <1>1, <1>3, <2>3, <2>4
<1>8. /\ intake' \in [Intake!Works -> Intake!WorkRow]
      /\ intake'[w].status # "none"
      /\ \A x \in Intake!Works : \/ x = w
                                 \/ intake'[x] = intake[x]
                                 \/ intake[x].status = "ready" /\ intake'[x].status = "cancelled"
  <2> HIDE DEF w
  <2> QED
    BY <1>1, <1>3
<1>9. /\ pinned' = pinned /\ policy' = policy /\ ideaRevision' = ideaRevision
      /\ reviewed' = reviewed /\ completed' = completed /\ reopened' = reopened
  BY <1>1
<1>10. \A v \in Ventures : /\ pinned[v] # Intake!Absent => pinned'[v] = pinned[v]
                           /\ v # s => policy'[v] = policy[v] /\ pinned'[v] = pinned[v]
                           /\ v = s => /\ policy'[v] # "linked_existing"
                                       /\ pinned'[v] # Intake!Absent
                                       /\ policy'[v] # "none" => pinned'[v] \in Intake!Revisions
  BY <1>5, <1>9
<1>11. /\ reopened' \subseteq reopened
       /\ \A x \in reopened \ reopened' : intake'[x].status = "cancelled"
  BY <1>9
<1>12. pinned' \in [Ventures -> Intake!Source] /\ policy' \in [Ventures -> Intake!Policies]
       /\ intake[<<s, r>>].status = "none" /\ last' = [last EXCEPT ![s] = r]
  BY <1>1, <1>3, <1>9
<1>13. ideaRevision' = ideaRevision /\ UNCHANGED <<reviewed, completed>>
  BY <1>1
<1> QED
  BY <1>4, <1>6, <1>8, <1>10, <1>11, <1>12, <1>13, QueueStep

\* Steps that leave the intakes alone.
LEMMA SubjectStep ==
  ASSUME IntakeInv, UNCHANGED <<intake, last, completed, reopened>>,
         ideaRevision' \in Intake!Revisions,
         pinned' \in [Ventures -> Intake!Source],
         policy' \in [Ventures -> Intake!Policies],
         reviewed' \in [Intake!Subjects -> {"none"} \cup Intake!Dispositions],
         \A s \in Intake!Subjects : reviewed[s] # "none" => reviewed'[s] # "none",
         \A v \in Ventures :
           \/ pinned'[v] = pinned[v] /\ policy'[v] = policy[v]
           \/ pinned[v] = Intake!Unlinked /\ pinned'[v] # Intake!Absent /\ policy'[v] = policy[v]
           \/ pinned[v] = Intake!Absent /\ pinned'[v] # Intake!Absent /\ policy'[v] = "none"
           \/ /\ pinned[v] = Intake!Absent /\ pinned'[v] \in Intake!Revisions
              /\ policy'[v] = "linked_existing" /\ last[Intake!TheIdea] # Intake!Absent
  PROVE  IntakeInv'
<1>1. Intake!TypeOK'
  BY DEF IntakeInv, Intake!TypeOK
<1>2. ASSUME NEW v \in Ventures
      PROVE  NothingBefore(v)' /\ LinkedHasNone(v)' /\ SupersededStays(v)' /\ PromotionPins(v)'
  <2>1. /\ NothingBefore(v) /\ LinkedHasNone(v) /\ SupersededStays(v) /\ PromotionPins(v)
        /\ \/ pinned'[v] = pinned[v] /\ policy'[v] = policy[v]
           \/ pinned[v] = Intake!Unlinked /\ pinned'[v] # Intake!Absent /\ policy'[v] = policy[v]
           \/ pinned[v] = Intake!Absent /\ pinned'[v] # Intake!Absent /\ policy'[v] = "none"
           \/ /\ pinned[v] = Intake!Absent /\ pinned'[v] \in Intake!Revisions
              /\ policy'[v] = "linked_existing" /\ last[Intake!TheIdea] # Intake!Absent
    BY DEF IntakeInv
  <2>2. /\ Intake!Unlinked \notin Intake!Revisions /\ Intake!Absent \notin Intake!Revisions
    BY IntakeNames DEF Intake!Unlinked, Intake!Absent, Intake!Revisions
  <2>3. NothingBefore(v)'
    BY <2>1, <2>2 DEF NothingBefore
  <2>4. LinkedHasNone(v)'
    BY <2>1 DEF LinkedHasNone, NothingBefore
  <2>5. SupersededStays(v)' /\ PromotionPins(v)'
    BY <2>1, <2>2 DEF SupersededStays, PromotionPins, Intake!Active
  <2> QED
    BY <2>3, <2>4, <2>5
<1>3. ASSUME NEW x \in completed
      PROVE  CompletedIsLast(x)'
  <2>1. CompletedIsLast(x) /\ x[1] \in Intake!Subjects
    BY DEF IntakeInv, Intake!TypeOK, Intake!Works
  <2>2. Intake!Exists(x[1])'
    BY <2>1 DEF CompletedIsLast, Intake!Exists
  <2> QED
    BY <2>1, <2>2 DEF CompletedIsLast
<1> QED
  BY <1>1, <1>2, <1>3 DEF IntakeInv

\* A promotion keeps one investigation: the idea's, or the venture's.
LEMMA PromoteStep ==
  ASSUME IntakeInv, NEW v \in Ventures, Intake!Promote(v)
  PROVE  IntakeInv'
<1> DEFINE w == <<v, ideaRevision>>
           i == <<Intake!TheIdea, ideaRevision>>
<1>1. /\ pinned[v] = Intake!Absent /\ pinned' = [pinned EXCEPT ![v] = ideaRevision]
      /\ UNCHANGED <<ideaRevision, reviewed, completed>>
  BY DEF Intake!Promote
<1>2. /\ ideaRevision \in Intake!Revisions /\ ideaRevision \in 0..MaxRevision
      /\ ideaRevision # Intake!Absent
      /\ pinned \in [Ventures -> Intake!Source] /\ policy \in [Ventures -> Intake!Policies]
      /\ intake \in [Intake!Works -> Intake!WorkRow]
  BY IntakeNames DEF IntakeInv, Intake!TypeOK, Intake!Revisions, Intake!Absent
<1>3. /\ w \in Intake!Works /\ i \in Intake!Works /\ w # i /\ v \in Intake!Subjects
      /\ v # Intake!TheIdea
  BY IntakeNames, <1>2 DEF Intake!Works, Intake!Subjects
<1>4. intake[w].status = "none" /\ \A x \in completed : x[1] # v
  BY <1>1, <1>2 DEF IntakeInv, NothingBefore, CompletedIsLast, Intake!Exists
<1>5. pinned' \in [Ventures -> Intake!Source] /\ pinned'[v] = ideaRevision
      /\ \A u \in Ventures : u # v => pinned'[u] = pinned[u]
  BY <1>1, <1>2 DEF Intake!Source
<1>6. Intake!Queued \in Intake!WorkRow /\ Intake!Queued.status = "ready"
      /\ Intake!Moved(i, "cancelled") \in Intake!WorkRow
      /\ Intake!Moved(i, "cancelled").status = "cancelled"
  BY <1>2, <1>3
  DEF Intake!WorkRow, Intake!WorkStates, Intake!ActiveStates, Intake!Queued, Intake!Moved
<1>7. CASE Intake!Reusable /\ policy' = [policy EXCEPT ![v] = "linked_existing"]
           /\ UNCHANGED <<intake, last, reopened>>
  <2>1. last[Intake!TheIdea] # Intake!Absent
    BY <1>2, <1>7 DEF Intake!Reusable
  <2>2. policy' \in [Ventures -> Intake!Policies] /\ policy'[v] = "linked_existing"
        /\ \A u \in Ventures : u # v => policy'[u] = policy[u]
    BY <1>2, <1>7 DEF Intake!Policies
  <2>3. reviewed' \in [Intake!Subjects -> {"none"} \cup Intake!Dispositions]
    BY <1>1 DEF IntakeInv, Intake!TypeOK
  <2> QED
    BY <1>1, <1>2, <1>5, <1>7, <2>1, <2>2, <2>3, SubjectStep
<1>8. CASE /\ policy' = [policy EXCEPT ![v] = "superseded_unstarted"]
           /\ intake[i].status = "ready"
           /\ intake' = [intake EXCEPT ![w] = Intake!Queued, ![i] = Intake!Moved(i, "cancelled")]
           /\ last' = [last EXCEPT ![v] = ideaRevision]
           /\ reopened' = reopened \ {i}
  <2>1. policy' \in [Ventures -> Intake!Policies] /\ policy'[v] = "superseded_unstarted"
        /\ \A u \in Ventures : u # v => policy'[u] = policy[u]
    BY <1>2, <1>8 DEF Intake!Policies
  <2>2. /\ intake' \in [Intake!Works -> Intake!WorkRow]
        /\ intake'[w].status # "none"
        /\ intake'[i].status = "cancelled"
        /\ \A x \in Intake!Works : \/ x = w
                                   \/ intake'[x] = intake[x]
                                   \/ intake[x].status = "ready" /\ intake'[x].status = "cancelled"
    <3> HIDE DEF w, i
    <3>1. \A x \in Intake!Works : x # w /\ x # i => intake'[x] = intake[x]
      BY <1>2, <1>3, <1>8
    <3>2. intake' \in [Intake!Works -> Intake!WorkRow]
      BY <1>2, <1>3, <1>6, <1>8
    <3>3. intake'[w] = Intake!Queued /\ intake'[i] = Intake!Moved(i, "cancelled")
      BY <1>2, <1>3, <1>8
    <3>4. intake[i].status = "ready"
      BY <1>8
    <3>5. intake'[w].status # "none"
      BY <1>6, <3>3
    <3>6. intake'[i].status = "cancelled"
      BY <1>6, <3>3
    <3>7. \A x \in Intake!Works : \/ x = w
                                  \/ intake'[x] = intake[x]
                                  \/ intake[x].status = "ready" /\ intake'[x].status = "cancelled"
      BY <3>1, <3>4, <3>6
    <3> QED
      BY <3>2, <3>5, <3>6, <3>7
  <2>3. \A u \in Ventures :
          /\ pinned[u] # Intake!Absent => pinned'[u] = pinned[u]
          /\ u # v => policy'[u] = policy[u] /\ pinned'[u] = pinned[u]
          /\ u = v => /\ policy'[u] # "linked_existing"
                      /\ pinned'[u] # Intake!Absent
                      /\ policy'[u] # "none" => pinned'[u] \in Intake!Revisions
    BY <1>1, <1>2, <1>5, <2>1
  <2>4. /\ SupersededStays(v)'
        /\ reopened' \subseteq reopened
        /\ \A x \in reopened \ reopened' : intake'[x].status = "cancelled"
    <3>1. pinned'[v] = ideaRevision /\ intake'[i].status = "cancelled"
      BY <1>5, <2>2
    <3>2. SupersededStays(v)'
      BY <3>1 DEF SupersededStays, Intake!Active, Intake!ActiveStates
    <3> QED
      BY <1>8, <3>1, <3>2
  <2>5. /\ v \in Intake!Subjects /\ ideaRevision \in 0..MaxRevision
        /\ last' = [last EXCEPT ![v] = ideaRevision]
        /\ pinned' \in [Ventures -> Intake!Source] /\ policy' \in [Ventures -> Intake!Policies]
        /\ ideaRevision' = ideaRevision /\ UNCHANGED <<reviewed, completed>>
    BY <1>1, <1>2, <1>3, <1>5, <1>8, <2>1
  <2> QED
    BY <1>4, <2>2, <2>3, <2>4, <2>5, QueueStep
<1>9. CASE /\ policy' = [policy EXCEPT ![v] = "new_intake"]
           /\ intake' = [intake EXCEPT ![w] = Intake!Queued]
           /\ last' = [last EXCEPT ![v] = ideaRevision]
           /\ UNCHANGED reopened
  <2>1. policy' \in [Ventures -> Intake!Policies] /\ policy'[v] = "new_intake"
        /\ \A u \in Ventures : u # v => policy'[u] = policy[u]
    BY <1>2, <1>9 DEF Intake!Policies
  <2>2. /\ intake' \in [Intake!Works -> Intake!WorkRow]
        /\ intake'[w].status # "none"
        /\ \A x \in Intake!Works : \/ x = w
                                   \/ intake'[x] = intake[x]
                                   \/ intake[x].status = "ready" /\ intake'[x].status = "cancelled"
    <3> HIDE DEF w, i
    <3> QED
      BY <1>2, <1>3, <1>6, <1>9
  <2>3. \A u \in Ventures :
          /\ pinned[u] # Intake!Absent => pinned'[u] = pinned[u]
          /\ u # v => policy'[u] = policy[u] /\ pinned'[u] = pinned[u]
          /\ u = v => /\ policy'[u] # "linked_existing"
                      /\ pinned'[u] # Intake!Absent
                      /\ policy'[u] # "none" => pinned'[u] \in Intake!Revisions
    BY <1>1, <1>2, <1>5, <2>1
  <2>4. /\ SupersededStays(v)'
        /\ reopened' \subseteq reopened
        /\ \A x \in reopened \ reopened' : intake'[x].status = "cancelled"
    BY <1>9, <2>1 DEF SupersededStays
  <2>5. /\ v \in Intake!Subjects /\ ideaRevision \in 0..MaxRevision
        /\ last' = [last EXCEPT ![v] = ideaRevision]
        /\ pinned' \in [Ventures -> Intake!Source] /\ policy' \in [Ventures -> Intake!Policies]
        /\ ideaRevision' = ideaRevision /\ UNCHANGED <<reviewed, completed>>
    BY <1>1, <1>2, <1>3, <1>5, <1>9, <2>1
  <2> QED
    BY <1>4, <2>2, <2>3, <2>4, <2>5, QueueStep
<1> QED
  BY <1>7, <1>8, <1>9 DEF Intake!Promote, Intake!Unstarted

\* A revision of the idea, a venture of its own or linked, and a review.
LEMMA OtherSubjectStep ==
  ASSUME IntakeInv,
         \/ Intake!Revise
         \/ \E v \in Ventures : Intake!CreateVenture(v) \/ Intake!LinkVenture(v)
         \/ \E s \in Intake!Subjects : Intake!OtherReview(s)
  PROVE  IntakeInv'
<1>1. /\ ideaRevision \in Intake!Revisions
      /\ pinned \in [Ventures -> Intake!Source] /\ policy \in [Ventures -> Intake!Policies]
      /\ reviewed \in [Intake!Subjects -> {"none"} \cup Intake!Dispositions]
      /\ \A v \in Ventures : NothingBefore(v)
  BY DEF IntakeInv, Intake!TypeOK
<1>2. UNCHANGED <<intake, last, completed, policy, reopened>>
  BY DEF Intake!Revise, Intake!CreateVenture, Intake!LinkVenture, Intake!OtherReview
<1>3. CASE Intake!Revise
  <2>1. ideaRevision' \in Intake!Revisions /\ UNCHANGED <<pinned, reviewed>>
    BY IntakeNames, <1>1, <1>3 DEF Intake!Revise, Intake!Revisions
  <2> QED
    BY <1>1, <1>2, <2>1, SubjectStep
<1>4. ASSUME NEW v \in Ventures, Intake!CreateVenture(v) \/ Intake!LinkVenture(v)
      PROVE  IntakeInv'
  <2>1. UNCHANGED <<ideaRevision, reviewed>>
    BY <1>4 DEF Intake!CreateVenture, Intake!LinkVenture
  <2>2. PICK pin \in Intake!Source \ {Intake!Absent} :
          /\ pinned' = [pinned EXCEPT ![v] = pin]
          /\ pinned[v] \in {Intake!Absent, Intake!Unlinked}
    BY IntakeNames, <1>1, <1>4
    DEF Intake!CreateVenture, Intake!LinkVenture, Intake!Source, Intake!Absent, Intake!Unlinked,
        Intake!Revisions
  <2>3. pinned[v] = Intake!Absent => policy'[v] = "none"
    BY <1>1, <1>2 DEF NothingBefore
  <2>4. /\ pinned' \in [Ventures -> Intake!Source]
        /\ pinned'[v] # Intake!Absent
        /\ \A u \in Ventures : u # v => pinned'[u] = pinned[u]
    BY <1>1, <2>2
  <2> QED
    BY <1>1, <1>2, <2>1, <2>2, <2>3, <2>4, SubjectStep
<1>5. ASSUME NEW s \in Intake!Subjects, Intake!OtherReview(s)
      PROVE  IntakeInv'
  <2>1. /\ UNCHANGED <<ideaRevision, pinned>>
        /\ reviewed' = [reviewed EXCEPT ![s] = "hold"]
    BY <1>5 DEF Intake!OtherReview
  <2>2. /\ reviewed' \in [Intake!Subjects -> {"none"} \cup Intake!Dispositions]
        /\ \A x \in Intake!Subjects : reviewed[x] # "none" => reviewed'[x] # "none"
    BY <1>1, <2>1 DEF Intake!Dispositions
  <2> QED
    BY <1>1, <1>2, <2>1, <2>2, SubjectStep
<1> QED
  BY <1>3, <1>4, <1>5

\* The invariant of the intakes holds throughout.
LEMMA IntakeInvariant == Intake!Spec => []IntakeInv
<1>1. Intake!Init => IntakeInv
  <2>1. SUFFICES ASSUME Intake!Init PROVE IntakeInv
    OBVIOUS
  <2>2. Intake!TypeOK
    BY IntakeNames, <2>1
    DEF Intake!Init, Intake!TypeOK, Intake!Revisions, Intake!Source, Intake!WorkRow,
        Intake!NoWork, Intake!Policies
  <2>3. \A v \in Ventures :
          NothingBefore(v) /\ LinkedHasNone(v) /\ SupersededStays(v) /\ PromotionPins(v)
    BY <2>1
    DEF Intake!Init, Intake!NoWork, Intake!Works, Intake!Subjects, NothingBefore, LinkedHasNone,
        SupersededStays, PromotionPins
  <2> QED
    BY <2>1, <2>2, <2>3 DEF Intake!Init, IntakeInv
<1>2. IntakeInv /\ [Intake!Next]_(Intake!vars) => IntakeInv'
  <2>1. SUFFICES ASSUME IntakeInv, [Intake!Next]_(Intake!vars) PROVE IntakeInv'
    OBVIOUS
  <2>2. CASE UNCHANGED Intake!vars
    BY <2>1, <2>2
    DEF Intake!vars, IntakeInv, Intake!TypeOK, NothingBefore, LinkedHasNone, SupersededStays,
        PromotionPins, CompletedIsLast, Intake!Exists, Intake!Active
  <2> QED
    BY <2>1, <2>2, RequestStep, PromoteStep, OtherSubjectStep, WorkThatIsThereStep
    DEF Intake!Next, Intake!SubjectStep
<1> QED
  BY <1>1, <1>2, PTL DEF Intake!Spec

\* The rows of intakes, ventures and reviews are of their kinds.
THEOREM IntakeTypeCorrect == Intake!Spec => []Intake!TypeOK
<1>1. IntakeInv => Intake!TypeOK
  BY DEF IntakeInv
<1> QED
  BY <1>1, IntakeInvariant, PTL

\* The number of elements is the same, whichever module counts them.
LEMMA IntakeCounts ==
  ASSUME NEW S
  PROVE  Intake!Cardinality(S) = Cardinality(S)
BY DEF Intake!Cardinality, Cardinality

\* A subject completes one initial review at most, also where completed work is taken
\* up again by hand.  A promotion leaves one investigation of the revision it
\* promotes: the venture that is shown the idea's has none of its own, and the idea's
\* that the venture's supersedes is active again only by hand.
THEOREM ReviewedOnce == Intake!Spec => []OneInvestigation
<1>1. ASSUME IntakeInv PROVE OneInvestigation
  <2>1. ASSUME NEW s \in Intake!Subjects
        PROVE  Cardinality({w \in completed : w[1] = s}) <= 1
    <3>1. \A w \in completed : w[1] = s => w = <<s, last[s]>>
      BY <1>1 DEF IntakeInv, CompletedIsLast, Intake!TypeOK, Intake!Works
    <3>2. {w \in completed : w[1] = s} \in {{}, {<<s, last[s]>>}}
      BY <3>1
    <3>3. Cardinality({}) = 0 /\ Cardinality({<<s, last[s]>>}) = 1
      BY FS_EmptySet, FS_Singleton
    <3> DEFINE S == {w \in completed : w[1] = s}
    <3>4. S = {} \/ S = {<<s, last[s]>>}
      BY <3>2
    <3> HIDE DEF S
    <3>5. Cardinality(S) = 0 \/ Cardinality(S) = 1
      BY <3>3, <3>4
    <3>6. Cardinality(S) <= 1
      BY <3>5
    <3> QED
      BY <3>6 DEF S
  <2>2. ASSUME NEW v \in Ventures
        PROVE  /\ policy[v] = "linked_existing" =>
                    \A r \in 0..MaxRevision : intake[<<v, r>>].status = "none"
               /\ (policy[v] = "superseded_unstarted"
                     /\ <<Intake!TheIdea, pinned[v]>> \notin reopened) =>
                    ~Intake!Active(<<Intake!TheIdea, pinned[v]>>)
    BY <1>1 DEF IntakeInv, LinkedHasNone, SupersededStays
  <2> QED
    BY <2>1, <2>2, IntakeCounts DEF OneInvestigation, Intake!OneInvestigation
<1>2. IntakeInv => OneInvestigation
  BY <1>1
<1> QED
  BY <1>2, IntakeInvariant, PTL

-----------------------------------------------------------------------------
(* Directions: a result about work leaves the direction of its venture.     *)

\* The action a venture was last narrowed to is the current one, and walking back
\* over the reviews that say the same finds the narrowing.
NarrowingIsFound ==
  narrowed # Direction!NoAction =>
    /\ Direction!Reviewed
    /\ Direction!Current.action = narrowed
    /\ Direction!IsNarrowed

DirectionInv == Direction!TypeOK /\ NarrowingIsFound

\* What the reviews say once one is appended: a narrowing is found there, and the one
\* before it is still found where the action is the same.
LEMMA AppendedReview ==
  ASSUME Direction!TypeOK, NEW review \in Direction!Review, reviews' = Append(reviews, review)
  PROVE  /\ reviews' \in Seq(Direction!Review) /\ Len(reviews') = Len(reviews) + 1
         /\ Direction!Reviewed' /\ Direction!Current' = review
         /\ review.kind = "narrow" => Direction!IsNarrowed'
         /\ Direction!Reviewed /\ Direction!IsNarrowed
              /\ Direction!Current.action = review.action => Direction!IsNarrowed'
<1>1. /\ reviews \in Seq(Direction!Review)
      /\ reviews' \in Seq(Direction!Review) /\ Len(reviews') = Len(reviews) + 1
      /\ reviews'[Len(reviews')] = review
      /\ \A n \in 1..Len(reviews) : reviews'[n] = reviews[n]
      /\ Len(reviews) \in Nat
  BY DEF Direction!TypeOK
<1>2. Direction!Current' = review /\ Direction!Reviewed'
  BY <1>1 DEF Direction!Current, Direction!Last, Direction!Reviewed
<1>3. ASSUME review.kind = "narrow" PROVE Direction!IsNarrowed'
  <2>1. \A n : n = Len(reviews') =>
          /\ n \in 1..Len(reviews')
          /\ reviews'[n].kind = "narrow"
          /\ \A m \in n..Len(reviews') : reviews'[m].action = Direction!Current'.action
    BY <1>1, <1>2, <1>3
  <2> QED
    BY <2>1 DEF Direction!IsNarrowed, Direction!SameAction
<1>4. ASSUME Direction!Reviewed, Direction!IsNarrowed, Direction!Current.action = review.action
      PROVE  Direction!IsNarrowed'
  <2>1. PICK n \in 1..Len(reviews) :
          /\ reviews[n].kind = "narrow"
          /\ \A m \in n..Len(reviews) : reviews[m].action = review.action
    BY <1>4 DEF Direction!IsNarrowed, Direction!SameAction
  <2>2. n \in 1..Len(reviews') /\ reviews'[n].kind = "narrow"
    BY <1>1, <2>1
  <2>3. ASSUME NEW m \in n..Len(reviews') PROVE reviews'[m].action = review.action
    <3>1. CASE m = Len(reviews')
      BY <1>1, <3>1
    <3>2. CASE m \in n..Len(reviews)
      BY <1>1, <2>1, <3>2
    <3> QED
      BY <1>1, <2>1, <2>3, <3>1, <3>2
  <2> QED
    BY <1>2, <2>2, <2>3 DEF Direction!IsNarrowed, Direction!SameAction
<1> QED
  BY <1>1, <1>2, <1>3, <1>4

\* The review an accepted result appends is one that may be.
LEMMA ResultReview ==
  ASSUME Direction!TypeOK, NEW outcome \in Direction!Outcomes, NEW about \in {"work", "venture"},
         NEW action \in Actions
  PROVE  [disposition |-> Direction!DispositionAfter(outcome, about),
          action      |-> Direction!ActionAfter(about, action),
          kind        |-> Direction!KindOf(outcome)] \in Direction!Review
<1>1. Direction!Reviewed => Direction!Current \in Direction!Review
  BY DEF Direction!TypeOK, Direction!Reviewed, Direction!Current, Direction!Last
<1>2. Direction!DispositionAfter(outcome, about) \in Direction!Dispositions
  BY <1>1
  DEF Direction!DispositionAfter, Direction!Before, Direction!Dispositions, Direction!Review,
      Direction!Outcomes
<1>3. Direction!ActionAfter(about, action) \in Actions
  BY <1>1 DEF Direction!ActionAfter, Direction!IsVentureLevel, Direction!Review
<1>4. Direction!KindOf(outcome) \in Direction!Kinds
  BY DEF Direction!KindOf, Direction!Kinds
<1> QED
  BY <1>2, <1>3, <1>4 DEF Direction!Review

LEMMA DirectionInvariant == Direction!Spec => []DirectionInv
<1>1. Direction!Init => DirectionInv
  BY DirectionNames DEF Direction!Init, DirectionInv, NarrowingIsFound, Direction!TypeOK,
         Direction!Reasons, Direction!NoAction
<1>2. DirectionInv /\ [Direction!Next]_(Direction!vars) => DirectionInv'
  <2>1. SUFFICES ASSUME DirectionInv, [Direction!Next]_(Direction!vars) PROVE DirectionInv'
    OBVIOUS
  <2>2. ASSUME NEW disposition \in ByHand, NEW action \in Actions,
               Direction!Write(disposition, action)
        PROVE  DirectionInv'
    <3> DEFINE review == [disposition |-> disposition, action |-> action, kind |-> "none"]
    <3>1. review \in Direction!Review /\ review.action = action
      BY DirectionNames DEF Direction!Review, Direction!Kinds
    <3>2. reviews' = Append(reviews, review) /\ Len(reviews) < MaxReviews
          /\ UNCHANGED <<objective, tasks, blocked>>
          /\ narrowed' = IF action = narrowed THEN narrowed ELSE Direction!NoAction
      BY <2>2 DEF Direction!Write, Direction!Append1
    <3> HIDE DEF review
    <3>3. Direction!TypeOK'
      BY DirectionNames, <2>1, <3>1, <3>2, AppendedReview DEF DirectionInv, Direction!TypeOK
    <3>4. NarrowingIsFound'
      BY <2>1, <3>1, <3>2, AppendedReview DEF DirectionInv, NarrowingIsFound
    <3> QED
      BY <3>3, <3>4 DEF DirectionInv
  <2>3. ASSUME NEW value \in Imported, NEW action \in Actions,
               Direction!ImportLegacy(value, action)
        PROVE  DirectionInv'
    <3> DEFINE review == [disposition |-> Direction!Legacy(value)[1], action |-> action,
                          kind |-> "none"]
    <3>1. Direction!Legacy(value)[1] \in Direction!Dispositions
          /\ Direction!Legacy(value)[2] \in Direction!Reasons
      BY DEF Direction!Legacy, Direction!Dispositions, Direction!Reasons
    <3>2. review \in Direction!Review
      BY <3>1 DEF Direction!Review, Direction!Kinds
    <3>3. reviews' = Append(reviews, review) /\ Len(reviews) < MaxReviews
          /\ blocked' = Direction!Legacy(value)[2]
          /\ UNCHANGED <<objective, tasks, narrowed>> /\ ~Direction!Reviewed
      BY <2>3 DEF Direction!ImportLegacy, Direction!Append1
    <3> HIDE DEF review
    <3>4. Direction!TypeOK'
      BY DirectionNames, <2>1, <3>1, <3>2, <3>3, AppendedReview DEF DirectionInv, Direction!TypeOK
    <3>5. NarrowingIsFound'
      BY <2>1, <3>3 DEF DirectionInv, NarrowingIsFound
    <3> QED
      BY <3>4, <3>5 DEF DirectionInv
  <2>4. ASSUME NEW w \in Assignments, NEW outcome \in Direction!Outcomes,
               NEW about \in {"work", "venture"}, NEW action \in Actions,
               NEW aim \in Objectives, NEW completes \in BOOLEAN,
               Direction!Accept(w, outcome, about, action, aim, completes)
        PROVE  DirectionInv'
    <3> DEFINE kept   == Direction!ActionAfter(about, action)
               review == [disposition |-> Direction!DispositionAfter(outcome, about),
                          action      |-> kept,
                          kind        |-> Direction!KindOf(outcome)]
    <3>1. review \in Direction!Review /\ review.action = kept /\ kept \in Actions
      BY <2>1, ResultReview DEF DirectionInv, Direction!Review
    <3>2. reviews' = Append(reviews, review) /\ Len(reviews) < MaxReviews
          /\ objective' = aim /\ UNCHANGED blocked
      BY <2>4 DEF Direction!Accept, Direction!Append1
    <3>3. tasks' = [tasks EXCEPT ![w] = "done"] \/ tasks' = tasks
      BY <2>4 DEF Direction!Accept
    <3>4. \/ about = "venture" /\ outcome = "narrow" /\ narrowed' = action
          \/ narrowed = kept /\ narrowed' = narrowed
          \/ narrowed' = Direction!NoAction
      BY <2>4 DEF Direction!Accept
    <3>5. about = "venture" /\ outcome = "narrow" => kept = action /\ review.kind = "narrow"
      BY DEF Direction!ActionAfter, Direction!KindOf
    <3> HIDE DEF review, kept
    <3>6. Direction!TypeOK'
      <4>1. tasks' \in [Assignments -> {"claimed", "done"}]
        BY <2>1, <3>3 DEF DirectionInv, Direction!TypeOK
      <4>2. narrowed' \in Actions \cup {Direction!NoAction}
        BY <3>1, <3>4
      <4> QED
        BY DirectionNames, <2>1, <3>1, <3>2, <4>1, <4>2, AppendedReview
        DEF DirectionInv, Direction!TypeOK
    <3>7. NarrowingIsFound'
      <4>1. CASE about = "venture" /\ outcome = "narrow" /\ narrowed' = action
        BY <2>1, <3>1, <3>2, <3>5, <4>1, AppendedReview DEF DirectionInv, NarrowingIsFound
      <4>2. CASE (narrowed = kept /\ narrowed' = narrowed) \/ narrowed' = Direction!NoAction
        BY <2>1, <3>1, <3>2, <4>2, AppendedReview DEF DirectionInv, NarrowingIsFound
      <4> QED
        BY <3>4, <4>1, <4>2
    <3> QED
      BY <3>6, <3>7 DEF DirectionInv
  <2>5. CASE UNCHANGED Direction!vars
    BY <2>1, <2>5
    DEF Direction!vars, DirectionInv, Direction!TypeOK, NarrowingIsFound, Direction!Reviewed,
        Direction!Current, Direction!Last, Direction!IsNarrowed, Direction!SameAction
  <2> QED
    BY <2>1, <2>2, <2>3, <2>4, <2>5 DEF Direction!Next
<1> QED
  BY <1>1, <1>2, PTL DEF Direction!Spec

\* The reviews, the objective and the work of a venture are of their kinds.
THEOREM DirectionTypeCorrect == Direction!Spec => []Direction!TypeOK
<1>1. DirectionInv => Direction!TypeOK
  BY DEF DirectionInv
<1> QED
  BY <1>1, DirectionInvariant, PTL

\* No result about its work alone changes the next action or the disposition of a
\* venture that is on hold or was narrowed to that action.
THEOREM DirectionStands == Direction!Spec => HeldDirectionStands
<1> DEFINE Stands ==
      \A w \in Assignments, outcome \in Direction!Outcomes, action \in Actions, completes \in BOOLEAN :
        /\ Direction!Accept(w, outcome, "work", action, objective, completes)
        /\ Direction!Held \/ (Direction!Reviewed /\ narrowed = Direction!Current.action)
        => /\ reviews'[Len(reviews')].action = Direction!Current.action
           /\ reviews'[Len(reviews')].disposition = Direction!Current.disposition
<1>1. DirectionInv => Stands
  <2>1. SUFFICES ASSUME DirectionInv, NEW w \in Assignments, NEW outcome \in Direction!Outcomes,
                        NEW action \in Actions, NEW completes \in BOOLEAN,
                        Direction!Accept(w, outcome, "work", action, objective, completes),
                        Direction!Held
                          \/ (Direction!Reviewed /\ narrowed = Direction!Current.action)
                 PROVE  /\ reviews'[Len(reviews')].action = Direction!Current.action
                        /\ reviews'[Len(reviews')].disposition = Direction!Current.disposition
    OBVIOUS
  <2> DEFINE review == [disposition |-> Direction!DispositionAfter(outcome, "work"),
                        action      |-> Direction!ActionAfter("work", action),
                        kind        |-> Direction!KindOf(outcome)]
  <2>2. Direction!Reviewed /\ Direction!Current \in Direction!Review
    BY <2>1
    DEF DirectionInv, Direction!TypeOK, Direction!Held, Direction!Reviewed, Direction!Current,
        Direction!Last
  <2>3. Direction!IsVentureLevel
    BY DirectionNames, <2>1, <2>2
    DEF DirectionInv, NarrowingIsFound, Direction!IsVentureLevel, Direction!Held, Direction!Review
  <2>4. /\ review.action = Direction!Current.action
        /\ review.disposition = Direction!Current.disposition
    BY <2>2, <2>3 DEF Direction!ActionAfter, Direction!DispositionAfter, Direction!Before
  <2>5. reviews' = Append(reviews, review)
    BY <2>1 DEF Direction!Accept, Direction!Append1
  <2>6. review \in Direction!Review
    BY <2>1, ResultReview DEF DirectionInv
  <2> HIDE DEF review
  <2>7. reviews'[Len(reviews')] = review
    BY <2>1, <2>5, <2>6 DEF DirectionInv, Direction!TypeOK
  <2> QED
    BY <2>4, <2>7
<1>2. DirectionInv => [Stands]_(Direction!vars)
  BY <1>1
<1> QED
  BY <1>2, DirectionInvariant, PTL DEF HeldDirectionStands, Direction!HeldDirectionStands

-----------------------------------------------------------------------------
(* Scoring: the workbook scores an idea once.                               *)

OriginalOf(i) == {a \in assessed : a.idea = i /\ a.card = Original}

\* An original assessment is of an imported row, and of the revision that has the row.
OfImportedRow(a) ==
  \E p \in provenance : p.idea = a.idea /\ p.revision = a.revision /\ p.row.total = a.total

OriginalInv ==
  /\ \A a \in assessed : a.card = Original => OfImportedRow(a)
  /\ \A a, b \in assessed :
        a.card = Original /\ b.card = Original /\ a.idea = b.idea => a = b

\* The card of the workbook weighs as the workbook did, whoever made the card.
LEMMA OriginalWeighsAsTheWorkbook ==
  ASSUME Usable(Original)
  PROVE  Used(Original)[Original] = Default
<1>1. CASE Original \in DOMAIN cards
  BY <1>1 DEF Usable, Agrees, Used
<1>2. CASE Original \notin DOMAIN cards
  BY <1>2 DEF Used, With
<1> QED
  BY <1>1, <1>2

LEMMA ImportStep ==
  ASSUME OriginalInv, NEW S \in SUBSET Ideas, NEW table \in [S -> Rows], ImportOriginal(table)
  PROVE  OriginalInv'
<1> DEFINE new     == {i \in DOMAIN table : RowsOf(i) = {}}
           Made(i) == Appended(i, revision[i], Original, table[i].scores)
           Row(i)  == [idea |-> i, revision |-> revision[i], row |-> table[i]]
<1>1. /\ Usable(Original)
      /\ \A i \in DOMAIN table : InParity(table[i])
      /\ assessed' = assessed \cup {Made(i) : i \in new}
      /\ provenance' = provenance \cup {Row(i) : i \in new}
  BY DEF ImportOriginal
<1>2. ASSUME NEW i \in new
      PROVE  /\ Made(i).idea = i /\ Made(i).revision = revision[i]
             /\ Made(i).total = Row(i).row.total
             /\ Row(i).idea = i /\ Row(i).revision = revision[i]
  <2>1. Made(i).total = Total(table[i].scores, Default)
    BY <1>1, OriginalWeighsAsTheWorkbook DEF Appended
  <2> QED
    BY <1>1, <2>1 DEF InParity, Appended
<1>3. ASSUME NEW i \in new, NEW a \in assessed, a.card = Original
      PROVE  a.idea # i
  BY <1>3 DEF OriginalInv, OfImportedRow, RowsOf
<1> HIDE DEF new, Made, Row
<1>4. ASSUME NEW a \in assessed', a.card = Original
      PROVE  OfImportedRow(a)'
  <2>1. CASE a \in assessed
    <3>1. OfImportedRow(a)
      BY <1>4, <2>1 DEF OriginalInv
    <3> QED
      BY <1>1, <3>1 DEF OfImportedRow
  <2>2. CASE a \in {Made(i) : i \in new}
    <3>1. PICK i \in new : a = Made(i)
      BY <2>2
    <3>2. Row(i) \in provenance'
      BY <1>1
    <3> QED
      BY <1>2, <3>1, <3>2 DEF OfImportedRow
  <2> QED
    BY <1>1, <1>4, <2>1, <2>2
<1>5. ASSUME NEW a \in assessed', NEW b \in assessed', a.card = Original, b.card = Original,
             a.idea = b.idea
      PROVE  a = b
  <2>1. CASE a \in assessed /\ b \in assessed
    BY <1>5, <2>1 DEF OriginalInv
  <2>2. CASE a \notin assessed
    <3>1. PICK i \in new : a = Made(i) /\ a.idea = i
      BY <1>1, <1>2, <2>2
    <3>2. b \notin assessed
      BY <1>3, <1>5, <3>1
    <3>3. PICK j \in new : b = Made(j) /\ b.idea = j
      BY <1>1, <1>2, <3>2
    <3> QED
      BY <1>5, <3>1, <3>3
  <2>3. CASE a \in assessed /\ b \notin assessed
    <3>1. PICK j \in new : b = Made(j) /\ b.idea = j
      BY <1>1, <1>2, <2>3
    <3> QED
      BY <1>3, <1>5, <2>3, <3>1
  <2> QED
    BY <2>1, <2>2, <2>3
<1> QED
  BY <1>4, <1>5 DEF OriginalInv

LEMMA OriginalInvariant == ScoringInit /\ [][ScoringNext]_scores => []OriginalInv
<1>1. ScoringInit => OriginalInv
  BY DEF ScoringInit, OriginalInv
<1>2. OriginalInv /\ [ScoringNext]_scores => OriginalInv'
  <2>1. SUFFICES ASSUME OriginalInv, [ScoringNext]_scores PROVE OriginalInv'
    OBVIOUS
  <2>2. ASSUME NEW i \in Ideas, NEW r \in 1..MaxRevisions, NEW card \in Cards,
               NEW judgement \in Judgements, Assess(i, r, card, judgement)
        PROVE  OriginalInv'
    <3>1. /\ assessed' = assessed \cup {Appended(i, r, card, judgement)}
          /\ Appended(i, r, card, judgement).card # Original
          /\ UNCHANGED provenance
      BY <2>2 DEF Assess, Appended
    <3> QED
      BY <2>1, <3>1 DEF OriginalInv, OfImportedRow
  <2>3. CASE UNCHANGED <<assessed, provenance>>
    BY <2>1, <2>3 DEF OriginalInv, OfImportedRow
  <2> QED
    BY <2>1, <2>2, <2>3, ImportStep
    DEF ScoringNext, scores, Revise, ImportScorecard, Rank
<1> QED
  BY <1>1, <1>2, PTL

\* An idea has one original assessment at most, on the revision its row was imported
\* for, with the total the row states: for all cards, rubrics, rows and judgements.
THEOREM WorkbookScoresOnce == ScoringInit /\ [][ScoringNext]_scores => []OriginalScoredOnce
<1>1. ASSUME OriginalInv PROVE OriginalScoredOnce
  <2>1. ASSUME NEW i \in Ideas
        PROVE  Cardinality(OriginalOf(i)) <= 1
    <3>1. CASE OriginalOf(i) = {}
      <4>1. Cardinality(OriginalOf(i)) = 0
        BY <3>1, FS_EmptySet
      <4> QED
        BY <4>1
    <3>2. CASE OriginalOf(i) # {}
      <4>1. PICK a : OriginalOf(i) = {a}
        BY <1>1, <3>2 DEF OriginalInv, OriginalOf
      <4>2. Cardinality(OriginalOf(i)) = 1
        BY <4>1, FS_Singleton
      <4> QED
        BY <4>2
    <3> QED
      BY <3>1, <3>2
  <2>2. ASSUME NEW i \in Ideas, NEW a \in OriginalOf(i)
        PROVE  \E p \in provenance :
                 p.idea = i /\ p.revision = a.revision /\ p.row.total = a.total
    BY <1>1 DEF OriginalInv, OriginalOf, OfImportedRow
  <2> QED
    BY <2>1, <2>2 DEF OriginalScoredOnce, OriginalOf
<1>2. OriginalInv => OriginalScoredOnce
  BY <1>1
<1> QED
  BY <1>2, OriginalInvariant, PTL

-----------------------------------------------------------------------------
(* Scoring and VentureScoring: what the tables hold.                        *)

LEMMA LeastNatural ==
  ASSUME NEW T \in SUBSET Nat, T # {}
  PROVE  \E m \in T : \A k \in T : m <= k
<1>1. IsWellFoundedOn({ss \in Nat \X Nat : ss[1] < ss[2]}, Nat)
  BY NatLessThanWellFounded DEF OpToRel
<1>2. PICK m \in T : \A k \in T : <<k, m>> \notin {ss \in Nat \X Nat : ss[1] < ss[2]}
  BY <1>1, WFMin
<1>3. \A k \in T : ~(k < m)
  BY <1>2
<1> QED
  BY <1>3

\* The sum in Tenths is one of a function defined by recursion over the subsets of the
\* criteria.  It exists, since it does for subsets of every size, and is an integer.
LEMMA SumIsInteger ==
  ASSUME NEW weight, NEW judgement, IsFiniteSet(DOMAIN weight),
         \A c \in DOMAIN weight : Points(weight, c, judgement[c]) \in Int
  PROVE  Tenths(judgement, weight) \in Int
<1> DEFINE S         == DOMAIN weight
           P(c)      == Points(weight, c, judgement[c])
           First(s)  == CHOOSE x \in s : TRUE
           Sum(g, s) == IF s = {} THEN 0 ELSE P(First(s)) + g[s \ {First(s)}]
           Sums      == CHOOSE g : g = [s \in SUBSET S |-> Sum(g, s)]
           Upto(n)   == {s \in SUBSET S : Cardinality(s) <= n}
           IsSum(g, n) == /\ g \in [Upto(n) -> Int]
                          /\ \A s \in Upto(n) : g[s] = Sum(g, s)
<1>1. Tenths(judgement, weight) = Sums[S]
  BY DEF Tenths, MapThenSumSet, MapThenFoldSet
<1>2. ASSUME NEW s \in SUBSET S, s # {}
      PROVE  /\ First(s) \in s /\ P(First(s)) \in Int
             /\ s \ {First(s)} \in SUBSET S
             /\ Cardinality(s \ {First(s)}) = Cardinality(s) - 1
             /\ Cardinality(s) \in Nat \ {0}
  <2>1. First(s) \in s
    BY <1>2
  <2>2. IsFiniteSet(s)
    BY FS_Subset
  <2> QED
    BY <1>2, <2>1, <2>2, FS_RemoveElement, FS_CardinalityType, FS_EmptySet
<1>3. \A s \in SUBSET S : Cardinality(s) \in Nat
  BY FS_Subset, FS_CardinalityType
<1> HIDE DEF P, First, S
<1>4. \E g : IsSum(g, 0)
  <2>1. \A s \in Upto(0) : s = {}
    <3>1. ASSUME NEW s \in SUBSET S, s # {} PROVE ~(Cardinality(s) <= 0)
      <4>1. Cardinality(s) \in Nat \ {0}
        BY <1>2, <3>1
      <4> QED
        BY <4>1
    <3> QED
      BY <3>1
  <2> DEFINE none == [s \in Upto(0) |-> 0]
  <2>2. none \in [Upto(0) -> Int]
    OBVIOUS
  <2>3. \A s \in Upto(0) : none[s] = Sum(none, s)
    BY <2>1
  <2> QED
    BY <2>2, <2>3
<1>5. ASSUME NEW n \in Nat, NEW g, IsSum(g, n)
      PROVE  \E h : IsSum(h, n + 1)
  <2> DEFINE h == [s \in Upto(n + 1) |-> Sum(g, s)]
  <2>1. ASSUME NEW s \in Upto(n + 1), s # {}
        PROVE  s \ {First(s)} \in Upto(n)
    BY <1>2, <1>3, <2>1
  <2>2. \A s \in Upto(n + 1) : Sum(g, s) \in Int
    BY <1>2, <1>5, <2>1
  <2>3. ASSUME NEW s \in Upto(n)
        PROVE  s \in Upto(n + 1) /\ h[s] = g[s]
    BY <1>3, <1>5
  <2>4. ASSUME NEW s \in Upto(n + 1)
        PROVE  h[s] = Sum(h, s)
    BY <2>1, <2>3
  <2>5. h \in [Upto(n + 1) -> Int]
    BY <2>2
  <2> QED
    BY <2>4, <2>5
<1>6. \A n \in Nat : \E g : IsSum(g, n)
  <2> DEFINE Bad == {n \in Nat : ~\E g : IsSum(g, n)}
  <2>1. SUFFICES ASSUME Bad # {} PROVE FALSE
    OBVIOUS
  <2>2. PICK n \in Bad : \A k \in Bad : n <= k
    <3> HIDE DEF IsSum
    <3>1. Bad \in SUBSET Nat
      OBVIOUS
    <3> HIDE DEF Bad
    <3> QED
      BY <2>1, <3>1, LeastNatural
  <2> HIDE DEF IsSum
  <2>3. n # 0
    BY <1>4
  <2>4. n - 1 \in Nat /\ n - 1 \notin Bad
    BY <2>2, <2>3
  <2>5. \E g : IsSum(g, n - 1 + 1)
    BY <1>5, <2>4
  <2> QED
    BY <2>5
<1>7. Sums = [s \in SUBSET S |-> Sum(Sums, s)]
  <2>1. IsFiniteSet(S) /\ Cardinality(S) \in Nat
    BY FS_CardinalityType DEF S
  <2>2. PICK g : IsSum(g, Cardinality(S))
    BY <1>6, <2>1
  <2>3. Upto(Cardinality(S)) = SUBSET S
    BY <1>3, <2>1, FS_Subset
  <2>4. g = [s \in SUBSET S |-> Sum(g, s)]
    BY <2>2, <2>3
  <2> QED
    BY <2>4
<1> HIDE DEF Sums
<1>8. \A s \in SUBSET S : Sums[s] \in Int
  <2> DEFINE Bad == {Cardinality(s) : s \in {t \in SUBSET S : Sums[t] \notin Int}}
  <2>1. SUFFICES ASSUME Bad # {} PROVE FALSE
    OBVIOUS
  <2>2. Bad \in SUBSET Nat
    BY <1>3
  <2>3. PICK n \in Bad : \A k \in Bad : n <= k
    <3> HIDE DEF Bad
    <3> QED
      BY <2>1, <2>2, LeastNatural
  <2>4. PICK s \in SUBSET S : Sums[s] \notin Int /\ Cardinality(s) = n
    BY <2>3
  <2>5. s # {}
    BY <1>7, <2>4
  <2>6. Sums[s \ {First(s)}] \in Int
    BY <1>2, <2>2, <2>3, <2>4, <2>5
  <2>7. Sums[s] = P(First(s)) + Sums[s \ {First(s)}]
    BY <1>7, <2>5
  <2>8. P(First(s)) \in Int
    BY <1>2, <2>5
  <2> QED
    BY <2>4, <2>6, <2>7, <2>8
<1> QED
  BY <1>1, <1>8 DEF S

\* A total is a whole number of points, or unknown.
LEMMA TotalIsKnown ==
  ASSUME NEW rubric \in DOMAIN Rubrics, NEW judgement,
         \A c \in DOMAIN Rubrics[rubric] : judgement[c] \in Int
  PROVE  Total(judgement, rubric) \in Totals
<1> DEFINE weight == Rubrics[rubric]
           tenths == Tenths(judgement, weight)
<1>1. \A c \in DOMAIN weight : Points(weight, c, judgement[c]) \in Int
  BY ScoresAreNumbers DEF Points
<1>2. IsFiniteSet(DOMAIN weight)
  BY ScoresAreNumbers
<1>3. tenths \in Int
  <2> HIDE DEF weight
  <2> QED
    BY <1>1, <1>2, SumIsInteger
<1>4. Total(judgement, rubric) =
        IF \E c \in DOMAIN weight : judgement[c] = Unknown THEN NoTotal
        ELSE Clamped((tenths + 5) \div 10)
  BY DEF Total
<1> HIDE DEF tenths
<1>5. Clamped((tenths + 5) \div 10) \in 0..100
  BY <1>3 DEF Clamped
<1> QED
  BY <1>4, <1>5 DEF Totals

\* The number of an assessment is at most how many there are on its revision and card.
NumberedInTurn ==
  \A a \in assessed : a.number <= Cardinality(Of(a.idea, a.revision, a.card))

ScoringInv == ScoringTypeOK /\ IsFiniteSet(assessed) /\ NumberedInTurn

\* A card that may be used is made with the default rubric, or was made before.
LEMMA CardsInUse ==
  ASSUME ScoringTypeOK, NEW card \in Cards, Usable(card)
  PROVE  /\ Used(card) \in Scorecards
         /\ DOMAIN cards \subseteq DOMAIN Used(card)
         /\ card \in DOMAIN Used(card)
         /\ Used(card)[card] \in DOMAIN Rubrics
<1>1. PICK made \in SUBSET Cards : cards \in [made -> DOMAIN Rubrics]
  BY DEF ScoringTypeOK, Scorecards
<1>2. CASE card \in DOMAIN cards
  BY <1>1, <1>2 DEF Used, Scorecards
<1>3. CASE card \notin DOMAIN cards
  <2>1. Used(card) = With(card, Default)
    BY <1>3 DEF Used
  <2>2. With(card, Default) \in [made \cup {card} -> DOMAIN Rubrics]
    BY <1>1, ScoringRubrics DEF With
  <2> QED
    BY <1>1, <2>1, <2>2 DEF Scorecards
<1> QED
  BY <1>2, <1>3

\* What is appended is an assessment, with a number of its own.
LEMMA AppendedIsNew ==
  ASSUME ScoringInv, NEW i \in Ideas, NEW r \in 1..MaxRevisions, NEW card \in Cards,
         Usable(card), Cardinality(assessed) < MaxAssessments, NEW judgement,
         \A rubric \in DOMAIN Rubrics :
            \A c \in DOMAIN Rubrics[rubric] : judgement[c] \in Int
  PROVE  /\ Appended(i, r, card, judgement) \in Assessment
         /\ Appended(i, r, card, judgement).idea = i
         /\ Appended(i, r, card, judgement).revision = r
         /\ Appended(i, r, card, judgement).card = card
         /\ Appended(i, r, card, judgement).number = Numbered(i, r, card) + 1
<1>1. Total(judgement, Used(card)[card]) \in Totals
  BY CardsInUse, TotalIsKnown DEF ScoringInv
<1>2. /\ Numbered(i, r, card) \in Nat
      /\ Numbered(i, r, card) <= Cardinality(assessed)
  <2>1. Of(i, r, card) \in SUBSET assessed
    BY DEF Of
  <2> QED
    BY <2>1, FS_Subset, FS_CardinalityType DEF Numbered, ScoringInv
<1>3. Cardinality(assessed) \in Nat
  BY FS_CardinalityType DEF ScoringInv
<1>4. Numbered(i, r, card) + 1 \in 1..MaxAssessments
  BY <1>2, <1>3, ScoringBounds
<1> QED
  BY <1>1, <1>4 DEF Appended, Assessment

\* Assessments are added, one at most for a revision and card, each with the next number.
LEMMA AssessedStep ==
  ASSUME ScoringInv, NEW New \in SUBSET Assessment, IsFiniteSet(New),
         \A n \in New : /\ n.number = Numbered(n.idea, n.revision, n.card) + 1
                        /\ n.revision <= revision[n.idea]
                        /\ n.card \in DOMAIN cards',
         \A m, n \in New :
            m.idea = n.idea /\ m.revision = n.revision /\ m.card = n.card => m = n,
         assessed' = assessed \cup New,
         cards' \in Scorecards, DOMAIN cards \subseteq DOMAIN cards',
         provenance' \subseteq Provenance, UNCHANGED <<revision, ranking>>
  PROVE  ScoringInv'
<1> DEFINE Same(a, b) == a.idea = b.idea /\ a.revision = b.revision /\ a.card = b.card
           Earlier(a)    == Of(a.idea, a.revision, a.card)
           Grown(a)   == {b \in assessed' : Same(b, a)}
<1>1. IsFiniteSet(assessed) /\ IsFiniteSet(assessed')
  BY FS_Union DEF ScoringInv
<1>2. ASSUME NEW a
      PROVE  /\ Earlier(a) \subseteq Grown(a)
             /\ IsFiniteSet(Earlier(a)) /\ IsFiniteSet(Grown(a))
             /\ Cardinality(Earlier(a)) \in Nat /\ Cardinality(Grown(a)) \in Nat
             /\ Cardinality(Earlier(a)) <= Cardinality(Grown(a))
  <2>1. Earlier(a) \subseteq assessed /\ Grown(a) \subseteq assessed' /\ Earlier(a) \subseteq Grown(a)
    BY DEF Of
  <2> HIDE DEF Earlier, Grown
  <2>2. IsFiniteSet(Earlier(a)) /\ IsFiniteSet(Grown(a))
    BY <1>1, <2>1, FS_Subset
  <2> QED
    BY <2>1, <2>2, FS_Subset, FS_CardinalityType
<1>3. ASSUME NEW n \in New, NEW a \in assessed, Same(a, n)
      PROVE  a.number < n.number
  <2>1. a.number <= Cardinality(Earlier(n)) /\ n.number = Cardinality(Earlier(n)) + 1
    BY <1>3 DEF ScoringInv, NumberedInTurn, Numbered
  <2>2. a.number \in Nat
    BY DEF ScoringInv, ScoringTypeOK, Assessment
  <2>3. Cardinality(Earlier(n)) \in Nat
    BY <1>2
  <2> QED
    BY <2>1, <2>2, <2>3
<1>4. ASSUME NEW n \in New
      PROVE  n.number <= Cardinality(Grown(n))
  <2>1. n \notin Earlier(n) /\ Earlier(n) \cup {n} \subseteq Grown(n)
    <3>1. n \notin assessed
      BY <1>3 DEF Assessment
    <3> QED
      BY <1>2, <3>1 DEF Of
  <2>2. Cardinality(Earlier(n) \cup {n}) = Cardinality(Earlier(n)) + 1
    BY <1>2, <2>1, FS_AddElement
  <2>3. Cardinality(Earlier(n) \cup {n}) <= Cardinality(Grown(n))
    BY <1>2, <2>1, FS_Subset
  <2> QED
    BY <2>2, <2>3 DEF Numbered
<1> HIDE DEF Earlier, Grown
<1>5. \A a \in assessed' : a.number <= Cardinality(Grown(a))
  <2>1. ASSUME NEW a \in assessed PROVE a.number <= Cardinality(Grown(a))
    <3>1. a.number <= Cardinality(Earlier(a)) /\ a.number \in Nat
      BY DEF ScoringInv, NumberedInTurn, ScoringTypeOK, Assessment, Earlier
    <3>2. /\ Cardinality(Earlier(a)) \in Nat /\ Cardinality(Grown(a)) \in Nat
          /\ Cardinality(Earlier(a)) <= Cardinality(Grown(a))
      BY <1>2
    <3> QED
      BY <3>1, <3>2
  <2> QED
    BY <1>4, <2>1
<1>6. NumberedInTurn'
  BY <1>5 DEF NumberedInTurn, Of, Grown
<1>7. \A a, b \in assessed' : Same(a, b) /\ a.number = b.number => a = b
  <2>1. \A a, b \in assessed : Same(a, b) /\ a.number = b.number => a = b
    BY DEF ScoringInv, ScoringTypeOK
  <2>2. \A a \in assessed, b \in New : ~(Same(a, b) /\ a.number = b.number)
    BY <1>3 DEF ScoringInv, ScoringTypeOK, Assessment
  <2>3. \A a, b : Same(a, b) => Same(b, a)
    OBVIOUS
  <2> QED
    BY <2>1, <2>2, <2>3
<1>8. ScoringTypeOK'
  BY <1>7 DEF ScoringInv, ScoringTypeOK
<1> QED
  BY <1>1, <1>6, <1>8 DEF ScoringInv

\* Of assessments there is a latest.
LEMMA LatestIsThere ==
  ASSUME NEW S \in SUBSET Assessment, S # {}
  PROVE  Latest(S) \in S
<1> DEFINE Above == {MaxAssessments - a.number : a \in S}
<1>1. \A a \in S : a.number \in Int /\ a.number <= MaxAssessments
  BY ScoringBounds DEF Assessment
<1>2. Above \in SUBSET Nat /\ Above # {}
  BY <1>1, ScoringBounds
<1> HIDE DEF Above
<1>3. PICK m \in Above : \A k \in Above : m <= k
  BY <1>2, LeastNatural
<1>4. PICK a \in S : m = MaxAssessments - a.number
  BY DEF Above
<1>5. ASSUME NEW b \in S PROVE b.number <= a.number
  <2>1. MaxAssessments - b.number \in Above
    BY DEF Above
  <2> QED
    BY <1>1, <1>3, <1>4, <2>1, ScoringBounds
<1> QED
  BY <1>5 DEF Latest

\* A ranking has at most one entry for each idea, so that ranks do not exceed them.
LEMMA RanksFit ==
  ASSUME ScoringInv, NEW card \in Cards
  PROVE  \A e \in Ranked(Comparable(card)) : e \in Entry /\ e.of \in assessed
<1> DEFINE On(i) == Of(i, revision[i], card)
           S     == Comparable(card)
<1>1. ASSUME NEW i \in Ideas, On(i) # {}
      PROVE  Latest(On(i)) \in assessed /\ Latest(On(i)).idea = i
  <2>1. On(i) \in SUBSET Assessment
    BY DEF Of, ScoringInv, ScoringTypeOK
  <2>2. Latest(On(i)) \in On(i)
    <3> HIDE DEF On
    <3> QED
      BY <1>1, <2>1, LatestIsThere
  <2> QED
    BY <2>2 DEF Of
<1>2. \A a \in S : a \in Assessment /\ a \in assessed /\ a.idea \in Ideas /\ a = Latest(On(a.idea))
  BY <1>1 DEF Comparable, ScoringInv, ScoringTypeOK
<1> HIDE DEF S, On
<1>3. ASSUME NEW a \in S
      PROVE  Cardinality({b \in S : Before(b, a)}) + 1 \in 1..Cardinality(Ideas)
  <2> DEFINE T == {b \in S : Before(b, a)}
             f == [b \in T |-> b.idea]
  <2>1. \A b \in T : b.idea \in Ideas \ {a.idea}
    <3>1. ASSUME NEW b \in T, b.idea = a.idea PROVE FALSE
      <4>1. b = a
        BY <1>2, <3>1
      <4>2. a.total \in Int /\ a.idea \in Int
        <5>1. a.total \in Totals /\ a.idea \in Ideas
          BY <1>2 DEF Assessment
        <5>2. a.idea \in Int
          BY <5>1, ScoringBounds
        <5>3. Totals \subseteq Int
          BY DEF Totals, NoTotal
        <5> QED
          BY <5>1, <5>2, <5>3
      <4> QED
        BY <4>1, <4>2 DEF Before
    <3> QED
      BY <1>2, <3>1
  <2>2. f \in Injection(T, Ideas \ {a.idea})
    BY <1>2, <2>1 DEF Injection, IsInjective
  <2>3. /\ IsFiniteSet(Ideas \ {a.idea})
        /\ Cardinality(Ideas \ {a.idea}) = Cardinality(Ideas) - 1
        /\ Cardinality(Ideas) \in Nat
    BY <1>2, ScoringBounds, FS_RemoveElement, FS_CardinalityType
  <2> HIDE DEF T, f
  <2>4. IsFiniteSet(T) /\ Cardinality(T) <= Cardinality(Ideas) - 1
    BY <2>2, <2>3, FS_Injection
  <2>5. Cardinality(T) \in Nat
    BY <2>4, FS_CardinalityType
  <2>6. Cardinality(T) + 1 \in 1..Cardinality(Ideas)
    BY <2>3, <2>4, <2>5
  <2> QED
    BY <2>6 DEF T
<1>4. ASSUME NEW a \in S
      PROVE  [of |-> a, rank |-> Cardinality({b \in S : Before(b, a)}) + 1] \in Entry
  BY <1>2, <1>3 DEF Entry
<1>5. ASSUME NEW e \in Ranked(S)
      PROVE  e \in Entry /\ e.of \in assessed
  <2>1. PICK a \in S : e = [of |-> a, rank |-> Cardinality({b \in S : Before(b, a)}) + 1]
    BY DEF Ranked
  <2> QED
    BY <1>2, <1>4, <2>1
<1> QED
  BY <1>5 DEF S

LEMMA AssessStep ==
  ASSUME ScoringInv, NEW i \in Ideas, NEW r \in 1..MaxRevisions, NEW card \in Cards,
         NEW judgement \in Judgements, Assess(i, r, card, judgement)
  PROVE  ScoringInv'
<1> DEFINE a == Appended(i, r, card, judgement)
<1>1. /\ a \in Assessment
      /\ a.idea = i /\ a.revision = r /\ a.card = card
      /\ a.number = Numbered(i, r, card) + 1
  BY AppendedIsNew, ScoresAreNumbers DEF Assess
<1>2. /\ Used(card) \in Scorecards /\ DOMAIN cards \subseteq DOMAIN Used(card)
      /\ card \in DOMAIN Used(card)
  BY CardsInUse DEF Assess, ScoringInv
<1>3. /\ assessed' = assessed \cup {a} /\ cards' = Used(card) /\ r <= revision[i]
      /\ UNCHANGED <<revision, ranking, provenance>>
  BY DEF Assess
<1>4. provenance' \subseteq Provenance
  BY <1>3 DEF ScoringInv, ScoringTypeOK
<1> HIDE DEF a
<1>5. IsFiniteSet({a}) /\ {a} \in SUBSET Assessment
  BY <1>1, FS_Singleton
<1> QED
  BY <1>1, <1>2, <1>3, <1>4, <1>5, AssessedStep

LEMMA ImportedStep ==
  ASSUME ScoringInv, NEW S \in SUBSET Ideas, NEW table \in [S -> Rows], ImportOriginal(table)
  PROVE  ScoringInv'
<1> DEFINE new     == {i \in DOMAIN table : RowsOf(i) = {}}
           Made(i) == Appended(i, revision[i], Original, table[i].scores)
           made    == {Made(i) : i \in new}
<1>1. /\ Usable(Original) /\ new # {}
      /\ Cardinality(assessed) + Cardinality(new) <= MaxAssessments
      /\ cards' = Used(Original)
      /\ assessed' = assessed \cup made
      /\ provenance' = provenance \cup
            {[idea |-> i, revision |-> revision[i], row |-> table[i]] : i \in new}
      /\ UNCHANGED <<revision, ranking>>
  BY DEF ImportOriginal
<1>2. \A i \in new : i \in Ideas /\ table[i] \in Rows /\ revision[i] \in 1..MaxRevisions
  BY DEF ScoringInv, ScoringTypeOK
<1>3. Original \in Cards
  BY DEF Cards
<1>4. IsFiniteSet(new) /\ Cardinality(new) \in Nat \ {0}
  <2>1. new \in SUBSET Ideas
    OBVIOUS
  <2> HIDE DEF new
  <2> QED
    BY <1>1, <2>1, ScoringBounds, FS_Subset, FS_CardinalityType, FS_EmptySet
<1>5. Cardinality(assessed) < MaxAssessments
  <2>1. Cardinality(assessed) \in Nat
    BY FS_CardinalityType DEF ScoringInv
  <2> HIDE DEF new
  <2> QED
    BY <1>1, <1>4, <2>1, ScoringBounds
<1>6. ASSUME NEW i \in new
      PROVE  /\ Made(i) \in Assessment
             /\ Made(i).idea = i /\ Made(i).revision = revision[i] /\ Made(i).card = Original
             /\ Made(i).number = Numbered(i, revision[i], Original) + 1
  <2> HIDE DEF new
  <2>1. \A rubric \in DOMAIN Rubrics :
           \A c \in DOMAIN Rubrics[rubric] : table[i].scores[c] \in Int
    BY <1>2, ScoresAreNumbers
  <2> QED
    BY <1>1, <1>2, <1>3, <1>5, <2>1, AppendedIsNew
<1>7. /\ Used(Original) \in Scorecards /\ DOMAIN cards \subseteq DOMAIN Used(Original)
      /\ Original \in DOMAIN Used(Original)
  BY <1>1, <1>3, CardsInUse DEF ScoringInv
<1>8. provenance' \subseteq Provenance
  BY <1>1, <1>2 DEF Provenance, ScoringInv, ScoringTypeOK
<1> HIDE DEF new, Made
<1>9. /\ made \in SUBSET Assessment
      /\ \A n \in made : /\ n.number = Numbered(n.idea, n.revision, n.card) + 1
                         /\ n.revision <= revision[n.idea]
                         /\ n.card = Original
      /\ \A m, n \in made : m.idea = n.idea => m = n
  BY <1>2, <1>6
<1>10. IsFiniteSet(made)
  <2> DEFINE f == [i \in new |-> Made(i)]
  <2>1. f \in Surjection(new, made)
    BY DEF Surjection
  <2> HIDE DEF f, made
  <2> QED
    BY <1>4, <2>1, FS_Surjection
<1> HIDE DEF made
<1> QED
  BY <1>1, <1>7, <1>8, <1>9, <1>10, AssessedStep

LEMMA ScoringStep ==
  ASSUME ScoringInv, [ScoringNext]_scores
  PROVE  ScoringInv'
<1>1. ASSUME NEW i \in Ideas, Revise(i)
      PROVE  ScoringInv'
  BY <1>1, ScoringBounds
  DEF Revise, ScoringInv, ScoringTypeOK, NumberedInTurn, Of, Assessment
<1>2. ASSUME NEW new \in Imports, ImportScorecard(new.card, new.rubric)
      PROVE  ScoringInv'
  <2>1. PICK made \in SUBSET Cards : cards \in [made -> DOMAIN Rubrics]
    BY DEF ScoringInv, ScoringTypeOK, Scorecards
  <2>2. cards' \in [made \cup {new.card} -> DOMAIN Rubrics] /\ new.card \in Cards
    BY <1>2, <2>1, ScoringRubrics DEF ImportScorecard, With
  <2>3. cards' \in Scorecards /\ DOMAIN cards \subseteq DOMAIN cards'
    BY <2>1, <2>2 DEF Scorecards
  <2> QED
    BY <1>2, <2>3 DEF ImportScorecard, ScoringInv, ScoringTypeOK, NumberedInTurn, Of
<1>3. ASSUME NEW card \in Cards, NEW label \in Labels, Rank(card, label)
      PROVE  ScoringInv'
  <2>1. \A e \in Ranked(Comparable(card)) : e \in Entry /\ e.of \in assessed
    BY RanksFit
  <2>2. /\ UNCHANGED <<revision, cards, assessed, provenance>>
        /\ ranking' = [l \in DOMAIN ranking \cup {label} |->
                         IF l = label THEN Ranked(Comparable(card)) ELSE ranking[l]]
    BY <1>3 DEF Rank
  <2>3. \A l \in DOMAIN ranking' : \A e \in ranking'[l] : e \in Entry /\ e.of \in assessed
    BY <2>1, <2>2 DEF ScoringInv, ScoringTypeOK
  <2> QED
    BY <2>2, <2>3 DEF ScoringInv, ScoringTypeOK, NumberedInTurn, Of
<1>4. CASE UNCHANGED scores
  BY <1>4 DEF scores, ScoringInv, ScoringTypeOK, NumberedInTurn, Of
<1> QED
  BY <1>1, <1>2, <1>3, <1>4, AssessStep, ImportedStep DEF ScoringNext

LEMMA ScoringBegins == ScoringInit => ScoringInv
<1>1. ASSUME ScoringInit PROVE ScoringInv
  <2>1. cards \in [{} -> DOMAIN Rubrics]
    BY <1>1 DEF ScoringInit
  <2>2. cards \in Scorecards
    BY <2>1 DEF Scorecards
  <2> QED
    BY <1>1, <2>2, ScoringBounds, FS_EmptySet
    DEF ScoringInit, ScoringInv, ScoringTypeOK, NumberedInTurn
<1> QED
  BY <1>1

\* A venture's own judgement is never on the card of the workbook, and the sequence of
\* an assessment is at most how many there are.
JudgingInv ==
  /\ TypeOK
  /\ ScoringInv
  /\ IsFiniteSet(judged)
  /\ \A a \in judged : a.card = Original => a.kind = "source_baseline"
  /\ \A a \in judged : a.sequence <= Cardinality(judged)

LEMMA LastSequenceIsLast ==
  ASSUME JudgingInv, NEW v, NEW card
  PROVE  /\ LastSequence(v, card) \in Nat
         /\ LastSequence(v, card) <= Cardinality(judged)
         /\ \A a \in JudgedOn(v, card) : a.sequence <= LastSequence(v, card)
<1> DEFINE N     == Cardinality(judged)
           Seqs  == {0} \cup {a.sequence : a \in JudgedOn(v, card)}
           Above == {N - s : s \in Seqs}
<1>1. N \in Nat
  BY FS_CardinalityType DEF JudgingInv
<1>2. \A s \in Seqs : s \in Nat /\ s <= N
  BY <1>1 DEF JudgingInv, TypeOK, Judged, JudgedOn
<1>3. 0 \in Seqs
  OBVIOUS
<1> HIDE DEF N, Seqs
<1>4. Above \in SUBSET Nat /\ Above # {}
  BY <1>1, <1>2, <1>3
<1> HIDE DEF Above
<1>5. PICK m \in Above : \A k \in Above : m <= k
  BY <1>4, LeastNatural
<1>6. PICK s \in Seqs : m = N - s
  BY DEF Above
<1>7. ASSUME NEW t \in Seqs PROVE s >= t
  <2>1. N - t \in Above
    BY DEF Above
  <2> QED
    BY <1>1, <1>2, <1>5, <1>6, <2>1
<1>8. Max(Seqs) \in Seqs /\ \A t \in Seqs : Max(Seqs) >= t
  BY <1>7 DEF Max
<1>9. LastSequence(v, card) = Max(Seqs)
  BY DEF LastSequence, Seqs
<1>10. \A a \in JudgedOn(v, card) : a.sequence \in Seqs
  BY DEF Seqs
<1> QED
  BY <1>1, <1>2, <1>8, <1>9, <1>10 DEF N

\* Assessments are added, at most one for a venture and card, each with the next number
\* and a key of its own.
LEMMA JudgedStep ==
  ASSUME JudgingInv, NEW New \in SUBSET Judged, IsFiniteSet(New),
         \A n \in New : /\ n.sequence = LastSequence(n.venture, n.card) + 1
                        /\ n.card = Original => n.kind = "source_baseline"
                        /\ \A a \in judged : ~(a.venture = n.venture /\ a.key = n.key),
         \A m, n \in New :
            m.venture = n.venture /\ (m.key = n.key \/ m.card = n.card) => m = n,
         judged' = judged \cup New, ScoringInv', scope' \in [Ventures -> Scope \cup {Absent}]
  PROVE  JudgingInv'
<1> DEFINE Clash(a, b) == /\ a.venture = b.venture
                          /\ a.key = b.key \/ (a.card = b.card /\ a.sequence = b.sequence)
<1>1. /\ IsFiniteSet(judged) /\ IsFiniteSet(judged')
      /\ Cardinality(judged) \in Nat /\ Cardinality(judged') \in Nat
      /\ Cardinality(judged) <= Cardinality(judged')
  <2>1. IsFiniteSet(judged) /\ IsFiniteSet(judged')
    BY FS_Union DEF JudgingInv
  <2> QED
    BY <2>1, FS_Subset, FS_CardinalityType
<1>2. ASSUME NEW n \in New
      PROVE  n.sequence <= Cardinality(judged')
  <2>1. n \notin judged
    OBVIOUS
  <2>2. Cardinality(judged \cup {n}) = Cardinality(judged) + 1
    BY <1>1, <2>1, FS_AddElement
  <2>3. Cardinality(judged \cup {n}) <= Cardinality(judged')
    BY <1>1, FS_Subset
  <2>4. /\ LastSequence(n.venture, n.card) \in Nat
        /\ LastSequence(n.venture, n.card) <= Cardinality(judged)
    BY LastSequenceIsLast
  <2> QED
    BY <1>1, <2>2, <2>3, <2>4
<1>3. ASSUME NEW n \in New, NEW a \in judged
      PROVE  ~Clash(a, n) /\ ~Clash(n, a)
  <2>1. ASSUME a.venture = n.venture, a.card = n.card PROVE a.sequence < n.sequence
    <3>1. a \in JudgedOn(n.venture, n.card)
      BY <2>1 DEF JudgedOn
    <3>2. a.sequence \in Nat
      BY DEF JudgingInv, TypeOK, Judged
    <3> QED
      BY <3>1, <3>2, LastSequenceIsLast
  <2>2. a.sequence \in Nat /\ n.sequence \in Nat
    BY DEF JudgingInv, TypeOK, Judged
  <2> QED
    BY <2>1, <2>2
<1>4. \A a, b \in judged' : Clash(a, b) => a = b
  <2>1. \A a, b \in judged : Clash(a, b) => a = b
    BY DEF JudgingInv, TypeOK
  <2>2. \A a, b \in New : Clash(a, b) => a = b
    OBVIOUS
  <2> HIDE DEF Clash
  <2> QED
    BY <1>3, <2>1, <2>2
<1>5. TypeOK'
  BY <1>4 DEF JudgingInv, ScoringInv, TypeOK
<1>6. \A a \in judged' : a.sequence <= Cardinality(judged')
  <2>1. ASSUME NEW a \in judged PROVE a.sequence <= Cardinality(judged')
    <3>1. a.sequence \in Nat /\ a.sequence <= Cardinality(judged)
      BY DEF JudgingInv, TypeOK, Judged
    <3> QED
      BY <1>1, <3>1
  <2> QED
    BY <1>2, <2>1
<1> QED
  BY <1>1, <1>5, <1>6 DEF JudgingInv

\* What is copied for a venture is an assessment on each card, with the card as its key.
LEMMA BaselinesAreNew ==
  ASSUME JudgingInv, NEW v \in Ventures, NEW s \in Scope
  PROVE  /\ Baselines(v, s) \in SUBSET Judged
         /\ IsFiniteSet(Baselines(v, s))
         /\ \A n \in Baselines(v, s) :
              /\ n.venture = v /\ n.key = n.card /\ n.kind = "source_baseline"
              /\ n.sequence = LastSequence(v, n.card) + 1
              /\ \A a \in judged : ~(a.venture = v /\ a.key = n.card)
         /\ \A m, n \in Baselines(v, s) : m.card = n.card => m = n
<1> DEFINE copied == {c \in Cards : SourceOf(s, c) # {} /\ ~HasBaseline(v, c)}
           f      == [c \in copied |-> Baseline(v, s, c)]
<1>1. ASSUME NEW c \in copied
      PROVE  /\ Baseline(v, s, c) \in Judged
             /\ Baseline(v, s, c).venture = v /\ Baseline(v, s, c).card = c
             /\ Baseline(v, s, c).key = c /\ Baseline(v, s, c).kind = "source_baseline"
             /\ Baseline(v, s, c).sequence = LastSequence(v, c) + 1
             /\ \A a \in judged : ~(a.venture = v /\ a.key = c)
  <2>1. SourceOf(s, c) \in SUBSET Assessment /\ SourceOf(s, c) # {}
    BY DEF SourceOf, Of, JudgingInv, ScoringInv, ScoringTypeOK
  <2>2. Latest(SourceOf(s, c)).total \in Totals
    BY <2>1, LatestIsThere DEF Assessment
  <2>3. LastSequence(v, c) + 1 \in Nat \ {0}
    BY LastSequenceIsLast
  <2> QED
    BY <2>2, <2>3 DEF Baseline, Judged, Kinds, HasBaseline
<1>2. Baselines(v, s) = {f[c] : c \in copied}
  BY DEF Baselines
<1>3. IsFiniteSet(copied)
  <2>1. IsFiniteSet(Cards)
    <3>1. IsFiniteSet({Original, Reviewed})
      <4>1. IsFiniteSet({Original})
        BY FS_Singleton
      <4>2. IsFiniteSet({Original} \cup {Reviewed})
        BY <4>1, FS_AddElement
      <4>3. {Original, Reviewed} = {Original} \cup {Reviewed}
        OBVIOUS
      <4> QED
        BY <4>2, <4>3
    <3> QED
      BY <3>1, JudgingBounds, FS_Union DEF Cards
  <2> QED
    BY <2>1, FS_Subset
<1>4. IsFiniteSet(Baselines(v, s))
  <2>1. f \in Surjection(copied, Baselines(v, s))
    BY <1>2 DEF Surjection
  <2> HIDE DEF f, copied
  <2> QED
    BY <1>3, <2>1, FS_Surjection
<1>5. \A n \in Baselines(v, s) : \E c \in copied : n = Baseline(v, s, c)
  BY <1>2
<1> HIDE DEF copied
<1>6. Baselines(v, s) \in SUBSET Judged
  BY <1>1, <1>5
<1>7. ASSUME NEW n \in Baselines(v, s)
      PROVE  /\ n.venture = v /\ n.key = n.card /\ n.kind = "source_baseline"
             /\ n.sequence = LastSequence(v, n.card) + 1
             /\ \A a \in judged : ~(a.venture = v /\ a.key = n.card)
  <2>1. PICK c \in copied : n = Baseline(v, s, c)
    BY <1>5
  <2> QED
    BY <1>1, <2>1
<1>8. ASSUME NEW m \in Baselines(v, s), NEW n \in Baselines(v, s), m.card = n.card
      PROVE  m = n
  <2>1. PICK c \in copied : m = Baseline(v, s, c) /\ m.card = c
    BY <1>1, <1>5
  <2>2. PICK d \in copied : n = Baseline(v, s, d) /\ n.card = d
    BY <1>1, <1>5
  <2> QED
    BY <1>8, <2>1, <2>2
<1> QED
  BY <1>4, <1>6, <1>7, <1>8

LEMMA ScopeRows ==
  ASSUME JudgingInv
  PROVE  /\ \A v \in Ventures : Exists(v) => scope[v] \in Scope
         /\ \A i \in Ideas : revision[i] \in 0..MaxRevisions
  BY ScoringBounds DEF JudgingInv, ScoringInv, ScoringTypeOK, TypeOK, Exists

LEMMA PromotedStep ==
  ASSUME JudgingInv, NEW v \in Ventures, NEW i \in Ideas, NEW aim \in Objectives,
         Promote(v, i, aim)
  PROVE  JudgingInv'
<1> DEFINE s == [idea |-> i, revision |-> revision[i], aim |-> aim, news |-> 0]
<1>1. s \in Scope
  BY ScopeRows, JudgingBounds DEF Scope
<1>2. /\ scope' = [scope EXCEPT ![v] = s]
      /\ judged' = judged \cup Baselines(v, s)
      /\ UNCHANGED scores
  BY DEF Promote
<1>3. ScoringInv'
  BY <1>2, ScoringStep DEF JudgingInv
<1>4. scope' \in [Ventures -> Scope \cup {Absent}]
  BY <1>1, <1>2 DEF JudgingInv, TypeOK
<1> HIDE DEF s
<1>5. /\ Baselines(v, s) \in SUBSET Judged
      /\ IsFiniteSet(Baselines(v, s))
      /\ \A n \in Baselines(v, s) :
           /\ n.venture = v /\ n.key = n.card /\ n.kind = "source_baseline"
           /\ n.sequence = LastSequence(v, n.card) + 1
           /\ \A a \in judged : ~(a.venture = v /\ a.key = n.card)
      /\ \A m, n \in Baselines(v, s) : m.card = n.card => m = n
  BY <1>1, BaselinesAreNew
<1> DEFINE New == Baselines(v, s)
<1>6. \A n \in New : /\ n.sequence = LastSequence(n.venture, n.card) + 1
                     /\ n.card = Original => n.kind = "source_baseline"
                     /\ \A a \in judged : ~(a.venture = n.venture /\ a.key = n.key)
  BY <1>5
<1>7. \A m, n \in New : m.venture = n.venture /\ (m.key = n.key \/ m.card = n.card) => m = n
  BY <1>5
<1> HIDE DEF New
<1> QED
  BY <1>2, <1>3, <1>4, <1>5, <1>6, <1>7, JudgedStep DEF New

LEMMA BootstrapStep ==
  ASSUME JudgingInv, Bootstrap
  PROVE  JudgingInv'
<1> DEFINE sourced == {v \in Ventures : Exists(v) /\ scope[v].idea # NoIdea}
           New     == UNION {Baselines(v, scope[v]) : v \in sourced}
<1>1. judged' = judged \cup New /\ UNCHANGED <<scores, scope>>
  BY DEF Bootstrap
<1>2. ScoringInv'
  BY <1>1, ScoringStep DEF JudgingInv
<1>3. scope' \in [Ventures -> Scope \cup {Absent}]
  BY <1>1 DEF JudgingInv, TypeOK
<1>4. \A v \in sourced : v \in Ventures /\ scope[v] \in Scope
  BY ScopeRows
<1>5. IsFiniteSet(sourced)
  BY JudgingBounds, FS_Subset
<1> HIDE DEF sourced
<1>6. ASSUME NEW v \in sourced
      PROVE  /\ Baselines(v, scope[v]) \in SUBSET Judged
             /\ IsFiniteSet(Baselines(v, scope[v]))
             /\ \A n \in Baselines(v, scope[v]) :
                  /\ n.venture = v /\ n.key = n.card /\ n.kind = "source_baseline"
                  /\ n.sequence = LastSequence(v, n.card) + 1
                  /\ \A a \in judged : ~(a.venture = v /\ a.key = n.card)
             /\ \A m, n \in Baselines(v, scope[v]) : m.card = n.card => m = n
  BY <1>4, BaselinesAreNew
<1>7. IsFiniteSet(New)
  <2> DEFINE f    == [v \in sourced |-> Baselines(v, scope[v])]
             Sets == {Baselines(v, scope[v]) : v \in sourced}
  <2>1. f \in Surjection(sourced, Sets)
    BY DEF Surjection
  <2>2. \A T \in Sets : IsFiniteSet(T)
    BY <1>6
  <2> HIDE DEF f, Sets
  <2>3. IsFiniteSet(UNION Sets)
    BY <1>5, <2>1, <2>2, FS_Surjection, FS_UNION
  <2> QED
    BY <2>3 DEF Sets
<1>8. \A n \in New : \E v \in sourced : n \in Baselines(v, scope[v])
  OBVIOUS
<1> HIDE DEF New
<1>9. New \in SUBSET Judged
  BY <1>6, <1>8
<1>10. ASSUME NEW n \in New
       PROVE  /\ n.sequence = LastSequence(n.venture, n.card) + 1
              /\ n.card = Original => n.kind = "source_baseline"
              /\ \A a \in judged : ~(a.venture = n.venture /\ a.key = n.key)
  <2>1. PICK v \in sourced : n \in Baselines(v, scope[v])
    BY <1>8
  <2> QED
    BY <1>6, <2>1
<1>11. ASSUME NEW m \in New, NEW n \in New, m.venture = n.venture,
              m.key = n.key \/ m.card = n.card
       PROVE  m = n
  <2>1. PICK v \in sourced : m \in Baselines(v, scope[v])
    BY <1>8
  <2>2. PICK w \in sourced : n \in Baselines(w, scope[w])
    BY <1>8
  <2>3. v = w
    BY <1>6, <1>11, <2>1, <2>2
  <2>4. m.card = n.card
    BY <1>6, <1>11, <2>1, <2>2
  <2> QED
    BY <1>6, <2>1, <2>2, <2>3, <2>4
<1> QED
  BY <1>1, <1>2, <1>3, <1>7, <1>9, <1>10, <1>11, JudgedStep

LEMMA JudgeStep ==
  ASSUME JudgingInv, NEW v \in Ventures, NEW card \in Cards, NEW judgement \in Judgements,
         NEW key \in Keys, Judge(v, card, judgement, key)
  PROVE  JudgingInv'
<1> DEFINE n == [venture |-> v, card |-> card, kind |-> "reviewed",
                 total |-> Total(judgement, Used(card)[card]),
                 sequence |-> LastSequence(v, card) + 1, key |-> key, scope |-> scope[v]]
<1>1. /\ Exists(v) /\ card # Original /\ Usable(card)
      /\ \A a \in judged : ~(a.venture = v /\ a.key = key)
      /\ judged' = judged \cup {n}
      /\ cards' = Used(card)
      /\ UNCHANGED <<revision, assessed, provenance, ranking, scope>>
  BY DEF Judge
<1>2. /\ Used(card) \in Scorecards /\ DOMAIN cards \subseteq DOMAIN Used(card)
      /\ Used(card)[card] \in DOMAIN Rubrics
  BY <1>1, CardsInUse DEF JudgingInv, ScoringInv
<1>3. ScoringInv'
  BY <1>1, <1>2 DEF JudgingInv, ScoringInv, ScoringTypeOK, NumberedInTurn, Of
<1>4. scope' \in [Ventures -> Scope \cup {Absent}]
  BY <1>1 DEF JudgingInv, TypeOK
<1>5. n \in Judged
  <2>1. Total(judgement, Used(card)[card]) \in Totals
    BY <1>2, TotalIsKnown, ScoresAreNumbers
  <2>2. scope[v] \in Scope
    BY <1>1, ScopeRows
  <2>3. LastSequence(v, card) + 1 \in Nat \ {0}
    BY LastSequenceIsLast
  <2> QED
    BY <2>1, <2>2, <2>3 DEF Judged, Kinds
<1>6. /\ n.sequence = LastSequence(n.venture, n.card) + 1
      /\ n.card # Original
      /\ \A a \in judged : ~(a.venture = n.venture /\ a.key = n.key)
  BY <1>1
<1> HIDE DEF n
<1> DEFINE New == {n}
<1>7. New \in SUBSET Judged /\ IsFiniteSet(New)
  BY <1>5, FS_Singleton
<1>8. \A m \in New : m = n
  OBVIOUS
<1>9. judged' = judged \cup New
  BY <1>1
<1> HIDE DEF New
<1> QED
  BY <1>3, <1>4, <1>6, <1>7, <1>8, <1>9, JudgedStep

LEMMA JudgingStep ==
  ASSUME JudgingInv, [Next]_vars
  PROVE  JudgingInv'
<1>1. ASSUME ScoringNext, UNCHANGED <<scope, judged>>
      PROVE  JudgingInv'
  <2>1. ScoringInv'
    BY <1>1, ScoringStep DEF JudgingInv
  <2> QED
    BY <1>1, <2>1 DEF JudgingInv, ScoringInv, TypeOK
<1>2. ASSUME UNCHANGED <<scores, judged>>, scope' \in [Ventures -> Scope \cup {Absent}]
      PROVE  JudgingInv'
  <2>1. ScoringInv'
    BY <1>2, ScoringStep DEF JudgingInv
  <2> QED
    BY <1>2, <2>1 DEF JudgingInv, ScoringInv, TypeOK
<1>3. ASSUME NEW v \in Ventures, NEW aim \in Objectives, CreateVenture(v, aim)
      PROVE  JudgingInv'
  <2>1. [idea |-> NoIdea, revision |-> 0, aim |-> aim, news |-> 0] \in Scope
    BY ScoringBounds, JudgingBounds DEF Scope
  <2> QED
    BY <1>2, <1>3, <2>1 DEF CreateVenture, JudgingInv, TypeOK
<1>4. ASSUME NEW v \in Ventures, NEW aim \in Objectives, Narrow(v, aim)
      PROVE  JudgingInv'
  <2>1. [scope[v] EXCEPT !.aim = aim] \in Scope
    BY <1>4, ScopeRows DEF Narrow, Scope
  <2> QED
    BY <1>2, <1>4, <2>1 DEF Narrow, JudgingInv, TypeOK
<1>5. ASSUME NEW v \in Ventures, NEW i \in Ideas, LinkIdea(v, i)
      PROVE  JudgingInv'
  <2>1. [scope[v] EXCEPT !.idea = i, !.revision = revision[i]] \in Scope
    BY <1>5, ScopeRows DEF LinkIdea, Scope
  <2> QED
    BY <1>2, <1>5, <2>1 DEF LinkIdea, JudgingInv, TypeOK
<1>6. ASSUME NEW v \in Ventures, Learn(v)
      PROVE  JudgingInv'
  <2>1. [scope[v] EXCEPT !.news = @ + 1] \in Scope
    BY <1>6, ScopeRows, JudgingBounds DEF Learn, Scope
  <2> QED
    BY <1>2, <1>6, <2>1 DEF Learn, JudgingInv, TypeOK
<1>7. CASE UNCHANGED vars
  BY <1>2, <1>7 DEF vars, JudgingInv, TypeOK
<1> QED
  BY <1>1, <1>3, <1>4, <1>5, <1>6, <1>7, PromotedStep, BootstrapStep, JudgeStep DEF Next

LEMMA JudgingInvariant == Spec => []JudgingInv
<1>1. Init => JudgingInv
  BY ScoringBegins, FS_EmptySet DEF Init, JudgingInv, ScoringInv, TypeOK
<1>2. JudgingInv /\ [Next]_vars => JudgingInv'
  BY JudgingStep
<1> QED
  BY <1>1, <1>2, PTL DEF Spec

\* The tables of ideas' and ventures' assessments hold what they may: totals are known
\* or out of 100, numbers and keys are unique, and ranks do not exceed the ideas.
THEOREM JudgingTypeCorrect == Spec => []TypeOK
<1>1. JudgingInv => TypeOK
  BY DEF JudgingInv
<1> QED
  BY <1>1, JudgingInvariant, PTL

LEMMA JudgedGrows ==
  ASSUME [Next]_vars
  PROVE  judged \subseteq judged'
<1>1. ASSUME NEW v \in Ventures, NEW aim \in Objectives, NEW i \in Ideas, Promote(v, i, aim)
      PROVE  judged \subseteq judged'
  BY <1>1 DEF Promote
<1>2. ASSUME NEW v \in Ventures, NEW card \in Cards, NEW judgement \in Judgements,
             NEW key \in Keys, Judge(v, card, judgement, key)
      PROVE  judged \subseteq judged'
  BY <1>2 DEF Judge
<1>3. ASSUME Bootstrap PROVE judged \subseteq judged'
  BY <1>3 DEF Bootstrap
<1> QED
  BY <1>1, <1>2, <1>3 DEF Next, vars, CreateVenture, Narrow, LinkIdea, Learn

\* The judgements of a venture itself.
OwnOn(v, card) == {a \in JudgedOn(v, card) : a.kind = "reviewed"}

\* What is shown as reviewed is the last of them.
LEMMA ShownIsOwn ==
  ASSUME JudgingInv, NEW v \in Ventures, NEW card \in Cards, State(v, card) = "reviewed"
  PROVE  /\ OwnOn(v, card) # {} /\ LastOf(OwnOn(v, card)) # {}
         /\ Shown(v, card) = LastOf(OwnOn(v, card))
<1>1. /\ Shown(v, card) # {}
      /\ \A a \in Shown(v, card) : a.kind # "source_baseline"
  BY DEF State
<1>2. \A a \in judged : a.kind \in {"reviewed", "source_baseline"}
  BY DEF JudgingInv, TypeOK, Judged, Kinds
<1>3. \A a \in LastOf(JudgedOn(v, Original)) : a.kind = "source_baseline"
  BY DEF LastOf, JudgedOn, JudgingInv
<1>4. Shown(v, card) = Primary(v, card)
  BY <1>1, <1>3 DEF Shown
<1>5. OwnOn(v, card) # {}
  <2>1. SUFFICES ASSUME OwnOn(v, card) = {} PROVE FALSE
    OBVIOUS
  <2>2. Primary(v, card) = LastOf(JudgedOn(v, card))
    BY <2>1 DEF Primary, OwnOn
  <2>3. PICK a \in LastOf(JudgedOn(v, card)) : a.kind # "source_baseline"
    BY <1>1, <1>4, <2>2
  <2>4. a \in judged /\ a \in JudgedOn(v, card)
    BY DEF LastOf, JudgedOn
  <2> QED
    BY <1>2, <2>1, <2>3, <2>4 DEF OwnOn
<1> QED
  BY <1>1, <1>4, <1>5 DEF Primary, OwnOn

\* A judgement that is new is the last on its card, and of the scope of now.
LEMMA NewJudgement ==
  ASSUME JudgingInv, [Next]_vars, NEW a \in judged' \ judged, a.kind = "reviewed"
  PROVE  /\ judged' = judged \cup {a} /\ UNCHANGED scope
         /\ a.sequence = LastSequence(a.venture, a.card) + 1
         /\ a.scope = scope[a.venture]
<1>1. \A v, s : \A b \in Baselines(v, s) : b.kind = "source_baseline"
  BY DEF Baselines, Baseline
<1>2. ~\E v \in Ventures, aim \in Objectives, i \in Ideas : Promote(v, i, aim)
  BY <1>1 DEF Promote
<1>3. ~Bootstrap
  BY <1>1 DEF Bootstrap
<1>4. PICK v \in Ventures, card \in Cards, judgement \in Judgements, key \in Keys :
        Judge(v, card, judgement, key)
  BY <1>2, <1>3 DEF Next, vars, CreateVenture, Narrow, LinkIdea, Learn
<1> DEFINE n == [venture |-> v, card |-> card, kind |-> "reviewed",
                 total |-> Total(judgement, Used(card)[card]),
                 sequence |-> LastSequence(v, card) + 1, key |-> key, scope |-> scope[v]]
<1>5. judged' = judged \cup {n} /\ UNCHANGED scope
  BY <1>4 DEF Judge
<1>6. /\ n.venture = v /\ n.card = card /\ n.scope = scope[v]
      /\ n.sequence = LastSequence(v, card) + 1
  OBVIOUS
<1> HIDE DEF n
<1>7. a = n
  BY <1>5
<1> QED
  BY <1>5, <1>6, <1>7

\* A judgement that is new is what is shown on its card.
LEMMA NewJudgementShows ==
  ASSUME JudgingInv, [Next]_vars, NEW v \in Ventures, NEW card \in Cards,
         NEW a \in judged' \ judged, a.venture = v, a.card = card, a.kind = "reviewed"
  PROVE  Shown(v, card)' = {a} /\ State(v, card)' = "reviewed"
<1>1. /\ judged' = judged \cup {a} /\ UNCHANGED scope
      /\ a.sequence = LastSequence(v, card) + 1 /\ a.scope = scope[v]
  BY NewJudgement
<1>2. \A b \in JudgedOn(v, card) : b.sequence < a.sequence /\ b.sequence \in Nat
  BY <1>1, LastSequenceIsLast DEF JudgedOn, JudgingInv, TypeOK, Judged
<1>3. a.sequence \in Nat
  BY <1>1, LastSequenceIsLast
<1> DEFINE own == OwnOn(v, card) \cup {a}
<1>4. OwnOn(v, card)' = own
  BY <1>1 DEF OwnOn, JudgedOn
<1>5. LastOf(own) = {a}
  <2>1. \A b \in OwnOn(v, card) : b.sequence < a.sequence /\ b.sequence \in Nat
    BY <1>2 DEF OwnOn
  <2> QED
    BY <1>3, <2>1 DEF LastOf
<1>6. Primary(v, card)' = {a}
  BY <1>4, <1>5 DEF Primary, OwnOn
<1>7. Shown(v, card)' = {a}
  BY <1>6 DEF Shown
<1>8. ~IsStale(a)'
  BY <1>1 DEF IsStale
<1> QED
  BY <1>7, <1>8 DEF State

\* For all ideas, cards and ventures: what a venture was judged for itself stays what is
\* shown on a card until it is judged again there, which is shown then, and current until
\* its scope changes.
THEOREM ReviewedStands == Spec => ReviewedScoreStands
<1> DEFINE Judging(v, card, a) ==
             /\ a.venture = v /\ a.card = card /\ a.kind = "reviewed"
             /\ Shown(v, card)' = {a} /\ State(v, card)' = "reviewed"
<1>1. ASSUME JudgingInv, [Next]_vars, NEW v \in Ventures, NEW card \in Cards,
             State(v, card) = "reviewed"
      PROVE  \/ /\ Shown(v, card)' = Shown(v, card)
                /\ ScopeOf(scope'[v]) = ScopeOf(scope[v]) => State(v, card)' = "reviewed"
             \/ \E a \in judged' \ judged : Judging(v, card, a)
  <2>1. CASE \E a \in judged' \ judged :
               a.venture = v /\ a.card = card /\ a.kind = "reviewed"
    BY <1>1, <2>1, NewJudgementShows
  <2>2. CASE ~\E a \in judged' \ judged :
               a.venture = v /\ a.card = card /\ a.kind = "reviewed"
    <3> DEFINE own == OwnOn(v, card)
    <3>1. OwnOn(v, card)' = own
      BY <1>1, <2>2, JudgedGrows DEF OwnOn, JudgedOn
    <3>2. own # {} /\ LastOf(own) # {} /\ Shown(v, card) = LastOf(own)
      BY <1>1, ShownIsOwn
    <3>3. \A a \in LastOf(own) : a.venture = v
      BY DEF OwnOn, JudgedOn, LastOf
    <3> HIDE DEF own
    <3>4. Primary(v, card)' = LastOf(own)
      BY <3>1, <3>2 DEF Primary, OwnOn
    <3>5. Shown(v, card)' = LastOf(own)
      BY <3>2, <3>4 DEF Shown
    <3>6. ASSUME ScopeOf(scope'[v]) = ScopeOf(scope[v])
          PROVE  State(v, card)' = "reviewed"
      <4>1. \A a \in LastOf(own) : a.kind # "source_baseline" /\ ~IsStale(a)
        BY <1>1, <3>2 DEF State
      <4>2. \A a \in LastOf(own) : ~IsStale(a)'
        BY <3>3, <3>6, <4>1 DEF IsStale
      <4> QED
        BY <3>2, <3>5, <4>1, <4>2 DEF State
    <3> QED
      BY <3>2, <3>5, <3>6
  <2> QED
    BY <2>1, <2>2
<1>2. JudgingInv /\ [Next]_vars =>
        [/\ \A v \in Ventures, card \in Cards : State(v, card) = "reviewed" =>
              \/ /\ Shown(v, card)' = Shown(v, card)
                 /\ ScopeOf(scope'[v]) = ScopeOf(scope[v]) => State(v, card)' = "reviewed"
              \/ \E a \in judged' \ judged : Judging(v, card, a)
         /\ judged \subseteq judged']_vars
  BY <1>1, JudgedGrows
<1> QED
  BY <1>2, JudgingInvariant, PTL DEF Spec, ReviewedScoreStands

-----------------------------------------------------------------------------
(* Discovery: what was observed of a revision is never lost.                *)

\* Beside the types: the observations are tables, and what relates ideas starts from
\* one that is there.
DiscoveryInv ==
  /\ Discovery!TypeOK
  /\ observed \in [Ideas -> [1..MaxRevisions -> SUBSET Discovery!Observation]]
  /\ \A x \in related : Discovery!Exists(x.pair[1])

\* A history is a sequence of contents, bounded.
LEMMA HistoriesAreSequences ==
  ASSUME NEW h
  PROVE  h \in UNION {[1..n -> Contents] : n \in 0..MaxRevisions}
           <=> h \in Seq(Contents) /\ Len(h) <= MaxRevisions
<1>1. ASSUME NEW n \in 0..MaxRevisions, h \in [1..n -> Contents]
      PROVE  h \in Seq(Contents) /\ Len(h) <= MaxRevisions
  BY DiscoveryNames, ScoringBounds, <1>1
<1>2. ASSUME h \in Seq(Contents), Len(h) <= MaxRevisions
      PROVE  Len(h) \in 0..MaxRevisions /\ h \in [1..Len(h) -> Contents]
  BY DiscoveryNames, ScoringBounds, <1>2
<1> QED
  BY <1>1, <1>2

LEMMA RevisionRows ==
  ASSUME DiscoveryInv, NEW i \in Ideas
  PROVE  /\ revisions[i] \in Seq(Contents) /\ Len(revisions[i]) <= MaxRevisions
         /\ Len(revisions[i]) \in Nat
         /\ Discovery!Exists(i) => Discovery!Current(i) \in 1..MaxRevisions
         /\ ~Discovery!Exists(i) => Len(revisions[i]) = 0
<1>1. revisions[i] \in UNION {[1..n -> Contents] : n \in 0..MaxRevisions}
  BY DEF DiscoveryInv, Discovery!TypeOK, Discovery!Histories
<1>2. revisions[i] \in Seq(Contents) /\ Len(revisions[i]) <= MaxRevisions
  BY <1>1, HistoriesAreSequences
<1> QED
  BY DiscoveryNames, ScoringBounds, <1>2 DEF Discovery!Exists, Discovery!Current

\* Histories grow: what is there stays, with no fewer revisions.
LEMMA HistoriesGrow ==
  ASSUME DiscoveryInv, Discovery!Next
  PROVE  /\ revisions' \in Discovery!Histories
         /\ \A i \in Ideas : /\ Discovery!Exists(i) => Discovery!Exists(i)'
                             /\ Len(revisions'[i]) \in Nat
                             /\ Len(revisions[i]) <= Len(revisions'[i])
<1>1. revisions \in [Ideas -> Seq(Contents)]
  BY RevisionRows DEF DiscoveryInv, Discovery!TypeOK, Discovery!Histories
<1>2. SUFFICES ASSUME TRUE
               PROVE  /\ revisions' \in [Ideas -> Seq(Contents)]
                      /\ \A i \in Ideas : /\ Len(revisions'[i]) <= MaxRevisions
                                          /\ Len(revisions[i]) <= Len(revisions'[i])
  <2>1. ASSUME revisions' \in [Ideas -> Seq(Contents)], NEW i \in Ideas,
               Len(revisions'[i]) <= MaxRevisions, Len(revisions[i]) <= Len(revisions'[i])
        PROVE  /\ revisions'[i] \in UNION {[1..n -> Contents] : n \in 0..MaxRevisions}
               /\ Discovery!Exists(i) => Discovery!Exists(i)'
               /\ Len(revisions'[i]) \in Nat
    <3>1. revisions'[i] \in Seq(Contents) /\ revisions[i] \in Seq(Contents)
      BY <1>1, <2>1
    <3>2. \A h : h = revisions'[i] => h \in UNION {[1..n -> Contents] : n \in 0..MaxRevisions}
      BY <2>1, <3>1, HistoriesAreSequences
    <3>3. Discovery!Exists(i) => Len(revisions[i]) > 0
      BY <3>1 DEF Discovery!Exists
    <3>4. Len(revisions'[i]) > 0 => Discovery!Exists(i)'
      BY <3>1 DEF Discovery!Exists
    <3> QED
      BY <2>1, <3>1, <3>2, <3>3, <3>4
  <2> QED
    BY <2>1 DEF Discovery!Histories
<1>3. CASE UNCHANGED revisions
  BY <1>1, <1>3, RevisionRows
<1>4. ASSUME NEW j \in Ideas, NEW text \in Contents, ~Discovery!Exists(j),
             revisions' = [revisions EXCEPT ![j] = <<text>>]
      PROVE  /\ revisions' \in [Ideas -> Seq(Contents)]
             /\ \A i \in Ideas : /\ Len(revisions'[i]) <= MaxRevisions
                                 /\ Len(revisions[i]) <= Len(revisions'[i])
  BY DiscoveryNames, ScoringBounds, <1>1, <1>4, RevisionRows
<1>5. ASSUME NEW j \in Ideas, NEW text \in Contents, NEW carry \in BOOLEAN,
             Discovery!Revise(j, text, carry)
      PROVE  /\ revisions' \in [Ideas -> Seq(Contents)]
             /\ \A i \in Ideas : /\ Len(revisions'[i]) <= MaxRevisions
                                 /\ Len(revisions[i]) <= Len(revisions'[i])
  <2>1. /\ Len(revisions[j]) < MaxRevisions
        /\ revisions' = [revisions EXCEPT ![j] = Append(revisions[j], text)]
    BY <1>5 DEF Discovery!Revise, Discovery!Current
  <2>2. Len(revisions[j]) \in Nat /\ Len(Append(revisions[j], text)) = Len(revisions[j]) + 1
        /\ Append(revisions[j], text) \in Seq(Contents)
    BY <1>1
  <2> QED
    BY DiscoveryNames, ScoringBounds, <1>1, <2>1, <2>2, RevisionRows
<1>6. ASSUME NEW batch \in Batches, NEW text \in Contents, NEW S \in SUBSET Locators,
             NEW digest \in Digests, Discovery!Import(batch, text, S, digest)
      PROVE  /\ revisions' \in [Ideas -> Seq(Contents)]
             /\ \A i \in Ideas : /\ Len(revisions'[i]) <= MaxRevisions
                                 /\ Len(revisions[i]) <= Len(revisions'[i])
  <2>1. /\ \A i \in batch : ~Discovery!Exists(i)
        /\ revisions' = [i \in Ideas |-> IF i \in batch THEN <<text>> ELSE revisions[i]]
    BY <1>6 DEF Discovery!Import
  <2>2. <<text>> \in Seq(Contents) /\ Len(<<text>>) = 1
    OBVIOUS
  <2> QED
    BY DiscoveryNames, ScoringBounds, <1>1, <2>1, <2>2, RevisionRows
<1> QED
  BY <1>3, <1>4, <1>5, <1>6
  DEF Discovery!Next, Discovery!Create, Discovery!Relate, Discovery!RegisterSource,
      Discovery!RecordClaim, Discovery!Cite, Discovery!Register, Discovery!Observe

\* Who is registered stays registered.
LEMMA RivalsStay ==
  ASSUME DiscoveryInv, Discovery!Next
  PROVE  /\ rival' \in Discovery!Actors
         /\ \A n \in Rivals : Discovery!Registered(n) => Discovery!Registered(n)'
<1>1. rival \in [Rivals -> Websites \cup {Discovery!Unregistered}]
  BY DEF DiscoveryInv, Discovery!TypeOK, Discovery!Actors
<1>2. CASE UNCHANGED rival
  BY <1>1, <1>2 DEF Discovery!Actors, Discovery!Registered
<1>3. CASE \E n \in Rivals, website \in Websites : rival' = [rival EXCEPT ![n] = website]
  BY DiscoveryNames, ScoringBounds, <1>1, <1>3 DEF Discovery!Actors, Discovery!Registered
<1> QED
  BY <1>2, <1>3
  DEF Discovery!Next, Discovery!Create, Discovery!Revise, Discovery!Import, Discovery!Relate,
      Discovery!RegisterSource, Discovery!RecordClaim, Discovery!Cite, Discovery!Register,
      Discovery!Observe

\* What is observed about the current revision of an idea, of one actor.
LEMMA ObserveStep ==
  ASSUME DiscoveryInv, NEW i \in Ideas, NEW n \in Rivals, NEW role \in Roles, NEW note \in Notes,
         NEW website \in Websites, Discovery!Observe(i, n, role, note, website)
  PROVE  \E m \in Rivals :
           /\ Discovery!Exists(i) /\ Discovery!Registered(m)'
           /\ Discovery!ObserveOf(i, m, role, note)
<1>1. CASE /\ rival' = [rival EXCEPT ![n] = website]
           /\ Discovery!ObserveOf(i, n, role, note)
  <2>1. Discovery!Registered(n)'
    BY DiscoveryNames, ScoringBounds, <1>1 DEF DiscoveryInv, Discovery!TypeOK, Discovery!Actors,
                Discovery!Registered
  <2> QED
    BY <1>1, <2>1 DEF Discovery!Observe
<1>2. CASE /\ UNCHANGED rival
           /\ \E m \in Discovery!Found(n, website) : Discovery!ObserveOf(i, m, role, note)
  <2>1. PICK m \in Discovery!Found(n, website) : Discovery!ObserveOf(i, m, role, note)
    BY <1>2
  <2>2. m \in Rivals /\ Discovery!Registered(m)
    BY DEF Discovery!Found
  <2> QED
    BY <1>2, <2>1, <2>2 DEF Discovery!Observe, Discovery!Registered
<1> QED
  BY <1>1, <1>2 DEF Discovery!Observe

\* The observations of one revision, as they may be.
ObservationsFit(i, r) ==
  /\ r > Len(revisions[i]) => observed[i][r] = {}
  /\ \A o, p \in observed[i][r] : o.rival = p.rival /\ o.role = p.role => o = p
  /\ \A o \in observed[i][r] : Discovery!Registered(o.rival)

ObservedTable == [Ideas -> [1..MaxRevisions -> SUBSET Discovery!Observation]]

LEMMA ObservedStep ==
  ASSUME DiscoveryInv, Discovery!Next
  PROVE  /\ observed' \in ObservedTable
         /\ \A i \in Ideas, r \in 1..MaxRevisions : ObservationsFit(i, r)'
<1>1. /\ observed \in ObservedTable
      /\ \A i \in Ideas, r \in 1..MaxRevisions :
            ObservationsFit(i, r) /\ observed[i][r] \subseteq Discovery!Observation
  BY DEF DiscoveryInv, ObservedTable, Discovery!TypeOK, ObservationsFit, Discovery!Registered
<1>2. \A o \in Discovery!Observation :
        o.rival \in Rivals /\ (Discovery!Registered(o.rival) => Discovery!Registered(o.rival)')
  BY RivalsStay DEF Discovery!Observation
<1>3. \A i \in Ideas : /\ Len(revisions[i]) \in Nat /\ Len(revisions'[i]) \in Nat
                       /\ Len(revisions[i]) <= Len(revisions'[i])
  BY RevisionRows, HistoriesGrow
<1>4. ASSUME NEW i \in Ideas, NEW r \in 1..MaxRevisions, observed'[i][r] = observed[i][r]
      PROVE  ObservationsFit(i, r)'
  <2>1. ObservationsFit(i, r) /\ observed[i][r] \subseteq Discovery!Observation
    BY <1>1
  <2>2. r > Len(revisions'[i]) => r > Len(revisions[i])
    BY <1>3, <2>1
  <2> QED
    BY <1>2, <1>4, <2>1, <2>2 DEF ObservationsFit
<1>5. CASE UNCHANGED observed
  BY <1>1, <1>4, <1>5
<1>6. ASSUME NEW j \in Ideas, NEW text \in Contents, NEW carry \in BOOLEAN,
             Discovery!Revise(j, text, carry)
      PROVE  /\ observed' \in ObservedTable
             /\ \A i \in Ideas, r \in 1..MaxRevisions : ObservationsFit(i, r)'
  <2> DEFINE c     == Len(revisions[j])
             carried == IF carry THEN observed[j][c] ELSE {}
  <2>1. /\ c \in 1..MaxRevisions /\ c + 1 \in 1..MaxRevisions
        /\ revisions' = [revisions EXCEPT ![j] = Append(revisions[j], text)]
        /\ observed' = [observed EXCEPT ![j] = [observed[j] EXCEPT ![c + 1] = carried]]
    BY DiscoveryNames, ScoringBounds, <1>6, RevisionRows
    DEF Discovery!Revise, Discovery!Carried, Discovery!Current
  <2>2. carried \subseteq observed[j][c] /\ carried \subseteq Discovery!Observation
        /\ Len(revisions'[j]) = c + 1
    <3>1. revisions[j] \in Seq(Contents)
      BY RevisionRows
    <3>2. Len(revisions'[j]) = c + 1
      BY <2>1, <3>1 DEF DiscoveryInv, Discovery!TypeOK, Discovery!Histories
    <3> QED
      BY <1>1, <2>1, <3>2
  <2>3. ObservationsFit(j, c)
    BY <1>1, <2>1
  <2> HIDE DEF c, carried
  <2>4. /\ observed' \in ObservedTable
        /\ observed'[j][c + 1] = carried
        /\ \A i \in Ideas, r \in 1..MaxRevisions :
              i # j \/ r # c + 1 => observed'[i][r] = observed[i][r]
    BY <1>1, <2>1, <2>2 DEF ObservedTable
  <2>5. \A r : r = c + 1 => ObservationsFit(j, r)'
    BY <1>2, <2>1, <2>2, <2>3, <2>4 DEF ObservationsFit
  <2> QED
    BY <1>4, <2>4, <2>5
<1>7. ASSUME NEW j \in Ideas, NEW n \in Rivals, NEW role \in Roles,
              NEW note \in Notes, NEW website \in Websites,
             Discovery!Observe(j, n, role, note, website)
      PROVE  /\ observed' \in ObservedTable
             /\ \A i \in Ideas, r \in 1..MaxRevisions : ObservationsFit(i, r)'
  <2>1. PICK m \in Rivals :
          /\ Discovery!Exists(j) /\ Discovery!Registered(m)'
          /\ Discovery!ObserveOf(j, m, role, note)
    BY <1>7, ObserveStep
  <2> DEFINE c == Len(revisions[j])
             o == [rival |-> m, role |-> role, note |-> note]
             kept == observed[j][c] \ {p \in observed[j][c] : p.rival = m /\ p.role = role}
  <2>2. /\ c \in 1..MaxRevisions /\ revisions' = revisions
        /\ observed' = [observed EXCEPT ![j] = [observed[j] EXCEPT ![c] = kept \cup {o}]]
    BY <1>1, <1>7, <2>1, RevisionRows
    DEF Discovery!ObserveOf, Discovery!Current, Discovery!Observe, ObservedTable
  <2>3. o \in Discovery!Observation /\ o.rival = m /\ o.role = role
    BY DEF Discovery!Observation
  <2>4. /\ kept \subseteq Discovery!Observation /\ kept \subseteq observed[j][c]
        /\ \A p \in kept : ~(p.rival = m /\ p.role = role)
    BY <1>1, <2>2
  <2>5. ObservationsFit(j, c)
    BY <1>1, <2>2
  <2> HIDE DEF c, o, kept
  <2>6. /\ observed' \in ObservedTable
        /\ observed'[j][c] = kept \cup {o}
        /\ \A i \in Ideas, r \in 1..MaxRevisions :
              i # j \/ r # c => observed'[i][r] = observed[i][r]
    BY <1>1, <2>2, <2>3, <2>4 DEF ObservedTable
  <2>7. \A r : r = c => ObservationsFit(j, r)'
    <3>1. ~(c > Len(revisions'[j]))
      BY <2>2, <1>3 DEF c
    <3>2. \A p, q \in kept \cup {o} : p.rival = q.rival /\ p.role = q.role => p = q
      BY <2>3, <2>4, <2>5 DEF ObservationsFit
    <3>3. \A p \in kept \cup {o} : Discovery!Registered(p.rival)'
      BY <1>2, <2>1, <2>3, <2>4, <2>5 DEF ObservationsFit
    <3> QED
      BY <2>6, <3>1, <3>2, <3>3 DEF ObservationsFit
  <2> QED
    BY <1>4, <2>6, <2>7
<1> QED
  BY <1>5, <1>6, <1>7
  DEF Discovery!Next, Discovery!Create, Discovery!Import, Discovery!Relate,
      Discovery!RegisterSource, Discovery!RecordClaim, Discovery!Cite, Discovery!Register

\* The audit, the sources and who cites them.
LEMMA SourcesStep ==
  ASSUME DiscoveryInv, Discovery!Next
  PROVE  /\ superseded' \subseteq Discovery!Audited
         /\ source' \in Discovery!Sources
         /\ cited' \subseteq Discovery!Citation
         /\ \A c \in cited' : Discovery!Exists(c[1])' /\ source'[c[2]] # None
         /\ imported' \subseteq Batches
         /\ \A b \in imported' : \A i \in b : Discovery!Exists(i)'
<1>1. /\ superseded \subseteq Discovery!Audited /\ source \in [Locators -> Digests \cup {None}]
      /\ cited \subseteq Ideas \X Locators /\ imported \subseteq Batches
      /\ \A c \in cited : Discovery!Exists(c[1]) /\ source[c[2]] # None
      /\ \A b \in imported : \A i \in b : Discovery!Exists(i)
  BY DEF DiscoveryInv, Discovery!TypeOK, Discovery!Sources, Discovery!Citation
<1>2. \A i \in Ideas : Discovery!Exists(i) => Discovery!Exists(i)'
  BY HistoriesGrow
<1>3. superseded' \subseteq Discovery!Audited
  <2>1. CASE UNCHANGED superseded
    BY <1>1, <2>1
  <2>2. ASSUME NEW i \in Ideas, NEW n \in Rivals, NEW role \in Roles,
              NEW note \in Notes, NEW website \in Websites,
               Discovery!Observe(i, n, role, note, website)
        PROVE  superseded' \subseteq Discovery!Audited
    <3>1. PICK m \in Rivals : Discovery!Exists(i) /\ Discovery!ObserveOf(i, m, role, note)
      BY <2>2, ObserveStep
    <3>2. /\ Discovery!Current(i) \in 1..MaxRevisions
          /\ observed[i][Discovery!Current(i)] \subseteq Discovery!Observation
      BY <3>1, RevisionRows DEF DiscoveryInv, Discovery!TypeOK
    <3> QED
      BY <1>1, <3>1, <3>2 DEF Discovery!ObserveOf, Discovery!Audited
  <2> QED
    BY <2>1, <2>2
    DEF Discovery!Next, Discovery!Create, Discovery!Revise, Discovery!Import, Discovery!Relate,
        Discovery!RegisterSource, Discovery!RecordClaim, Discovery!Cite, Discovery!Register
<1>4. /\ source' \in [Locators -> Digests \cup {None}]
      /\ \A l \in Locators : source[l] # None => source'[l] # None
  <2>1. CASE UNCHANGED source
    BY <1>1, <2>1
  <2>2. CASE \E l \in Locators, digest \in Digests : source' = [source EXCEPT ![l] = digest]
    BY DiscoveryNames, ScoringBounds, <1>1, <2>2
  <2>3. CASE \E S \in SUBSET Locators, digest \in Digests :
               source' = [l \in Locators |->
                            IF l \in S /\ source[l] = None THEN digest ELSE source[l]]
    BY DiscoveryNames, ScoringBounds, <1>1, <2>3
  <2> QED
    BY <2>1, <2>2, <2>3
    DEF Discovery!Next, Discovery!Create, Discovery!Revise, Discovery!Import, Discovery!Relate,
        Discovery!RegisterSource, Discovery!RecordClaim, Discovery!Cite, Discovery!Register,
        Discovery!Observe
<1>5. ASSUME NEW c \in cited'
      PROVE  c \in Ideas \X Locators /\ Discovery!Exists(c[1])' /\ source'[c[2]] # None
  <2>1. CASE c \in cited
    BY <1>1, <1>2, <1>4, <2>1
  <2>2. CASE c \notin cited
    <3>1. ASSUME NEW i \in Ideas, NEW text \in Contents, NEW parents \in SUBSET (Ideas \ {i}),
                 NEW S \in SUBSET Locators, NEW why \in Rationales,
                 Discovery!Create(i, text, parents, S, why)
          PROVE  c \in Ideas \X Locators /\ Discovery!Exists(c[1])' /\ source'[c[2]] # None
      <4>1. c \in {i} \X S /\ revisions' = [revisions EXCEPT ![i] = <<text>>]
            /\ (\A l \in S : source[l] # None) /\ UNCHANGED source
        BY <2>2, <3>1, <1>5 DEF Discovery!Create, Discovery!AllRegistered
      <4> QED
        BY <1>1, <4>1 DEF DiscoveryInv, Discovery!TypeOK, Discovery!Histories, Discovery!Exists
    <3>2. ASSUME NEW batch \in Batches, NEW text \in Contents, NEW S \in SUBSET Locators,
                 NEW digest \in Digests, Discovery!Import(batch, text, S, digest)
          PROVE  c \in Ideas \X Locators /\ Discovery!Exists(c[1])' /\ source'[c[2]] # None
      <4>1. /\ c \in batch \X S /\ batch \subseteq Ideas
            /\ revisions' = [i \in Ideas |-> IF i \in batch THEN <<text>> ELSE revisions[i]]
            /\ source' = [l \in Locators |->
                            IF l \in S /\ source[l] = None THEN digest ELSE source[l]]
        BY DiscoveryNames, ScoringBounds, <1>5, <2>2, <3>2 DEF Discovery!Import
      <4> QED
        BY DiscoveryNames, ScoringBounds, <1>1, <4>1 DEF Discovery!Exists
    <3>3. ASSUME NEW l \in Locators, NEW digest \in Digests, NEW S \in SUBSET Ideas,
                 \/ Discovery!RegisterSource(l, digest, S)
                 \/ Discovery!RecordClaim(l, digest, S)
          PROVE  c \in Ideas \X Locators /\ Discovery!Exists(c[1])' /\ source'[c[2]] # None
      <4>1. /\ c \in S \X {l} /\ (\A i \in S : Discovery!Exists(i)) 
            /\ source' = [source EXCEPT ![l] = digest]
        BY <1>5, <2>2, <3>3 DEF Discovery!RegisterSource, Discovery!RecordClaim
      <4> QED
        BY DiscoveryNames, ScoringBounds, <1>1, <1>2, <4>1
    <3>4. ASSUME NEW i \in Ideas, NEW l \in Locators, Discovery!Cite(i, l)
          PROVE  c \in Ideas \X Locators /\ Discovery!Exists(c[1])' /\ source'[c[2]] # None
      BY <1>2, <1>5, <2>2, <3>4 DEF Discovery!Cite, Discovery!AllRegistered
    <3> QED
      BY <1>5, <2>2, <3>1, <3>2, <3>3, <3>4
      DEF Discovery!Next, Discovery!Revise, Discovery!Relate, Discovery!Register,
          Discovery!Observe
  <2> QED
    BY <2>1, <2>2
<1>6. imported' \subseteq Batches /\ \A b \in imported' : \A i \in b : Discovery!Exists(i)'
  <2>1. CASE UNCHANGED imported
    BY DiscoveryNames, ScoringBounds, <1>1, <1>2, <2>1
  <2>2. ASSUME NEW batch \in Batches, NEW text \in Contents, NEW S \in SUBSET Locators,
               NEW digest \in Digests, Discovery!Import(batch, text, S, digest)
        PROVE  imported' \subseteq Batches /\ \A b \in imported' : \A i \in b : Discovery!Exists(i)'
    <3>1. /\ imported' = imported \cup {batch} /\ batch \subseteq Ideas
          /\ revisions' = [i \in Ideas |-> IF i \in batch THEN <<text>> ELSE revisions[i]]
      BY DiscoveryNames, ScoringBounds, <2>2 DEF Discovery!Import
    <3>2. \A i \in batch : Discovery!Exists(i)'
      BY <3>1 DEF Discovery!Exists
    <3> QED
      BY DiscoveryNames, ScoringBounds, <1>1, <1>2, <3>1, <3>2
  <2> QED
    BY <2>1, <2>2
    DEF Discovery!Next, Discovery!Create, Discovery!Revise, Discovery!Relate,
        Discovery!RegisterSource, Discovery!RecordClaim, Discovery!Cite, Discovery!Register,
        Discovery!Observe
<1> QED
  BY <1>3, <1>4, <1>5, <1>6 DEF Discovery!Sources, Discovery!Citation

\* One relation of a kind joins two ideas, of which the first is there.
LEMMA RelationsStep ==
  ASSUME DiscoveryInv, Discovery!Next
  PROVE  /\ related' \subseteq Discovery!Relation
         /\ \A x, y \in related' : x.pair = y.pair => x = y
         /\ \A x \in related' : Discovery!Exists(x.pair[1])'
<1>1. /\ related \subseteq Discovery!Relation
      /\ \A x, y \in related : x.pair = y.pair => x = y
      /\ \A x \in related : Discovery!Exists(x.pair[1]) /\ x.pair[1] \in Ideas
  BY DEF DiscoveryInv, Discovery!TypeOK, Discovery!Relation
<1>2. \A i \in Ideas : Discovery!Exists(i) => Discovery!Exists(i)'
  BY HistoriesGrow
<1>3. CASE UNCHANGED related
  BY <1>1, <1>2, <1>3
<1>4. ASSUME NEW i \in Ideas, NEW text \in Contents, NEW parents \in SUBSET (Ideas \ {i}),
             NEW S \in SUBSET Locators, NEW why \in Rationales,
             Discovery!Create(i, text, parents, S, why)
      PROVE  /\ related' \subseteq Discovery!Relation
             /\ \A x, y \in related' : x.pair = y.pair => x = y
             /\ \A x \in related' : Discovery!Exists(x.pair[1])'
  <2> DEFINE new == Discovery!Derivations(i, parents, why)
  <2>1. /\ related' = related \cup new /\ ~Discovery!Exists(i)
        /\ revisions' = [revisions EXCEPT ![i] = <<text>>]
    BY <1>4 DEF Discovery!Create
  <2>2. Discovery!Exists(i)'
    BY <2>1 DEF DiscoveryInv, Discovery!TypeOK, Discovery!Histories, Discovery!Exists
  <2>3. /\ new \subseteq Discovery!Relation
        /\ \A x, y \in new : x.pair = y.pair => x = y
        /\ \A x \in new : x.pair[1] = i
    BY DEF Discovery!Derivations, Discovery!Relation
  <2> HIDE DEF new
  <2>4. \A x \in related, y \in new : x.pair # y.pair
    BY <1>1, <2>1, <2>3
  <2> QED
    BY <1>1, <1>2, <2>1, <2>2, <2>3, <2>4
<1>5. ASSUME NEW i \in Ideas, NEW j \in Ideas, NEW kind \in RelationKinds, NEW rationale \in Rationales,
             Discovery!Relate(i, j, kind, rationale)
      PROVE  /\ related' \subseteq Discovery!Relation
             /\ \A x, y \in related' : x.pair = y.pair => x = y
             /\ \A x \in related' : Discovery!Exists(x.pair[1])'
  <2> DEFINE new == [pair |-> <<i, j, kind>>, rationale |-> rationale]
  <2>1. /\ related' = related \cup {new} /\ Discovery!Exists(i)
        /\ \A x \in related : x.pair # new.pair
    BY <1>5 DEF Discovery!Relate
  <2>2. new \in Discovery!Relation /\ new.pair[1] = i
    BY DEF Discovery!Relation
  <2> HIDE DEF new
  <2> QED
    BY <1>1, <1>2, <2>1, <2>2
<1> QED
  BY <1>3, <1>4, <1>5
  DEF Discovery!Next, Discovery!Revise, Discovery!Import, Discovery!RegisterSource,
      Discovery!RecordClaim, Discovery!Cite, Discovery!Register, Discovery!Observe

LEMMA DiscoveryInvariant == Discovery!Spec => []DiscoveryInv
<1>1. Discovery!Init => DiscoveryInv
  <2>1. SUFFICES ASSUME Discovery!Init PROVE DiscoveryInv
    OBVIOUS
  <2>2. <<>> \in UNION {[1..n -> Contents] : n \in 0..MaxRevisions}
    BY DiscoveryNames, ScoringBounds, HistoriesAreSequences
  <2>3. revisions \in Discovery!Histories
    BY <2>1, <2>2 DEF Discovery!Init, Discovery!Histories
  <2> QED
    BY <2>1, <2>3
    DEF Discovery!Init, DiscoveryInv, Discovery!TypeOK, Discovery!Actors, Discovery!Sources
<1>2. DiscoveryInv /\ [Discovery!Next]_(Discovery!vars) => DiscoveryInv'
  <2>1. CASE DiscoveryInv /\ Discovery!Next
    <3>1. \A i \in Ideas, r \in 1..MaxRevisions :
             ObservationsFit(i, r)' /\ observed'[i][r] \subseteq Discovery!Observation
      BY <2>1, ObservedStep DEF ObservedTable
    <3>2. revisions' \in Discovery!Histories /\ rival' \in Discovery!Actors
      BY <2>1, HistoriesGrow, RivalsStay
    <3>3. Discovery!TypeOK'
      BY <2>1, <3>1, <3>2, SourcesStep, RelationsStep
      DEF Discovery!TypeOK, ObservationsFit, Discovery!Registered
    <3> QED
      BY <2>1, <3>3, ObservedStep, RelationsStep DEF DiscoveryInv, ObservedTable
  <2>2. CASE DiscoveryInv /\ UNCHANGED Discovery!vars
    BY <2>2 DEF Discovery!vars, DiscoveryInv, Discovery!TypeOK, Discovery!Exists
  <2> QED
    BY <2>1, <2>2
<1> QED
  BY <1>1, <1>2, PTL DEF Discovery!Spec

\* The discovery records are of their kinds: one observation of an actor in a revision,
\* none beyond the current one, all of registered actors; no two relations of a kind
\* between two ideas; what is cited is registered; what was imported is there.
THEOREM DiscoveryTypeCorrect == Discovery!Spec => []Discovery!TypeOK
<1>1. DiscoveryInv => Discovery!TypeOK
  BY DEF DiscoveryInv
<1> QED
  BY <1>1, DiscoveryInvariant, PTL

\* Where the store and Python fold the cases of names alike, as they do for ASCII,
\* a name that is compared finds every actor of that name: there is one, whatever is
\* registered and observed.  Only names the store folds otherwise can have two.
THEOREM OneActorWhereCasesAgree ==
  ASSUME \A m, n \in Rivals : Folded[m] = Folded[n] => Stored[m] = Lowered[n]
  PROVE  Discovery!Spec => []Discovery!OneActorPerName
<1>1. ASSUME DiscoveryInv, Discovery!OneActorPerName, NEW n \in Rivals, NEW website \in Websites,
             Discovery!IsNew(n, website), rival' = [rival EXCEPT ![n] = website]
      PROVE  Discovery!OneActorPerName'
  <2>1. rival \in [Rivals -> Websites \cup {Discovery!Unregistered}]
    BY <1>1 DEF DiscoveryInv, Discovery!TypeOK, Discovery!Actors
  <2>2. \A m \in Rivals : m # n => (Discovery!Registered(m)' <=> Discovery!Registered(m))
    BY <1>1, <2>1 DEF Discovery!Registered
  <2>3. \A m \in Rivals : Discovery!Registered(m) => Folded[m] # Folded[n]
    <3>1. \A m \in Rivals : ~(Discovery!Registered(m) /\ Stored[m] = Lowered[n])
      BY <1>1 DEF Discovery!IsNew, Discovery!Found
    <3> QED
      BY <3>1
  <2> QED
    BY <1>1, <2>2, <2>3 DEF Discovery!OneActorPerName
<1>2. ASSUME DiscoveryInv, Discovery!OneActorPerName, Discovery!Next
      PROVE  Discovery!OneActorPerName'
  <2>1. CASE UNCHANGED rival
    BY <1>2, <2>1 DEF Discovery!OneActorPerName, Discovery!Registered
  <2>2. CASE \E n \in Rivals, website \in Websites :
               Discovery!IsNew(n, website) /\ rival' = [rival EXCEPT ![n] = website]
    BY <1>1, <1>2, <2>2
  <2> QED
    BY <1>2, <2>1, <2>2
    DEF Discovery!Next, Discovery!Create, Discovery!Revise, Discovery!Import, Discovery!Relate,
        Discovery!RegisterSource, Discovery!RecordClaim, Discovery!Cite, Discovery!Register,
        Discovery!Observe
<1>3. DiscoveryInv /\ Discovery!OneActorPerName /\ [Discovery!Next]_(Discovery!vars)
        => Discovery!OneActorPerName'
  BY <1>2 DEF Discovery!vars, Discovery!OneActorPerName, Discovery!Registered
<1>4. Discovery!Init => Discovery!OneActorPerName
  BY DEF Discovery!Init, Discovery!OneActorPerName, Discovery!Registered
<1> QED
  BY <1>3, <1>4, DiscoveryInvariant, PTL DEF Discovery!Spec

\* No step loses an observation: a past revision keeps its own, and what is corrected
\* in the current one is in the audit.
THEOREM ObservationsStand == Discovery!Spec => ObservationsAreKept
<1> DEFINE Kept == \A i \in Ideas : \A r \in 1..MaxRevisions :
                     /\ r < Discovery!Current(i) => observed'[i][r] = observed[i][r]
                     /\ \A o \in observed[i][r] :
                           o \in observed'[i][r] \/ <<i, r, o>> \in superseded'
<1>1. ASSUME DiscoveryInv, Discovery!Next PROVE Kept
  <2>1. observed \in ObservedTable
    BY <1>1 DEF DiscoveryInv, ObservedTable
  <2>2. CASE UNCHANGED observed
    BY <2>2
  <2>3. ASSUME NEW j \in Ideas, NEW text \in Contents, NEW carry \in BOOLEAN,
               Discovery!Revise(j, text, carry)
        PROVE  Kept
    <3> DEFINE c       == Discovery!Current(j)
               carried == IF carry THEN observed[j][c] ELSE {}
    <3>1. /\ c \in 1..MaxRevisions /\ c + 1 \in 1..MaxRevisions
          /\ observed' = [observed EXCEPT ![j] = [observed[j] EXCEPT ![c + 1] = carried]]
      BY DiscoveryNames, ScoringBounds, <1>1, <2>3, RevisionRows DEF Discovery!Revise, Discovery!Carried
    <3>2. observed[j][c + 1] = {}
      BY <1>1, <3>1 DEF DiscoveryInv, Discovery!TypeOK, Discovery!Current
    <3> HIDE DEF carried
    <3>3. \A i \in Ideas, r \in 1..MaxRevisions :
             i # j \/ r # c + 1 => observed'[i][r] = observed[i][r]
      BY <2>1, <3>1 DEF ObservedTable
    <3> QED
      BY <3>1, <3>2, <3>3
  <2>4. ASSUME NEW j \in Ideas, NEW n \in Rivals, NEW role \in Roles,
              NEW note \in Notes, NEW website \in Websites,
               Discovery!Observe(j, n, role, note, website)
        PROVE  Kept
    <3> DEFINE c == Discovery!Current(j)
    <3>1. PICK m \in Rivals : Discovery!Exists(j) /\ Discovery!ObserveOf(j, m, role, note)
      BY <1>1, <2>4, ObserveStep
    <3> DEFINE earlier == {p \in observed[j][c] : p.rival = m /\ p.role = role}
               o       == [rival |-> m, role |-> role, note |-> note]
    <3>2. /\ observed' = [observed EXCEPT ![j] =
                            [observed[j] EXCEPT ![c] = (observed[j][c] \ earlier) \cup {o}]]
          /\ superseded' = superseded \cup {<<j, c, p>> : p \in earlier}
      BY <2>1, <3>1 DEF Discovery!ObserveOf, ObservedTable
    <3>3. c \in 1..MaxRevisions
      BY <1>1, <3>1, RevisionRows
    <3> HIDE DEF c, earlier, o
    <3>4. /\ observed'[j][c] = (observed[j][c] \ earlier) \cup {o}
          /\ \A i \in Ideas, r \in 1..MaxRevisions :
                i # j \/ r # c => observed'[i][r] = observed[i][r]
      BY <2>1, <3>2, <3>3 DEF ObservedTable
    <3>5. \A p \in observed[j][c] : p \in observed'[j][c] \/ <<j, c, p>> \in superseded'
      BY <3>2, <3>4
    <3>6. ASSUME NEW i \in Ideas, NEW r \in 1..MaxRevisions, r < Discovery!Current(i)
          PROVE  i # j \/ r # c
      BY <3>3, <3>6 DEF c
    <3> QED
      BY <3>4, <3>5, <3>6
  <2> QED
    BY <1>1, <2>2, <2>3, <2>4
    DEF Discovery!Next, Discovery!Create, Discovery!Import, Discovery!Relate,
        Discovery!RegisterSource, Discovery!RecordClaim, Discovery!Cite, Discovery!Register
<1>2. DiscoveryInv /\ [Discovery!Next]_(Discovery!vars) => [Kept]_(Discovery!vars)
  BY <1>1
<1> QED
  BY <1>2, DiscoveryInvariant, PTL DEF Discovery!Spec, ObservationsAreKept, Discovery!ObservationsAreKept

-----------------------------------------------------------------------------
(* RequestFiles: an apply settles.                                          *)

\* A section that counts has a place, a number and an occurrence.
LEMMA PlaceOfItem ==
  ASSUME Requests!TypeOK, NEW p \in Requests!Items
  PROVE  /\ p = <<p[1], p[2]>>
         /\ p[1] \in DOMAIN Files /\ p[1] \in Nat
         /\ Requests!File(p) \in Requests!Names
         /\ content[Requests!File(p)] \in Texts
         /\ p[2] \in DOMAIN content[Requests!File(p)] /\ p[2] \in Nat \ {0}
<1>1. PICK n \in DOMAIN Files : p \in {n} \X DOMAIN content[Files[n]]
  BY DEF Requests!Items, Requests!Places
<1>2. /\ p = <<p[1], p[2]>> /\ p[1] = n /\ p[2] \in DOMAIN content[Files[n]]
  BY <1>1
<1>3. Files[n] \in Requests!Names /\ n \in Nat
  BY RequestNames DEF Requests!Names
<1>4. content[Files[n]] \in Texts
  BY <1>3 DEF Requests!TypeOK
<1>5. \A i \in DOMAIN content[Files[n]] : i \in Nat \ {0}
  BY <1>4, RequestNames
<1> QED
  BY <1>2, <1>3, <1>4, <1>5 DEF Requests!File

LEMMA ItemRows ==
  ASSUME Requests!TypeOK, NEW p \in Requests!Items
  PROVE  /\ Requests!Section(p).key \in Numbers
         /\ Requests!Section(p).question \in Questions
         /\ Requests!Section(p).answered \in BOOLEAN
         /\ Requests!Section(p).about \in SUBSET Topics
         /\ Requests!Section(p).about # {}
         /\ Requests!File(p) \in Requests!Names /\ Requests!File(p) # NoFile
         /\ Requests!Occurrence(p) \in 1..MaxOccurrences
<1> DEFINE text   == content[Requests!File(p)]
           k      == Requests!Section(p).key
           same   == {i \in DOMAIN text : text[i].key = k}
           before == Requests!Repeats(p)
<1>1. /\ Requests!File(p) \in Requests!Names
      /\ text \in Texts /\ p[2] \in DOMAIN text /\ p[2] \in Nat \ {0}
  BY PlaceOfItem
<1>2. text \in Seq([key : Numbers, question : Questions, answered : BOOLEAN,
                    about : SUBSET Topics])
  BY <1>1, RequestNames
<1>3. /\ k \in Numbers
      /\ Requests!Section(p).question \in Questions
      /\ Requests!Section(p).answered \in BOOLEAN
      /\ Requests!Section(p).about \in SUBSET Topics
  <2> DEFINE S == [key : Numbers, question : Questions, answered : BOOLEAN,
                   about : SUBSET Topics]
  <2>1. Requests!Section(p) = text[p[2]]
    BY DEF Requests!Section
  <2>2. text[p[2]] \in S
    <3>1. text \in Seq(S)
      BY <1>2
    <3> HIDE DEF text, S
    <3>2. Len(text) \in Nat /\ text \in [1..Len(text) -> S]
      BY <3>1
    <3> QED
      BY <1>1, <3>2
  <2> QED
    BY <2>1, <2>2
<1>4. DOMAIN text = 1..Len(text) /\ Len(text) \in Nat
  BY <1>2
<1>5. /\ IsFiniteSet(same) /\ same \subseteq 1..Len(text)
      /\ Cardinality(same) <= MaxOccurrences
  <2>1. IsFiniteSet(1..Len(text))
    BY <1>4, FS_Interval
  <2>2. Cardinality(same) <= MaxOccurrences
    BY <1>1, <1>3, RequestNames
  <2> QED
    BY <1>4, <2>1, <2>2, FS_Subset
<1>6. before \subseteq same /\ p[2] \in before
  BY <1>1, <1>4 DEF Requests!Section, Requests!Repeats
<1>7. /\ Cardinality(before) \in Nat \ {0}
      /\ Cardinality(before) <= Cardinality(same)
      /\ Cardinality(same) \in Nat
  <2> HIDE DEF before, same
  <2> QED
    BY <1>5, <1>6, FS_Subset, FS_CardinalityType, FS_EmptySet
<1>8. Requests!Occurrence(p) = Cardinality(before)
  BY DEF Requests!Occurrence, Requests!Cardinality, Cardinality
<1> HIDE DEF before, same
<1>9. Requests!Occurrence(p) \in 1..MaxOccurrences
  BY <1>5, <1>7, <1>8, RequestNames
<1> QED
  BY <1>1, <1>3, <1>9, RequestNames DEF Requests!Items

\* A section is known by its file, its number and its occurrence.
LEMMA SectionsApart ==
  ASSUME Requests!TypeOK, NEW p \in Requests!Items, NEW q \in Requests!Items,
         Requests!File(p) = Requests!File(q),
         Requests!Section(p).key = Requests!Section(q).key,
         Requests!Occurrence(p) = Requests!Occurrence(q)
  PROVE  p = q
<1> DEFINE text     == content[Requests!File(p)]
           k        == Requests!Section(p).key
           upto(n)  == {i \in 1..n : text[i].key = k}
<1>1. /\ p = <<p[1], p[2]>> /\ q = <<q[1], q[2]>>
      /\ p[1] \in DOMAIN Files /\ q[1] \in DOMAIN Files
      /\ p[2] \in Nat \ {0} /\ q[2] \in Nat \ {0}
  BY PlaceOfItem
<1>2. p[1] = q[1]
  BY <1>1, RequestNames DEF Requests!File
<1>3. /\ Requests!Repeats(p) = upto(p[2]) /\ Requests!Repeats(q) = upto(q[2])
      /\ text[p[2]].key = k /\ text[q[2]].key = k
  BY DEF Requests!Repeats, Requests!Section
<1>4. ASSUME NEW m \in Nat \ {0}, NEW n \in Nat \ {0}, m < n, text[n].key = k
      PROVE  Cardinality(upto(m)) # Cardinality(upto(n))
  <2>1. IsFiniteSet(1..n)
    BY FS_Interval
  <2>2. IsFiniteSet(upto(n))
    <3>1. upto(n) \in SUBSET (1..n)
      OBVIOUS
    <3> HIDE DEF upto
    <3> QED
      BY <2>1, <3>1, FS_Subset
  <2>3. upto(m) \in SUBSET upto(n) /\ n \in upto(n) /\ n \notin upto(m)
    BY <1>4
  <2> HIDE DEF upto
  <2> QED
    BY <2>2, <2>3, FS_Subset
<1> HIDE DEF upto, text, k
<1>5. ~(p[2] < q[2]) /\ ~(q[2] < p[2])
  <2>1. /\ Requests!Occurrence(p) = Cardinality(Requests!Repeats(p))
        /\ Requests!Occurrence(q) = Cardinality(Requests!Repeats(q))
    BY DEF Requests!Occurrence, Requests!Cardinality, Cardinality
  <2> QED
    BY <1>1, <1>3, <1>4, <2>1
<1> QED
  BY <1>1, <1>2, <1>5

LEMMA ItemsInOrder ==
  ASSUME Requests!TypeOK, NEW p \in Requests!Items, NEW q \in Requests!Items, p # q
  PROVE  /\ Requests!Precedes(p, q) \/ Requests!Precedes(q, p)
         /\ ~(Requests!Precedes(p, q) /\ Requests!Precedes(q, p))
  BY PlaceOfItem DEF Requests!Precedes

\* Of some sections one comes first.
LEMMA FirstItem ==
  ASSUME Requests!TypeOK, NEW T \in SUBSET Requests!Items, T # {}
  PROVE  \E p \in T : \A q \in T : ~Requests!Precedes(q, p)
<1> DEFINE A == {p[1] : p \in T}
<1>1. \A p \in T : p[1] \in Nat /\ p[2] \in Nat
  BY PlaceOfItem
<1>2. A \in SUBSET Nat /\ A # {}
  BY <1>1
<1>3. PICK a \in A : \A m \in A : a <= m
  <2> HIDE DEF A
  <2> QED
    BY <1>2, LeastNatural
<1> DEFINE B == {p[2] : p \in {r \in T : r[1] = a}}
<1>4. B \in SUBSET Nat /\ B # {}
  BY <1>1
<1>5. PICK b \in B : \A m \in B : b <= m
  <2> HIDE DEF B
  <2> QED
    BY <1>4, LeastNatural
<1>6. PICK p \in T : p[1] = a /\ p[2] = b
  OBVIOUS
<1>7. ASSUME NEW q \in T PROVE ~Requests!Precedes(q, p)
  <2>1. a <= q[1] /\ (q[1] = a => b <= q[2])
    BY <1>3, <1>5
  <2> QED
    BY <1>1, <1>6, <2>1 DEF Requests!Precedes
<1> QED
  BY <1>6, <1>7

\* No two sections of a plan get one id.
LEMMA IdentitiesApart ==
  ASSUME Requests!TypeOK, NEW p \in Requests!Items, NEW q \in Requests!Items,
         Requests!Identity(p) = Requests!Identity(q)
  PROVE  p = q
<1>1. CASE Requests!Identity(p) = Requests!Number(p)
  <2>1. Requests!Identity(q) = Requests!Number(q) /\ Requests!Number(q) = Requests!Number(p)
    BY <1>1 DEF Requests!Identity, Requests!Number, Requests!Suffixed
  <2>2. /\ Requests!MayHaveNumber(p) /\ ~Requests!IsClaimed(p)
        /\ Requests!MayHaveNumber(q) /\ ~Requests!IsClaimed(q)
    BY <1>1, <2>1 DEF Requests!Identity, Requests!Number, Requests!Suffixed
  <2> QED
    BY <2>1, <2>2, ItemsInOrder DEF Requests!IsClaimed
<1>2. CASE Requests!Identity(p) = Requests!Suffixed(p)
  <2>1. Requests!Identity(q) = Requests!Suffixed(q)
    BY <1>2 DEF Requests!Identity, Requests!Number, Requests!Suffixed
  <2>2. /\ Requests!File(p) = Requests!File(q)
        /\ Requests!Section(p).key = Requests!Section(q).key
        /\ Requests!Occurrence(p) = Requests!Occurrence(q)
    <3>1. Requests!Suffixed(p) = Requests!Suffixed(q)
      BY <1>2, <2>1
    <3>2. \A r : /\ Requests!Suffixed(r)[1] = Requests!Section(r).key
                 /\ Requests!Suffixed(r)[2] = Requests!File(r)
                 /\ Requests!Suffixed(r)[3] = Requests!Occurrence(r)
      BY DEF Requests!Suffixed
    <3> QED
      BY <3>1, <3>2
  <2> QED
    BY <2>2, SectionsApart
<1> QED
  BY <1>1, <1>2 DEF Requests!Identity

\* Two records are not kept in step with one section.
NoneTwice ==
  \A i, j \in Requests!Ids :
    /\ Requests!Managed(i) /\ Requests!Managed(j) /\ i[1] = j[1]
    /\ record[i].sync.file = record[j].sync.file
    /\ record[i].sync.occurrence = record[j].sync.occurrence
    => i = j

\* A record that is not there is not managed, and a first section got an id of its own
\* only because its number was taken.
IdsInTurn ==
  /\ \A id \in Requests!Ids : Requests!Managed(id) => Requests!Exists(id)
  /\ \A k \in Numbers, f \in Requests!Names :
        <<k, f, 1>> \in Requests!Ids /\ Requests!Exists(<<k, f, 1>>) => Requests!Exists(<<k>>)

\* Nothing is left to be done about a section.
Done(p) == Requests!Unchanged(p, Requests!Identity(p))

RequestInv ==
  /\ Requests!TypeOK
  /\ NoneTwice
  /\ IdsInTurn
  /\ settled => \A p \in Requests!Items : Done(p)

\* Its number if it may have that one and nobody before it took it.
LEMMA IdentityRows ==
  ASSUME Requests!TypeOK, NEW p \in Requests!Items
  PROVE  /\ Requests!Number(p) \in Requests!Ids /\ Requests!Suffixed(p) \in Requests!Ids
         /\ Requests!Number(p) # Requests!Suffixed(p)
         /\ Requests!Identity(p) \in {Requests!Number(p), Requests!Suffixed(p)}
         /\ \/ ~Requests!Exists(Requests!Identity(p))
            \/ Requests!IsOwn(p, Requests!Identity(p))
            \/ Requests!IsLinked(p, Requests!Identity(p))
         /\ Requests!IsOwn(p, Requests!Identity(p)) => Requests!Managed(Requests!Identity(p))
<1>1. /\ Requests!Section(p).key \in Numbers
      /\ Requests!File(p) \in Requests!Names /\ Requests!File(p) # NoFile
      /\ Requests!Occurrence(p) \in 1..MaxOccurrences
  BY ItemRows
<1>2. Requests!Number(p) \in Requests!Ids /\ Requests!Suffixed(p) \in Requests!Ids
  BY <1>1 DEF Requests!Number, Requests!Suffixed, Requests!Ids
<1>3. /\ Len(Requests!Suffixed(p)) = 3
      /\ Len(Requests!Number(p)) = 1
      /\ Requests!Suffixed(p)[2] = Requests!File(p)
      /\ Requests!Suffixed(p)[3] = Requests!Occurrence(p)
  BY DEF Requests!Suffixed, Requests!Number
<1>4. Requests!Identity(p) \in {Requests!Number(p), Requests!Suffixed(p)}
  BY DEF Requests!Identity
<1>5. Requests!Identity(p) = Requests!Number(p) /\ Requests!Number(p) # Requests!Suffixed(p)
        => Requests!MayHaveNumber(p)
  BY DEF Requests!Identity
<1>6. Requests!Exists(Requests!Suffixed(p)) => Requests!IsOwn(p, Requests!Suffixed(p))
  BY <1>2, <1>3 DEF Requests!TypeOK, Requests!IsOwn
<1>7. \A id : Requests!IsOwn(p, id) => Requests!Managed(id)
  BY <1>1 DEF Requests!IsOwn, Requests!Managed, Requests!NotSynced
<1>8. Requests!Number(p) # Requests!Suffixed(p)
  BY <1>3
<1>9. Requests!MayHaveNumber(p) =>
        \/ ~Requests!Exists(Requests!Number(p))
        \/ Requests!IsOwn(p, Requests!Number(p))
        \/ Requests!IsLinked(p, Requests!Number(p))
  BY DEF Requests!MayHaveNumber
<1> QED
  BY <1>2, <1>4, <1>5, <1>6, <1>7, <1>8, <1>9

\* What apply makes of the records: each is written for one section, or not at all.
LEMMA AppliedRows ==
  ASSUME Requests!TypeOK, Requests!Apply
  PROVE  /\ DOMAIN record' = Requests!Ids
         /\ \A p \in Requests!Items :
              record'[Requests!Identity(p)] =
                IF Done(p) THEN record[Requests!Identity(p)]
                ELSE Requests!Written(p, Requests!Identity(p))
         /\ \A id \in Requests!Ids :
              (\A p \in Requests!Items : Requests!Identity(p) # id) => record'[id] = record[id]
<1> DEFINE Last(id) == CHOOSE p \in Requests!Pending(id) :
                         \A q \in Requests!Pending(id) : ~Requests!Precedes(p, q)
<1>1. record' = [id \in Requests!Ids |->
                   IF Requests!Pending(id) = {} THEN record[id]
                   ELSE Requests!Written(Last(id), id)]
  BY DEF Requests!Apply
<1>2. ASSUME NEW p \in Requests!Items
      PROVE  record'[Requests!Identity(p)] =
               IF Done(p) THEN record[Requests!Identity(p)]
               ELSE Requests!Written(p, Requests!Identity(p))
  <2> DEFINE id == Requests!Identity(p)
  <2>1. id \in Requests!Ids
    BY IdentityRows
  <2>2. \A q \in Requests!Items : Requests!Identity(q) = id => q = p
    BY IdentitiesApart
  <2>3. CASE Done(p)
    <3>1. Requests!Pending(id) = {}
      BY <2>2, <2>3 DEF Requests!Pending, Done
    <3> QED
      BY <1>1, <2>1, <2>3, <3>1
  <2>4. CASE ~Done(p)
    <3>1. Requests!Pending(id) = {p}
      BY <2>2, <2>4 DEF Requests!Pending, Done
    <3>2. ~Requests!Precedes(p, p)
      BY PlaceOfItem DEF Requests!Precedes
    <3>3. Last(id) = p
      BY <3>1, <3>2
    <3> QED
      BY <1>1, <2>1, <2>4, <3>1, <3>3
  <2> QED
    BY <2>3, <2>4
<1>3. ASSUME NEW id \in Requests!Ids, \A p \in Requests!Items : Requests!Identity(p) # id
      PROVE  record'[id] = record[id]
  <2>1. Requests!Pending(id) = {}
    BY <1>3 DEF Requests!Pending
  <2> QED
    BY <1>1, <2>1
<1> QED
  BY <1>1, <1>2, <1>3

\* What a section's record is once it has been written.
LEMMA WrittenRow ==
  ASSUME Requests!TypeOK, NEW p \in Requests!Items, NEW id \in Requests!Ids,
         NEW row, row = Requests!Written(p, id)
  PROVE  /\ row \in Requests!Record
         /\ row.path = record[id].path
         /\ row.targets = record[id].targets \cup Requests!Section(p).about
         /\ row.targets # {}
         /\ row.revision > 0 /\ row.revision \in Nat
         /\ IF Requests!IsLinked(p, id) THEN row.sync = record[id].sync
            ELSE row.sync = Requests!SyncOf(p)
<1>1. /\ record[id] \in Requests!Record
      /\ Requests!Exists(id) <=> record[id].targets # {}
  BY DEF Requests!TypeOK
<1>2. /\ Requests!Section(p).question \in Questions
      /\ Requests!Section(p).answered \in BOOLEAN
      /\ Requests!Section(p).about \in SUBSET Topics
      /\ Requests!Section(p).about # {}
      /\ Requests!File(p) \in Requests!Names
      /\ Requests!Occurrence(p) \in 1..MaxOccurrences
  BY ItemRows
<1>3. MaxOccurrences \in Nat
  BY RequestNames
<1>4. Requests!SyncOf(p) \in Requests!FileSync
  BY <1>2, <1>3 DEF Requests!SyncOf, Requests!FileSync
<1>5. CASE Requests!IsLinked(p, id)
  <2>1. row = [record[id] EXCEPT !.targets = @ \cup Requests!Section(p).about]
    BY <1>5 DEF Requests!Written
  <2>2. record[id].revision > 0
    BY <1>5 DEF Requests!IsLinked, Requests!Exists
  <2> QED
    BY <1>1, <1>2, <1>5, <2>1, <2>2 DEF Requests!Record
<1>6. CASE ~Requests!IsLinked(p, id)
  <2> DEFINE new == Requests!Revision(record[id], p)
  <2>1. row = [record[id] EXCEPT !.sync = Requests!SyncOf(p),
                                 !.question = Requests!Section(p).question,
                                 !.revision = new,
                                 !.targets = @ \cup Requests!Section(p).about]
    BY <1>6 DEF Requests!Written
  <2>2. new \in Nat /\ new > 0
    BY <1>1 DEF Requests!Record, Requests!Revision
  <2> HIDE DEF new
  <2> QED
    BY <1>1, <1>2, <1>4, <1>6, <2>1, <2>2 DEF Requests!Record
<1> QED
  BY <1>5, <1>6

\* Where some section may have a number, one gets it.
LEMMA Taker ==
  ASSUME Requests!TypeOK, NEW p \in Requests!Items, Requests!MayHaveNumber(p)
  PROVE  \E t \in Requests!Items :
           /\ Requests!Number(t) = Requests!Number(p)
           /\ Requests!MayHaveNumber(t) /\ ~Requests!IsClaimed(t)
           /\ Requests!Identity(t) = Requests!Number(p)
<1> DEFINE T == {q \in Requests!Items :
                   Requests!Number(q) = Requests!Number(p) /\ Requests!MayHaveNumber(q)}
<1>1. T \in SUBSET Requests!Items /\ p \in T
  OBVIOUS
<1>2. PICK t \in T : \A q \in T : ~Requests!Precedes(q, t)
  <2> HIDE DEF T
  <2> QED
    BY <1>1, FirstItem
<1>3. ~Requests!IsClaimed(t)
  BY <1>2 DEF Requests!IsClaimed
<1> QED
  BY <1>2, <1>3 DEF Requests!Identity

\* Only a section with a number gets it.
LEMMA NumberTaken ==
  ASSUME Requests!TypeOK, NEW p \in Requests!Items, NEW q \in Requests!Items,
         Requests!Identity(q) = Requests!Number(p)
  PROVE  /\ Requests!Number(q) = Requests!Number(p)
         /\ Requests!MayHaveNumber(q) /\ ~Requests!IsClaimed(q)
<1>1. /\ Len(Requests!Suffixed(q)) = 3 /\ Len(Requests!Number(p)) = 1
  BY DEF Requests!Suffixed, Requests!Number
<1>2. Requests!Identity(q) # Requests!Suffixed(q)
  BY <1>1
<1> QED
  BY <1>2 DEF Requests!Identity

\* What apply does to one id: nothing, or it is written for the one section.
LEMMA OneRow ==
  ASSUME Requests!TypeOK, Requests!Apply, NEW id \in Requests!Ids
  PROVE  \/ record'[id] = record[id]
         \/ \E p \in Requests!Items : /\ Requests!Identity(p) = id
                                      /\ record'[id] = Requests!Written(p, id)
  BY AppliedRows

LEMMA SameItems ==
  ASSUME UNCHANGED content
  PROVE  /\ Requests!Items' = Requests!Items
         /\ \A p : /\ Requests!Number(p)' = Requests!Number(p)
                   /\ Requests!Suffixed(p)' = Requests!Suffixed(p)
                   /\ Requests!SyncOf(p)' = Requests!SyncOf(p)
                   /\ Requests!File(p)' = Requests!File(p)
                   /\ Requests!Section(p)' = Requests!Section(p)
                   /\ Requests!Occurrence(p)' = Requests!Occurrence(p)
  BY DEF Requests!Items, Requests!Places, Requests!Number, Requests!Suffixed, Requests!SyncOf,
         Requests!File, Requests!Section, Requests!Occurrence, Requests!Repeats,
         Requests!Cardinality, Cardinality

\* Apply leaves everybody the id it has given.
LEMMA IdentityStands ==
  ASSUME Requests!TypeOK, IdsInTurn, Requests!Apply, NEW p \in Requests!Items
  PROVE  Requests!Identity(p)' = Requests!Identity(p)
<1> DEFINE n       == Requests!Number(p)
           Alike   == {q \in Requests!Items : Requests!Number(q) = n}
<1>1. UNCHANGED content
  BY DEF Requests!Apply
<1>2. n \in Requests!Ids /\ \A q \in Alike : Requests!Section(q).key = Requests!Section(p).key
  BY IdentityRows DEF Requests!Number
<1>3. \A q \in Requests!Items : Requests!File(q) \in Requests!Names /\ Requests!File(q) # NoFile
  BY ItemRows
<1>4. \A q \in Alike : /\ Requests!Number(q)' = n
                       /\ Requests!File(q)' = Requests!File(q)
                       /\ Requests!Occurrence(q)' = Requests!Occurrence(q)
  BY <1>1, SameItems
<1>5. CASE record'[n] = record[n]
  <2>1. \A q \in Alike : Requests!MayHaveNumber(q)' <=> Requests!MayHaveNumber(q)
    BY <1>4, <1>5 DEF Requests!MayHaveNumber, Requests!Exists, Requests!IsOwn,
                      Requests!IsLinked, Requests!Managed, Requests!NotSynced
  <2> QED
    <3>1. Requests!IsClaimed(p)' <=> Requests!IsClaimed(p)
      BY <1>1, <2>1, SameItems DEF Requests!IsClaimed, Requests!Precedes
    <3> QED
      BY <1>1, <2>1, <3>1, SameItems DEF Requests!Identity
<1>6. CASE record'[n] # record[n]
  <2>1. PICK t \in Requests!Items :
          Requests!Identity(t) = n /\ record'[n] = Requests!Written(t, n)
    BY <1>2, <1>6, OneRow
  <2>2. t \in Alike /\ Requests!MayHaveNumber(t) /\ ~Requests!IsClaimed(t)
    BY <2>1, NumberTaken
  <2>3. /\ record'[n].path = record[n].path
        /\ record'[n].revision > 0
        /\ IF Requests!IsLinked(t, n) THEN record'[n].sync = record[n].sync
           ELSE record'[n].sync = Requests!SyncOf(t)
    BY <1>2, <2>1, WrittenRow
  <2>4. Requests!Exists(n)'
    BY <1>1, <2>3, SameItems DEF Requests!Exists
  <2>5. CASE Requests!Exists(n)
    <3>1. \A q \in Alike : Requests!MayHaveNumber(q)' <=> Requests!MayHaveNumber(q)
      <4>1. CASE Requests!IsLinked(t, n)
        BY <1>4, <2>3, <2>4, <2>5, <4>1
           DEF Requests!MayHaveNumber, Requests!Exists, Requests!IsOwn,
               Requests!IsLinked, Requests!Managed, Requests!NotSynced
      <4>2. CASE ~Requests!IsLinked(t, n)
        <5>1. Requests!IsOwn(t, n)
          BY <2>2, <2>5, <4>2 DEF Requests!MayHaveNumber
        <5>2. /\ record'[n].sync.file = Requests!File(t)
              /\ record'[n].sync.occurrence = Requests!Occurrence(t)
              /\ record[n].sync.file = Requests!File(t)
              /\ record[n].sync.occurrence = Requests!Occurrence(t)
          BY <2>3, <4>2, <5>1 DEF Requests!SyncOf, Requests!IsOwn
        <5>3. Requests!Managed(n) /\ Requests!Managed(n)'
          BY <1>1, <1>3, <5>2, SameItems DEF Requests!Managed, Requests!NotSynced
        <5>4. \A q \in Alike : Requests!IsOwn(q, n)' <=> Requests!IsOwn(q, n)
          BY <1>4, <5>2 DEF Requests!IsOwn
        <5> QED
          BY <1>4, <2>4, <2>5, <5>3, <5>4 DEF Requests!MayHaveNumber, Requests!IsLinked
      <4> QED
        BY <4>1, <4>2
    <3>2. Requests!IsClaimed(p)' <=> Requests!IsClaimed(p)
      BY <1>1, <3>1, SameItems DEF Requests!IsClaimed, Requests!Precedes
    <3> QED
      BY <1>1, <3>1, <3>2, SameItems DEF Requests!Identity
  <2>6. CASE ~Requests!Exists(n)
    <3>1. record'[n].sync = Requests!SyncOf(t)
      BY <2>3, <2>6 DEF Requests!IsLinked
    <3>2. /\ record'[n].sync.file = Requests!File(t)
          /\ record'[n].sync.occurrence = Requests!Occurrence(t)
      BY <3>1 DEF Requests!SyncOf
    <3>3. Requests!Managed(n)'
      BY <1>1, <1>3, <3>2, SameItems DEF Requests!Managed, Requests!NotSynced
    <3>4. \A q \in Alike : Requests!MayHaveNumber(q)' <=> q = t
      <4>1. \A q \in Alike : Requests!IsOwn(q, n)' <=> q = t
        <5>1. ASSUME NEW q \in Alike, Requests!IsOwn(q, n)' PROVE q = t
          <6>1. /\ Requests!File(q) = Requests!File(t)
                /\ Requests!Occurrence(q) = Requests!Occurrence(t)
            BY <1>4, <3>2, <5>1 DEF Requests!IsOwn
          <6>2. Requests!Section(q).key = Requests!Section(t).key
            BY <1>2, <2>2
          <6> QED
            BY <6>1, <6>2, SectionsApart
        <5>2. Requests!IsOwn(t, n)'
          BY <1>4, <2>2, <3>2 DEF Requests!IsOwn
        <5> QED
          BY <5>1, <5>2
      <4> QED
        BY <1>4, <2>4, <3>3, <4>1 DEF Requests!MayHaveNumber, Requests!IsLinked
    <3>5. ~Requests!Precedes(t, t)
      BY PlaceOfItem DEF Requests!Precedes
    <3>6. CASE p = t
      <4>1. ~Requests!IsClaimed(p)'
        BY <1>1, <3>4, <3>5, <3>6, SameItems DEF Requests!IsClaimed, Requests!Precedes
      <4>2. Requests!MayHaveNumber(p)'
        BY <3>4, <3>6
      <4> QED
        BY <1>1, <2>1, <3>6, <4>1, <4>2, SameItems DEF Requests!Identity
    <3>7. CASE p # t
      <4>1. ~Requests!MayHaveNumber(p)'
        BY <3>4, <3>7
      <4>2. Requests!Identity(p) # n
        BY <2>1, <3>7, IdentitiesApart
      <4> QED
        BY <1>1, <4>1, <4>2, SameItems DEF Requests!Identity
    <3> QED
      BY <3>6, <3>7
  <2> QED
    BY <2>5, <2>6
<1> QED
  BY <1>5, <1>6

\* After an apply there is nothing left to do for any section.
LEMMA AppliedIsDone ==
  ASSUME Requests!TypeOK, IdsInTurn, Requests!Apply, NEW p \in Requests!Items
  PROVE  Done(p)'
<1>1. UNCHANGED content
  BY DEF Requests!Apply
<1>2. PICK id \in Requests!Ids : id = Requests!Identity(p)
  BY IdentityRows
<1>3. Requests!Identity(p)' = id
  BY <1>2, IdentityStands
<1>4. record'[id] = IF Done(p) THEN record[id] ELSE Requests!Written(p, id)
  BY <1>2, AppliedRows
<1>5. Requests!Unchanged(p, id)'
  <2>1. CASE Done(p)
    <3>1. Requests!Unchanged(p, id) /\ record'[id] = record[id]
      BY <1>2, <1>4, <2>1 DEF Done
    <3> QED
      BY <1>1, <3>1, SameItems
         DEF Requests!Unchanged, Requests!IsLinked, Requests!Exists, Requests!Managed,
             Requests!NotSynced
  <2>2. CASE ~Done(p)
    <3>1. /\ record'[id].path = record[id].path
          /\ record'[id].targets = record[id].targets \cup Requests!Section(p).about
          /\ record'[id].revision > 0
          /\ IF Requests!IsLinked(p, id) THEN record'[id].sync = record[id].sync
             ELSE record'[id].sync = Requests!SyncOf(p)
      BY <1>4, <2>2, WrittenRow
    <3> QED
      BY <1>1, <3>1, SameItems
         DEF Requests!Unchanged, Requests!IsLinked, Requests!Exists, Requests!Managed,
             Requests!NotSynced
  <2> QED
    BY <2>1, <2>2
<1> QED
  BY <1>3, <1>5 DEF Done

\* A record is kept in step with the section it was, or it is new and kept in step
\* with the section that got its id.
LEMMA KeptInStep ==
  ASSUME Requests!TypeOK, Requests!Apply, NEW id \in Requests!Ids
  PROVE  /\ Requests!Exists(id) => Requests!Exists(id)'
         /\ \/ /\ Requests!Managed(id)' <=> Requests!Managed(id)
               /\ record'[id].sync.file = record[id].sync.file
               /\ record'[id].sync.occurrence = record[id].sync.occurrence
               /\ Requests!Exists(id)' <=> Requests!Exists(id)
            \/ /\ ~Requests!Exists(id) /\ Requests!Exists(id)'
               /\ \E p \in Requests!Items :
                    /\ Requests!Identity(p) = id
                    /\ record'[id].sync = Requests!SyncOf(p)
<1>1. CASE record'[id] = record[id]
  BY <1>1 DEF Requests!Managed, Requests!Exists, Requests!NotSynced
<1>2. CASE record'[id] # record[id]
  <2>1. PICK p \in Requests!Items :
          Requests!Identity(p) = id /\ record'[id] = Requests!Written(p, id)
    BY <1>2, OneRow
  <2>2. /\ record'[id].revision > 0
        /\ IF Requests!IsLinked(p, id) THEN record'[id].sync = record[id].sync
           ELSE record'[id].sync = Requests!SyncOf(p)
    BY <2>1, WrittenRow
  <2>3. Requests!Exists(id)'
    BY <2>2 DEF Requests!Exists
  <2>4. CASE ~Requests!Exists(id)
    BY <2>1, <2>2, <2>3, <2>4 DEF Requests!IsLinked
  <2>5. CASE Requests!Exists(id) /\ Requests!IsLinked(p, id)
    BY <2>2, <2>3, <2>5 DEF Requests!Managed, Requests!NotSynced
  <2>6. CASE Requests!Exists(id) /\ ~Requests!IsLinked(p, id)
    <3>1. Requests!IsOwn(p, id)
      BY <2>1, <2>6, IdentityRows
    <3>2. Requests!File(p) \in Requests!Names /\ Requests!File(p) # NoFile
      BY ItemRows
    <3>3. /\ record'[id].sync.file = Requests!File(p)
          /\ record'[id].sync.occurrence = Requests!Occurrence(p)
          /\ record[id].sync.file = Requests!File(p)
          /\ record[id].sync.occurrence = Requests!Occurrence(p)
      BY <2>2, <2>6, <3>1 DEF Requests!SyncOf, Requests!IsOwn
    <3>4. Requests!Managed(id) /\ Requests!Managed(id)'
      BY <3>2, <3>3 DEF Requests!Managed, Requests!NotSynced
    <3> QED
      BY <2>3, <2>6, <3>3, <3>4
  <2> QED
    BY <2>4, <2>5, <2>6
<1> QED
  BY <1>1, <1>2

\* Ids: their parts, and which they are.
LEMMA IdForms ==
  ASSUME Requests!TypeOK, NEW id \in Requests!Ids
  PROVE  \/ id = <<id[1]>> /\ id[1] \in Numbers /\ Len(id) = 1
         \/ /\ id = <<id[1], id[2], id[3]>> /\ id[1] \in Numbers /\ Len(id) = 3
            /\ id[2] \in Requests!Names /\ id[3] \in 1..MaxOccurrences
  BY DEF Requests!Ids

LEMMA AppliedTypes ==
  ASSUME Requests!TypeOK, Requests!Apply
  PROVE  Requests!TypeOK'
<1>1. DOMAIN record' = Requests!Ids
  BY AppliedRows
<1>2. ASSUME NEW id \in Requests!Ids
      PROVE  /\ record'[id] \in Requests!Record
             /\ Requests!Exists(id)' <=> record'[id].targets # {}
             /\ Requests!Exists(id)' /\ Len(id) = 3 =>
                  record'[id].sync.file = id[2] /\ record'[id].sync.occurrence = id[3]
  <2>1. CASE record'[id] = record[id]
    BY <2>1 DEF Requests!TypeOK, Requests!Exists
  <2>2. CASE record'[id] # record[id]
    <3>1. PICK p \in Requests!Items :
            Requests!Identity(p) = id /\ record'[id] = Requests!Written(p, id)
      BY <2>2, OneRow
    <3>2. /\ record'[id] \in Requests!Record
          /\ record'[id].targets # {}
          /\ record'[id].revision > 0
      BY <3>1, WrittenRow
    <3>3. ASSUME Len(id) = 3
          PROVE  record'[id].sync.file = id[2] /\ record'[id].sync.occurrence = id[3]
      <4>1. id = Requests!Suffixed(p)
        <5>1. Len(Requests!Number(p)) = 1
          BY DEF Requests!Number
        <5> QED
          BY <3>1, <3>3, <5>1, IdentityRows
      <4>2. id[2] = Requests!File(p) /\ id[3] = Requests!Occurrence(p)
        BY <4>1 DEF Requests!Suffixed
      <4>3. CASE Requests!Exists(id)
        <5>1. record[id].sync.file = id[2] /\ record[id].sync.occurrence = id[3]
          BY <3>3, <4>3 DEF Requests!TypeOK
        <5>2. \/ record'[id].sync = record[id].sync
              \/ record'[id].sync = Requests!SyncOf(p)
          BY <3>1, WrittenRow
        <5> QED
          BY <4>2, <5>1, <5>2 DEF Requests!SyncOf
      <4>4. CASE ~Requests!Exists(id)
        <5>1. record'[id].sync = Requests!SyncOf(p)
          BY <3>1, <4>4, WrittenRow DEF Requests!IsLinked
        <5> QED
          BY <4>2, <5>1 DEF Requests!SyncOf
      <4> QED
        BY <4>3, <4>4
    <3> QED
      BY <3>2, <3>3 DEF Requests!Exists
  <2> QED
    BY <2>1, <2>2
<1>3. /\ content' \in [Requests!Names -> Texts]
      /\ settled' \in BOOLEAN /\ changes' \in 0..MaxChanges
  BY DEF Requests!TypeOK, Requests!Apply
<1> QED
  BY <1>1, <1>2, <1>3 DEF Requests!TypeOK, Requests!Exists

LEMMA AppliedNoneTwice ==
  ASSUME Requests!TypeOK, NoneTwice, IdsInTurn, Requests!Apply
  PROVE  NoneTwice'
<1> DEFINE New(id, p) == /\ p \in Requests!Items /\ ~Requests!Exists(id)
                         /\ Requests!Identity(p) = id
                         /\ record'[id].sync = Requests!SyncOf(p)
           Old(id)    == /\ Requests!Managed(id)' <=> Requests!Managed(id)
                         /\ record'[id].sync.file = record[id].sync.file
                         /\ record'[id].sync.occurrence = record[id].sync.occurrence
           Alike(i, j) == /\ Requests!Managed(i)' /\ Requests!Managed(j)' /\ i[1] = j[1]
                          /\ record'[i].sync.file = record'[j].sync.file
                          /\ record'[i].sync.occurrence = record'[j].sync.occurrence
<1>1. \A id \in Requests!Ids : Old(id) \/ \E p \in Requests!Items : New(id, p)
  BY KeptInStep
<1>2. ASSUME NEW id \in Requests!Ids, NEW p \in Requests!Items, New(id, p)
      PROVE  /\ record'[id].sync.file = Requests!File(p)
             /\ record'[id].sync.occurrence = Requests!Occurrence(p)
             /\ id \in {Requests!Number(p), Requests!Suffixed(p)}
             /\ id[1] = Requests!Section(p).key
  <2>1. id \in {Requests!Number(p), Requests!Suffixed(p)}
    BY <1>2, IdentityRows
  <2>2. /\ Requests!Number(p)[1] = Requests!Section(p).key
        /\ Requests!Suffixed(p)[1] = Requests!Section(p).key
    BY DEF Requests!Number, Requests!Suffixed
  <2> QED
    BY <1>2, <2>1, <2>2 DEF Requests!SyncOf
<1>3. ASSUME NEW i \in Requests!Ids, NEW j \in Requests!Ids, Alike(i, j),
             NEW p \in Requests!Items, New(i, p), Old(j)
      PROVE  i = j
  <2>1. /\ Requests!Managed(j) /\ Requests!Exists(j)
        /\ Requests!IsOwn(p, j) /\ j[1] = Requests!Section(p).key
    BY <1>2, <1>3 DEF IdsInTurn, Requests!IsOwn
  <2>2. CASE j = Requests!Number(p)
    <3>1. Requests!MayHaveNumber(p)
      BY <2>1, <2>2 DEF Requests!MayHaveNumber
    <3>2. ASSUME NEW q \in Requests!Items, Requests!Number(q) = Requests!Number(p),
                 Requests!MayHaveNumber(q)
          PROVE  q = p
      <4>1. Requests!IsOwn(q, j)
        BY <2>1, <2>2, <3>2 DEF Requests!MayHaveNumber, Requests!IsLinked
      <4>2. /\ Requests!File(q) = Requests!File(p)
            /\ Requests!Occurrence(q) = Requests!Occurrence(p)
        BY <2>1, <4>1 DEF Requests!IsOwn
      <4>3. Requests!Section(q).key = Requests!Section(p).key
        BY <3>2 DEF Requests!Number
      <4> QED
        BY <4>2, <4>3, SectionsApart
    <3>3. ~Requests!Precedes(p, p)
      BY PlaceOfItem DEF Requests!Precedes
    <3> QED
      BY <1>3, <2>2, <3>1, <3>2, <3>3 DEF Requests!Identity, Requests!IsClaimed
  <2>3. CASE j # Requests!Number(p)
    <3>1. j = Requests!Suffixed(p)
      <4>1. j = <<j[1], j[2], j[3]>> /\ Len(j) = 3
        BY <2>1, <2>3, IdForms DEF Requests!Number
      <4>2. record[j].sync.file = j[2] /\ record[j].sync.occurrence = j[3]
        BY <2>1, <4>1 DEF Requests!TypeOK
      <4> QED
        BY <2>1, <4>1, <4>2 DEF Requests!IsOwn, Requests!Suffixed
    <3>2. CASE i = Requests!Number(p)
      <4>1. Requests!MayHaveNumber(p)
        BY <1>3, <3>2, NumberTaken
      <4>2. Requests!Occurrence(p) = 1
        BY <1>3, <3>2, <4>1 DEF Requests!MayHaveNumber
      <4>3. j = <<Requests!Section(p).key, Requests!File(p), 1>>
        BY <3>1, <4>2 DEF Requests!Suffixed
      <4>4. Requests!Exists(<<Requests!Section(p).key>>)
        BY <2>1, <4>3, ItemRows DEF IdsInTurn
      <4> QED
        BY <1>3, <3>2, <4>4 DEF Requests!Number
    <3> QED
      BY <1>2, <1>3, <3>1, <3>2
  <2> QED
    BY <2>2, <2>3
<1>4. ASSUME NEW i \in Requests!Ids, NEW j \in Requests!Ids, Alike(i, j),
             NEW p \in Requests!Items, New(i, p), NEW q \in Requests!Items, New(j, q)
      PROVE  i = j
  <2>1. /\ Requests!File(p) = Requests!File(q)
        /\ Requests!Occurrence(p) = Requests!Occurrence(q)
        /\ Requests!Section(p).key = Requests!Section(q).key
    BY <1>2, <1>4
  <2>2. p = q
    BY <2>1, SectionsApart
  <2> QED
    BY <1>4, <2>2
<1>5. ASSUME NEW i \in Requests!Ids, NEW j \in Requests!Ids, Alike(i, j), Old(i), Old(j)
      PROVE  i = j
  BY <1>5 DEF NoneTwice
<1>6. ASSUME NEW i \in Requests!Ids, NEW j \in Requests!Ids, Alike(i, j)
      PROVE  i = j
  <2> HIDE DEF Old, New
  <2>1. CASE Old(i) /\ Old(j)
    BY <1>5, <1>6, <2>1
  <2>2. CASE ~Old(i) /\ Old(j)
    BY <1>1, <1>3, <1>6, <2>2
  <2>3. CASE Old(i) /\ ~Old(j)
    BY <1>1, <1>3, <1>6, <2>3
  <2>4. CASE ~Old(i) /\ ~Old(j)
    BY <1>1, <1>4, <1>6, <2>4
  <2> QED
    BY <2>1, <2>2, <2>3, <2>4
<1> QED
  BY <1>6 DEF NoneTwice

LEMMA AppliedInTurn ==
  ASSUME Requests!TypeOK, IdsInTurn, Requests!Apply
  PROVE  IdsInTurn'
<1>1. ASSUME NEW id \in Requests!Ids, Requests!Managed(id)'
      PROVE  Requests!Exists(id)'
  BY <1>1, KeptInStep DEF IdsInTurn
<1>2. ASSUME NEW k \in Numbers, NEW f \in Requests!Names,
             <<k, f, 1>> \in Requests!Ids, Requests!Exists(<<k, f, 1>>)'
      PROVE  Requests!Exists(<<k>>)'
  <2> DEFINE id == <<k, f, 1>>
  <2>1. <<k>> \in Requests!Ids
    BY DEF Requests!Ids
  <2>2. CASE Requests!Exists(<<k>>)
    BY <2>1, <2>2, KeptInStep
  <2>3. CASE ~Requests!Exists(<<k>>)
    <3>1. ~Requests!Exists(id)
      BY <1>2, <2>3 DEF IdsInTurn
    <3>2. PICK p \in Requests!Items : Requests!Identity(p) = id
      BY <1>2, <3>1, KeptInStep
    <3>3. id = Requests!Suffixed(p) /\ Requests!Number(p) = <<k>>
      <4>1. Len(id) = 3 /\ Len(Requests!Number(p)) = 1
        BY DEF Requests!Number
      <4>2. id = Requests!Suffixed(p)
        BY <3>2, <4>1, IdentityRows
      <4> QED
        BY <4>2 DEF Requests!Suffixed, Requests!Number
    <3>4. Requests!MayHaveNumber(p)
      BY <2>3, <3>3 DEF Requests!MayHaveNumber, Requests!Suffixed
    <3>5. PICK t \in Requests!Items : Requests!Identity(t) = <<k>>
      BY <3>3, <3>4, Taker
    <3>6. record'[<<k>>] = IF Done(t) THEN record[<<k>>] ELSE Requests!Written(t, <<k>>)
      BY <3>5, AppliedRows
    <3>7. ~Done(t)
      BY <2>3, <3>5 DEF Done, Requests!Unchanged
    <3>8. record'[<<k>>].revision > 0
      BY <2>1, <3>6, <3>7, WrittenRow
    <3> QED
      BY <3>8 DEF Requests!Exists
  <2> QED
    BY <2>2, <2>3
<1> QED
  BY <1>1, <1>2 DEF IdsInTurn

LEMMA RequestBegins == Requests!Init => RequestInv
<1> SUFFICES ASSUME Requests!Init PROVE RequestInv
  OBVIOUS
<1> USE DEF Requests!Init
<1>1. \A id \in Requests!Ids : /\ record[id] = Requests!NoRecord
                               /\ ~Requests!Exists(id) /\ ~Requests!Managed(id)
  BY DEF Requests!NoRecord, Requests!Exists, Requests!Managed
<1>2. Requests!NoRecord \in Requests!Record /\ Requests!NoRecord.targets = {}
  <2>1. MaxOccurrences \in Nat
    BY RequestNames
  <2> QED
    BY <2>1 DEF Requests!NoRecord, Requests!NotSynced, Requests!Record, Requests!FileSync
<1>3. Requests!TypeOK
  <2>1. content \in [Requests!Names -> Texts] /\ MaxChanges \in Nat
    BY RequestNames
  <2>2. DOMAIN record = Requests!Ids /\ settled \in BOOLEAN /\ changes \in 0..MaxChanges
    <3>1. record = [id \in Requests!Ids |-> Requests!NoRecord] /\ settled = FALSE /\ changes = 0
      OBVIOUS
    <3> HIDE DEF Requests!Init
    <3>2. settled \in BOOLEAN
      BY <3>1
    <3>3. changes \in 0..MaxChanges
      BY <2>1, <3>1
    <3>4. DOMAIN record = Requests!Ids
      BY <3>1
    <3> QED
      BY <3>2, <3>3, <3>4
  <2>3. \A id \in Requests!Ids : /\ record[id] \in Requests!Record
                                 /\ ~Requests!Exists(id) /\ record[id].targets = {}
    BY <1>1, <1>2
  <2> HIDE DEF Requests!Init
  <2> QED
    BY <2>1, <2>2, <2>3 DEF Requests!TypeOK
<1>4. NoneTwice /\ IdsInTurn
  <2>1. \A k \in Numbers, f \in Requests!Names :
          <<k, f, 1>> \in Requests!Ids => ~Requests!Exists(<<k, f, 1>>)
    BY <1>1
  <2> QED
    BY <1>1, <2>1 DEF NoneTwice, IdsInTurn
<1> QED
  BY <1>3, <1>4 DEF RequestInv

\* Between two applies rows keep the section they are in step with, or lose it.
LEMMA ChangedRows ==
  ASSUME RequestInv, Requests!Change,
         content' \in [Requests!Names -> Texts], DOMAIN record' = Requests!Ids,
         \A id \in Requests!Ids :
           /\ record'[id] \in Requests!Record
           /\ Requests!Exists(id)' <=> record'[id].targets # {}
           /\ Requests!Exists(id) => Requests!Exists(id)'
           /\ Requests!Managed(id)' => /\ Requests!Managed(id)
                                       /\ record'[id].sync = record[id].sync
           /\ Len(id) = 3 => record'[id] = record[id]
  PROVE  RequestInv'
<1>1. settled' = FALSE /\ changes' \in 0..MaxChanges
  BY RequestNames DEF RequestInv, Requests!TypeOK, Requests!Change
<1>2. Requests!TypeOK'
  <2>1. \A id \in Requests!Ids : Requests!Exists(id)' /\ Len(id) = 3 =>
          record'[id].sync.file = id[2] /\ record'[id].sync.occurrence = id[3]
    BY DEF RequestInv, Requests!TypeOK, Requests!Exists
  <2> QED
    BY <1>1, <2>1 DEF Requests!TypeOK, Requests!Exists
<1>3. NoneTwice'
  BY DEF RequestInv, NoneTwice
<1>4. IdsInTurn'
  <2>1. ASSUME NEW k \in Numbers, NEW f \in Requests!Names,
               <<k, f, 1>> \in Requests!Ids, Requests!Exists(<<k, f, 1>>)'
        PROVE  Requests!Exists(<<k>>)'
    <3>1. Len(<<k, f, 1>>) = 3 /\ <<k>> \in Requests!Ids
      BY DEF Requests!Ids
    <3>2. Requests!Exists(<<k, f, 1>>)
      BY <2>1, <3>1 DEF Requests!Exists
    <3> QED
      BY <2>1, <3>1, <3>2 DEF RequestInv, IdsInTurn
  <2>2. \A id \in Requests!Ids : Requests!Managed(id)' => Requests!Exists(id)'
    BY DEF RequestInv, IdsInTurn
  <2> QED
    BY <2>1, <2>2 DEF IdsInTurn
<1> QED
  BY <1>1, <1>2, <1>3, <1>4 DEF RequestInv

LEMMA RequestFilesStep == RequestInv /\ [Requests!Next]_(Requests!vars) => RequestInv'
<1> SUFFICES ASSUME RequestInv, [Requests!Next]_(Requests!vars) PROVE RequestInv'
  OBVIOUS
<1>1. CASE Requests!Apply
  <2>1. Requests!TypeOK' /\ NoneTwice' /\ IdsInTurn'
    BY <1>1, AppliedTypes, AppliedNoneTwice, AppliedInTurn DEF RequestInv
  <2>2. \A p \in Requests!Items' : Done(p)'
    BY <1>1, AppliedIsDone, SameItems DEF RequestInv, Requests!Apply
  <2> QED
    BY <2>1, <2>2 DEF RequestInv
<1>2. ASSUME NEW f \in Requests!Names, NEW sections \in Texts, Requests!Edit(f, sections)
      PROVE  RequestInv'
  <2>1. /\ Requests!Change /\ record' = record
        /\ content' \in [Requests!Names -> Texts]
    BY <1>2 DEF Requests!Edit, RequestInv, Requests!TypeOK
  <2> QED
    BY <2>1, ChangedRows DEF RequestInv, Requests!TypeOK, Requests!Exists, Requests!Managed,
                             Requests!NotSynced
<1>3. ASSUME NEW k \in Numbers, NEW f \in Requests!Names \cup {NoFile},
             NEW q \in Questions, NEW t \in Topics, Requests!Register(k, f, q, t)
      PROVE  RequestInv'
  <2> DEFINE row == [record[<<k>>] EXCEPT !.path = f, !.question = q,
                                          !.revision = @ + 1, !.targets = @ \cup {t}]
  <2>1. <<k>> \in Requests!Ids /\ Len(<<k>>) = 1
    BY DEF Requests!Ids
  <2>2. /\ Requests!Change /\ content' = content
        /\ record' = [record EXCEPT ![<<k>>] = row]
    BY <1>3 DEF Requests!Register
  <2>3. /\ row \in Requests!Record
        /\ row.revision > 0 /\ row.targets # {}
        /\ row.sync = record[<<k>>].sync
    <3>1. record[<<k>>] \in Requests!Record
      BY <2>1 DEF RequestInv, Requests!TypeOK
    <3>2. /\ record[<<k>>].revision \in Nat
          /\ record[<<k>>].targets \in SUBSET Topics
      BY <3>1 DEF Requests!Record
    <3>3. /\ record[<<k>>].revision + 1 \in Nat /\ record[<<k>>].revision + 1 > 0
          /\ record[<<k>>].targets \cup {t} \in SUBSET Topics
          /\ record[<<k>>].targets \cup {t} # {}
      BY <3>2
    <3>4. /\ f \in Requests!Names \cup {NoFile}
          /\ q \in Questions \cup {NoFile}
      OBVIOUS
    <3> QED
      BY <3>1, <3>3, <3>4 DEF Requests!Record
  <2> HIDE DEF row
  <2>4. /\ DOMAIN record' = Requests!Ids
        /\ \A id \in Requests!Ids : record'[id] = IF id = <<k>> THEN row ELSE record[id]
    BY <2>1, <2>2 DEF RequestInv, Requests!TypeOK
  <2>5. ASSUME NEW id \in Requests!Ids
        PROVE  /\ record'[id] \in Requests!Record
               /\ Requests!Exists(id)' <=> record'[id].targets # {}
               /\ Requests!Exists(id) => Requests!Exists(id)'
               /\ Requests!Managed(id)' => /\ Requests!Managed(id)
                                           /\ record'[id].sync = record[id].sync
               /\ Len(id) = 3 => record'[id] = record[id]
    <3>1. CASE id = <<k>>
      BY <2>1, <2>3, <2>4, <3>1 DEF Requests!Exists, Requests!Managed, Requests!NotSynced
    <3>2. CASE id # <<k>>
      BY <2>4, <3>2 DEF RequestInv, Requests!TypeOK, Requests!Exists, Requests!Managed,
                        Requests!NotSynced
    <3> QED
      BY <3>1, <3>2
  <2>6. content' \in [Requests!Names -> Texts]
    BY <2>2 DEF RequestInv, Requests!TypeOK
  <2> QED
    BY <2>2, <2>4, <2>5, <2>6, ChangedRows
<1>4. ASSUME NEW k \in Numbers, Requests!ImportAnswer(k)
      PROVE  RequestInv'
  <2> DEFINE row == [record[<<k>>] EXCEPT !.sync = Requests!NotSynced]
  <2>1. <<k>> \in Requests!Ids /\ Len(<<k>>) = 1
    BY DEF Requests!Ids
  <2>2. /\ Requests!Change /\ content' = content
        /\ record' = [record EXCEPT ![<<k>>] = row]
    BY <1>4 DEF Requests!ImportAnswer
  <2>3. /\ row \in Requests!Record
        /\ row.revision = record[<<k>>].revision /\ row.targets = record[<<k>>].targets
        /\ row.sync = Requests!NotSynced
    <3>1. record[<<k>>] \in Requests!Record
      BY <2>1 DEF RequestInv, Requests!TypeOK
    <3>2. Requests!NotSynced \in Requests!FileSync
      BY RequestNames DEF Requests!NotSynced, Requests!FileSync
    <3> QED
      BY <3>1, <3>2 DEF Requests!Record
  <2> HIDE DEF row
  <2>4. /\ DOMAIN record' = Requests!Ids
        /\ \A id \in Requests!Ids : record'[id] = IF id = <<k>> THEN row ELSE record[id]
    BY <2>1, <2>2 DEF RequestInv, Requests!TypeOK
  <2>5. ASSUME NEW id \in Requests!Ids
        PROVE  /\ record'[id] \in Requests!Record
               /\ Requests!Exists(id)' <=> record'[id].targets # {}
               /\ Requests!Exists(id) => Requests!Exists(id)'
               /\ Requests!Managed(id)' => /\ Requests!Managed(id)
                                           /\ record'[id].sync = record[id].sync
               /\ Len(id) = 3 => record'[id] = record[id]
    <3>1. CASE id = <<k>>
      BY <2>1, <2>3, <2>4, <3>1 DEF Requests!Exists, Requests!Managed, Requests!NotSynced,
                                    RequestInv, Requests!TypeOK
    <3>2. CASE id # <<k>>
      BY <2>4, <3>2 DEF RequestInv, Requests!TypeOK, Requests!Exists, Requests!Managed,
                        Requests!NotSynced
    <3> QED
      BY <3>1, <3>2
  <2>6. content' \in [Requests!Names -> Texts]
    BY <2>2 DEF RequestInv, Requests!TypeOK
  <2> QED
    BY <2>2, <2>4, <2>5, <2>6, ChangedRows
<1>5. CASE UNCHANGED Requests!vars
  <2>1. /\ content' = content /\ record' = record /\ settled' = settled
        /\ changes' = changes
    BY <1>5 DEF Requests!vars
  <2>2. Requests!TypeOK'
    BY <2>1 DEF RequestInv, Requests!TypeOK, Requests!Exists
  <2>3. NoneTwice' /\ IdsInTurn'
    BY <2>1 DEF RequestInv, NoneTwice, IdsInTurn, Requests!Exists, Requests!Managed,
                Requests!NotSynced
  <2>4. \A p : Done(p)' <=> Done(p)
    <3>1. \A p : Requests!MayHaveNumber(p)' <=> Requests!MayHaveNumber(p)
      BY <2>1, SameItems
         DEF Requests!MayHaveNumber, Requests!Exists, Requests!Managed, Requests!NotSynced,
             Requests!IsOwn, Requests!IsLinked
    <3>2. \A p : Requests!IsClaimed(p)' <=> Requests!IsClaimed(p)
      BY <2>1, <3>1, SameItems DEF Requests!IsClaimed, Requests!Precedes
    <3>3. \A p : Requests!Identity(p)' = Requests!Identity(p)
      BY <2>1, <3>1, <3>2, SameItems DEF Requests!Identity
    <3>4. \A p, id : Requests!Unchanged(p, id)' <=> Requests!Unchanged(p, id)
      BY <2>1, SameItems
         DEF Requests!Unchanged, Requests!Exists, Requests!Managed, Requests!NotSynced,
             Requests!IsLinked
    <3> QED
      BY <3>3, <3>4 DEF Done
  <2>5. Requests!Items' = Requests!Items
    BY <2>1, SameItems
  <2> QED
    BY <2>1, <2>2, <2>3, <2>4, <2>5 DEF RequestInv
<1> QED
  BY <1>1, <1>2, <1>3, <1>4, <1>5 DEF Requests!Next

LEMMA RequestInvariant == Requests!Spec => []RequestInv
<1> QED
  BY RequestBegins, RequestFilesStep, PTL DEF Requests!Spec

\* The state of the request files is one of the shape the code keeps, a record is about
\* something once it is there, and a suffixed id belongs to the section that gave it.
THEOREM RequestTypeCorrect == Requests!Spec => []Requests!TypeOK
<1>1. RequestInv => Requests!TypeOK
  BY DEF RequestInv
<1> QED
  BY <1>1, RequestInvariant, PTL

\* After an apply no two sections share a record and the same apply again would write
\* nothing; and no section is ever kept in two records (request_files.py, apply).
THEOREM AppliesSettle == Requests!Spec => []ApplySettles
<1>1. RequestInv => ApplySettles
  <2> SUFFICES ASSUME RequestInv PROVE ApplySettles
    OBVIOUS
  <2>1. \A p, q \in Requests!Items : Requests!Identity(p) = Requests!Identity(q) => p = q
    BY IdentitiesApart DEF RequestInv
  <2>2. settled => \A p \in Requests!Items : Requests!Unchanged(p, Requests!Identity(p))
    BY DEF RequestInv, Done
  <2> QED
    BY <2>1, <2>2 DEF ApplySettles, Requests!ApplySettles, RequestInv, NoneTwice
<1> QED
  BY <1>1, RequestInvariant, PTL

-----------------------------------------------------------------------------
(* All parts.                                                               *)

\* Whatever each part does, its rows keep the shape the code gives them and what
\* TypesOK says of them: ideas and ventures, intakes, directions and request files.
THEOREM TypesCorrect ==
  Spec /\ Discovery!Spec /\ Intake!Spec /\ Direction!Spec /\ Requests!Spec => []TypesOK
  BY JudgingTypeCorrect, DiscoveryTypeCorrect, IntakeTypeCorrect, DirectionTypeCorrect,
     RequestTypeCorrect, PTL DEF TypesOK
=============================================================================
