----------------------------- MODULE HumanInputs -----------------------------
(***************************************************************************)
(* Questions to a person, the answers, and their review (human_inputs.py,  *)
(* and the definitions that request_files.py writes).                      *)
(*                                                                         *)
(* A request has a definition revision, a status and a sequence of saved   *)
(* replies; the last reply is the current one.  Saving a reply queues one  *)
(* review work item for it; a reviewer claims that work and completes it   *)
(* with an outcome.  A sufficient review may satisfy dependencies of work  *)
(* that is blocked on a person.  Both kinds of work are ordinary work, so  *)
(* the general operations on work move them as well, without a look at the *)
(* request: claims, releases, closures and accepted results of             *)
(* agent_handoffs.py, treatments of a map revision (decision_maps.py) and  *)
(* a status set by hand (application.py).                                  *)
(*                                                                         *)
(* Every operation is one transaction that takes the write lock first,     *)
(* hence one step.  A caller whose expected version is out of date is      *)
(* refused; the actions are the calls that are not.  A repeated submission *)
(* key returns the earlier receipt and changes nothing.  The file sync     *)
(* works from a preview that it took in an earlier step.                   *)
(***************************************************************************)
EXTENDS Naturals, Sequences, FiniteSets

CONSTANTS
  Requests,        \* ids of the questions
  FileRequests,    \* requests registered with a source file for the answer
  SectionRequests, \* requests whose definition a request-file sync manages
  Works,           \* work items that may wait for a person
  Actors,          \* reviewers
  Texts,           \* answers, told apart by their text
  NoText,          \* the file holds no answer
  NoPreview,       \* no file preview has been taken
  NotLinked,       \* the work item does not depend on the request
  MaxReplies,      \* bound on the replies to one request
  MaxRevisions     \* bound on the definition revisions of one request

VARIABLES
  request,  \* request -> [status, revision]
  reply,    \* request -> sequence of replies with the state of their review
  dep,      \* request -> work item -> [by, other] or NotLinked
  blocked,  \* work item -> "blocked" (on a person), "done" or "other"
  sufficient, \* request -> the replies that a finished review found sufficient
  verdict,  \* request -> the reply and outcome of its last review (review_artifact_id)
  lastFile, \* request -> the file answer handled last (source_diagnostics)
  file,     \* request -> the answer its source file holds
  preview   \* the file preview the operator holds

vars == <<request, reply, dep, blocked, sufficient, verdict, lastFile, file, preview>>

Queue    == "agent"  \* the owner of unclaimed review work
Reviewed == {"resolved", "needs_clarification", "deferred"}
Statuses == {"waiting_for_answer", "ready_for_review", "reviewing"} \cup Reviewed
Outcomes == {"sufficient", "partial", "deferred", "no_change"}
Active     == {"todo", "ready", "in_progress", "blocked"}
WorkStates == Active \cup {"done", "cancelled"}
Held       == {"blocked", "done", "other"}
Owners     == Actors \cup {Queue}

ASSUME InputBoundsAreNat == MaxReplies \in Nat /\ MaxRevisions \in Nat \ {0}
ASSUME FileOrSection ==
  /\ FileRequests \cup SectionRequests \subseteq Requests
  /\ FileRequests \cap SectionRequests = {}
\* The rows: a request with its wording, an answer with its review work, a
\* dependency of blocked work, a line of the file preview.
Definition == [status : Statuses \cup {"absent"}, revision : 0..MaxRevisions]
Reply == [text : Texts, source : {"ui", "file"}, revision : 1..MaxRevisions,
          status : WorkStates, owner : Owners]
Dependency == [by : 0..MaxReplies, other : BOOLEAN]
Open(other) == [by |-> 0, other |-> other]
Verdict == [of : 0..MaxReplies, outcome : Outcomes \cup {"none"}]
Line == [text : Texts \cup {NoText}, base : 0..MaxReplies,
         diagnostic : {"empty", "unchanged", "unsynced", "conflict"}]
Preview == [row : [FileRequests -> Line], moved : SUBSET FileRequests]

ASSUME InputNamesDistinct ==
  NoText \notin Texts /\ NotLinked \notin Dependency

Exists(r)  == request[r].status # "absent"
Current(r) == Len(reply[r])  \* 0 when there is no reply yet

\* The reply answers the question as it is worded now.
AnswersQuestion(r, n) == reply[r][n].revision = request[r].revision

-----------------------------------------------------------------------------
(* Helpers of the operations. *)

\* The row of every request in R gets a new version: a preview of it is out of date.
Touch(R) ==
  preview' = IF preview = NoPreview THEN preview
             ELSE [row |-> preview.row, moved |-> preview.moved \cup (R \cap FileRequests)]

\* The request with another status, and as it was otherwise.
InStatus(d, status) == [status |-> status, revision |-> d.revision]
Shows(r, status)    == [request EXCEPT ![r] = InStatus(request[r], status)]

\* The answer with its review work in another state.
Taken(answer, status, owner) ==
  [text |-> answer.text, source |-> answer.source, revision |-> answer.revision,
   status |-> status, owner |-> owner]

\* _invalidate_dependencies: nothing linked to r counts as answered.
Opened(links) ==
  [w \in Works |-> IF links[w] # NotLinked THEN Open(links[w].other) ELSE links[w]]
Invalidated(r) == [dep EXCEPT ![r] = Opened(dep[r])]

\* A newer reply cancels the review of the current one unless it has begun.
Superseded(s) ==
  [n \in DOMAIN s |-> IF n = Len(s) /\ s[n].status = "ready"
                      THEN Taken(s[n], "cancelled", s[n].owner) ELSE s[n]]

Saved(r, text, source) ==
  Append(Superseded(reply[r]),
         [text |-> text, source |-> source, revision |-> request[r].revision,
          status |-> "ready", owner |-> Queue])

\* The current reply has this text already and answers this question.
AlreadySaved(r, text) ==
  Current(r) > 0 /\ reply[r][Current(r)].text = text /\ AnswersQuestion(r, Current(r))

-----------------------------------------------------------------------------
(* Questions and dependencies. *)

Create(r) ==
  /\ ~Exists(r)
  /\ request' = [request EXCEPT ![r] = [status |-> "waiting_for_answer", revision |-> 1]]
  /\ UNCHANGED <<reply, dep, blocked, sufficient, verdict, lastFile, file, preview>>

\* register with another definition: a new revision that nobody has answered.
Redefine(r) ==
  /\ Exists(r)
  /\ request[r].revision < MaxRevisions
  /\ request' = [request EXCEPT ![r] = [status |-> "waiting_for_answer",
                                        revision |-> request[r].revision + 1]]
  /\ dep' = Invalidated(r)
  /\ Touch({r})
  /\ UNCHANGED <<reply, blocked, sufficient, verdict, lastFile, file>>

\* _write: the section of a request file is worded differently.  Unlike
\* register it leaves the status and the dependencies alone.
SectionChanges(r) ==
  /\ Exists(r)
  /\ request[r].revision < MaxRevisions
  /\ request' = [request EXCEPT ![r] = [status   |-> request[r].status,
                                        revision |-> request[r].revision + 1]]
  /\ UNCHANGED <<reply, dep, blocked, sufficient, verdict, lastFile, file, preview>>

\* Fault: any work can be linked, also work that no person holds up.
LinkAnyWork(r, w, other) ==
  /\ Exists(r)
  /\ dep[r][w] = NotLinked
  /\ dep' = [dep EXCEPT ![r] = [dep[r] EXCEPT ![w] = Open(other)]]
  /\ Touch({r})
  /\ UNCHANGED <<request, reply, blocked, sufficient, verdict, lastFile, file>>

LinkDependency(r, w, other) ==
  /\ Exists(r)
  /\ blocked[w] = "blocked"
  /\ dep[r][w] = NotLinked
  /\ dep' = [dep EXCEPT ![r] = [dep[r] EXCEPT ![w] = Open(other)]]
  /\ Touch({r})
  /\ UNCHANGED <<request, reply, blocked, sufficient, verdict, lastFile, file>>

\* The general operations move work that waits, or waited, for a person like any
\* other work: it is closed, cancelled, finished, or blocked again for its old reason.
MoveHeldWork(w, state) ==
  /\ blocked[w] # state
  /\ blocked' = [blocked EXCEPT ![w] = state]
  /\ UNCHANGED <<request, reply, dep, sufficient, verdict, lastFile, file, preview>>

-----------------------------------------------------------------------------
(* Answers and reviews. *)

Submit(r, text) ==
  /\ Exists(r)
  /\ Current(r) < MaxReplies
  /\ ~AlreadySaved(r, text)
  /\ reply' = [reply EXCEPT ![r] = Saved(r, text, "ui")]
  /\ request' = Shows(r, "ready_for_review")
  /\ dep' = Invalidated(r)
  /\ Touch({r})
  /\ UNCHANGED <<blocked, sufficient, verdict, lastFile, file>>

Handed(r, n, status, owner) ==
  [reply EXCEPT ![r] = [@ EXCEPT ![n] = Taken(reply[r][n], status, owner)]]

Claimed(r, n, a) == Handed(r, n, "in_progress", a)

Requeued(r, n) == Handed(r, n, "ready", Queue)
Reviewing(r, n, a) == reply[r][n].status = "in_progress" /\ reply[r][n].owner = a

\* HumanInputService.claim
Claim(r, a) ==
  /\ request[r].status = "ready_for_review"
  /\ Current(r) > 0
  /\ reply[r][Current(r)].status = "ready"
  /\ reply' = Claimed(r, Current(r), a)
  /\ request' = Shows(r, "reviewing")
  /\ Touch({r})
  /\ UNCHANGED <<dep, blocked, sufficient, verdict, lastFile, file>>

\* HumanInputService.release; the review of an older reply goes back to the
\* queue as well, without any effect on the request.
Release(r, n, a) ==
  /\ Reviewing(r, n, a)
  /\ reply' = Requeued(r, n)
  /\ IF n = Current(r)
     THEN /\ request' = Shows(r, "ready_for_review")
          /\ Touch(IF request[r].status = "ready_for_review" THEN {} ELSE {r})
     ELSE UNCHANGED <<request, preview>>
  /\ UNCHANGED <<dep, blocked, sufficient, verdict, lastFile, file>>

\* The general operations know nothing of the request; apart from a claim and a
\* release they leave the owner as it is.
MoveReview(r, n, status, owner) ==
  /\ reply' = Handed(r, n, status, owner)
  /\ UNCHANGED <<request, dep, blocked, sufficient, verdict, lastFile, file, preview>>

ClaimAsWork(r, n, a) ==
  /\ reply[r][n].status \in {"ready", "todo"}
  /\ MoveReview(r, n, "in_progress", a)

ReleaseAsWork(r, n, a) ==
  /\ Reviewing(r, n, a)
  /\ MoveReview(r, n, "ready", Queue)

\* close_work
CloseAsWork(r, n) ==
  /\ reply[r][n].status \in Active \ {"in_progress"}
  /\ MoveReview(r, n, "cancelled", reply[r][n].owner)

\* An accepted result that says its work is complete.
FinishAsWork(r, n) ==
  /\ reply[r][n].status \in Active
  /\ MoveReview(r, n, "done", reply[r][n].owner)

\* A treatment of a map revision pauses or cancels active work, or lets paused
\* work go on.
TreatWork(r, n, status) ==
  /\ reply[r][n].status \in Active
  /\ status = "ready" => reply[r][n].status = "blocked"
  /\ MoveReview(r, n, status, reply[r][n].owner)

\* set_work_item_status: any status at any time; only blocked work is not started.
SetWorkStatus(r, n, status) ==
  /\ status \in {"ready", "in_progress"} => reply[r][n].status # "blocked"
  /\ MoveReview(r, n, status, reply[r][n].owner)

\* Fault: the wording is not compared.
IsLastReply(r, n) == n = Current(r)
IsCurrent(r, n) == n = Current(r) /\ AnswersQuestion(r, n)

Met(links, closes, n) ==
  [w \in Works |-> IF w \in closes THEN [by |-> n, other |-> links[w].other] ELSE links[w]]
Satisfied(r, n, closes) == [dep EXCEPT ![r] = Met(dep[r], closes, n)]

Cleared(d, w) ==
  \A r \in Requests : d[r][w] # NotLinked => d[r][w].by > 0 /\ ~d[r][w].other

Found(found, n, outcome) == IF outcome = "sufficient" THEN found \cup {n} ELSE found

StatusAfter(outcome) ==
  CASE outcome \in {"sufficient", "no_change"} -> "resolved"
    [] outcome = "partial"  -> "needs_clarification"
    [] outcome = "deferred" -> "deferred"

\* A review of anything but the current answer is kept and moves nothing.
\* closes: the blocked work whose dependency on r the review satisfies.
Complete(r, n, a, outcome, closes) ==
  /\ Reviewing(r, n, a)
  /\ closes # {} => IsCurrent(r, n) /\ outcome = "sufficient"
  /\ \A w \in closes : blocked[w] = "blocked" /\ dep[r][w] # NotLinked
  /\ reply' = Handed(r, n, "done", a)
  /\ dep' = Satisfied(r, n, closes)
  /\ blocked' = [w \in Works |-> IF w \in closes /\ Cleared(dep', w)
                                 THEN "done" ELSE blocked[w]]
  /\ sufficient' = [sufficient EXCEPT ![r] = Found(@, n, outcome)]
  /\ IF IsCurrent(r, n)
     THEN /\ request' = Shows(r, StatusAfter(outcome))
          /\ verdict' = [verdict EXCEPT ![r] = [of |-> n, outcome |-> outcome]]
          /\ Touch({r})
     ELSE UNCHANGED <<request, verdict, preview>>
  /\ UNCHANGED <<lastFile, file>>

-----------------------------------------------------------------------------
(* Answers in files. *)

EditFile(r, text) ==
  /\ file[r] # text
  /\ file' = [file EXCEPT ![r] = text]
  /\ UNCHANGED <<request, reply, dep, blocked, sufficient, verdict, lastFile, preview>>

\* The file's answer set against the current one.
Compared(r) ==
  LET last == reply[r][Current(r)]
  IN  IF Current(r) = 0 THEN "unsynced"
      ELSE IF last.text = file[r] THEN "unchanged"
      ELSE IF last.source = "ui" THEN "conflict" ELSE "unsynced"

\* Fault: the file is compared with the last file before it is found empty.
DiagnosticByLastFile(r) ==
  IF file[r] = lastFile[r] THEN "unchanged"
  ELSE IF file[r] = NoText THEN "empty" ELSE Compared(r)
Diagnostic(r) ==
  IF file[r] = NoText THEN "empty"
  ELSE IF file[r] = lastFile[r] THEN "unchanged" ELSE Compared(r)

\* One row per registered file; base is the reply the row was compared with.
PreviewFiles ==
  /\ FileRequests # {} /\ \A r \in FileRequests : Exists(r)
  /\ preview' = [row   |-> [r \in FileRequests |-> [text |-> file[r], base |-> Current(r),
                                                    diagnostic |-> Diagnostic(r)]],
                 moved |-> {}]
  /\ UNCHANGED <<request, reply, dep, blocked, sufficient, verdict, lastFile, file>>

Shown(d) == {r \in FileRequests : preview.row[r].diagnostic = d}

\* Fault: the versions of the rows are not compared.
FilesUnchanged == \A r \in FileRequests \ Shown("empty") : file[r] = preview.row[r].text
\* No file and no request row changed since the preview, as compared inside the
\* transaction.  Rows without an answer are compared only before it, so that
\* such a row may still change in between.
PreviewHolds ==
  \A r \in FileRequests \ Shown("empty") :
    file[r] = preview.row[r].text /\ r \notin preview.moved

\* The rows whose file answer becomes a reply, and those that keep the console's.
Imports(choice) ==
  Shown("unsynced") \cup (IF choice = "use_file" THEN Shown("conflict") ELSE {})
Kept(choice) == IF choice = "keep_ui" THEN Shown("conflict") ELSE {}

\* sync: all rows of the preview in one transaction.
Sync(choice) ==
  /\ preview # NoPreview
  /\ PreviewHolds
  /\ Shown("conflict") # {} => choice # "none"
  /\ \A r \in Imports(choice) : Current(r) < MaxReplies
  /\ reply' = [r \in Requests |->
                 IF r \in Imports(choice) THEN Saved(r, file[r], "file") ELSE reply[r]]
  /\ request' = [r \in Requests |-> IF r \in Imports(choice)
                                    THEN InStatus(request[r], "ready_for_review")
                                    ELSE request[r]]
  /\ dep' = [r \in Requests |-> IF r \in Imports(choice) THEN Opened(dep[r]) ELSE dep[r]]
  /\ lastFile' = [r \in FileRequests |->
                    IF r \in Imports(choice) \cup Kept(choice) THEN file[r] ELSE lastFile[r]]
  /\ Touch(Imports(choice) \cup Kept(choice))
  /\ UNCHANGED <<blocked, sufficient, verdict, file>>

-----------------------------------------------------------------------------
Init ==
  /\ request = [r \in Requests |-> [status |-> "absent", revision |-> 0]]
  /\ reply = [r \in Requests |-> <<>>]
  /\ dep = [r \in Requests |-> [w \in Works |-> NotLinked]]
  /\ blocked = [w \in Works |-> "blocked"]
  /\ sufficient = [r \in Requests |-> {}]
  /\ verdict = [r \in Requests |-> [of |-> 0, outcome |-> "none"]]
  /\ lastFile = [r \in FileRequests |-> NoText]
  /\ file = [r \in FileRequests |-> NoText]
  /\ preview = NoPreview

QuestionStep ==
  \/ \E r \in Requests : Create(r) \/ Redefine(r)
  \/ \E r \in SectionRequests : SectionChanges(r)
  \/ \E r \in Requests, w \in Works, other \in BOOLEAN : LinkDependency(r, w, other)

AnswerStep == \E r \in Requests, text \in Texts : Submit(r, text)

\* Nothing keeps a caller from the name of the queue.
ReviewStep ==
  \E r \in Requests, a \in Owners :
    \/ Claim(r, a)
    \/ \E n \in 1..Current(r) :
         \/ Release(r, n, a)
         \/ \E o \in Outcomes, closes \in SUBSET Works : Complete(r, n, a, o, closes)

WorkStep ==
  \/ \E w \in Works, state \in Held : MoveHeldWork(w, state)
  \/ \E r \in Requests : \E n \in 1..Current(r) :
       \/ \E a \in Owners : ClaimAsWork(r, n, a) \/ ReleaseAsWork(r, n, a)
       \/ CloseAsWork(r, n) \/ FinishAsWork(r, n)
       \/ \E status \in {"blocked", "ready", "cancelled"} : TreatWork(r, n, status)
       \/ \E status \in WorkStates : SetWorkStatus(r, n, status)

FileStep ==
  \/ \E r \in FileRequests, t \in Texts \cup {NoText} : EditFile(r, t)
  \/ PreviewFiles
  \/ \E choice \in {"none", "keep_ui", "use_file"} : Sync(choice)

Next == AnswerStep \/ ReviewStep \/ QuestionStep \/ WorkStep \/ FileStep

Spec == Init /\ [][Next]_vars

-----------------------------------------------------------------------------
(* Properties. *)

\* Every row is well formed, a dependency is satisfied by a reply that was
\* saved, a verdict is about a saved reply, a reply belongs to a revision the
\* request has had, and a line of the preview that has anything to say shows an
\* answer.
TypeOK ==
  /\ request \in [Requests -> Definition]
  /\ reply \in [Requests -> Seq(Reply)]
  /\ dep \in [Requests -> [Works -> Dependency \cup {NotLinked}]]
  /\ blocked \in [Works -> Held]
  /\ sufficient \in [Requests -> SUBSET (1..MaxReplies)]
  /\ verdict \in [Requests -> Verdict]
  /\ lastFile \in [FileRequests -> Texts \cup {NoText}]
  /\ file \in [FileRequests -> Texts \cup {NoText}]
  /\ preview \in Preview \cup {NoPreview}
  /\ \A r \in Requests :
       /\ Exists(r) <=> request[r].revision > 0
       /\ Current(r) <= MaxReplies
       /\ \A n \in 1..Current(r) : reply[r][n].revision <= request[r].revision
       /\ sufficient[r] \subseteq 1..Current(r)
       /\ verdict[r].of <= Current(r)
       /\ \A w \in Works : dep[r][w] # NotLinked => dep[r][w].by <= Current(r)
  /\ preview # NoPreview =>
       \A r \in FileRequests : preview.row[r].diagnostic # "empty" => preview.row[r].text # NoText

\* A dependency that counts as answered was answered by the current reply,
\* which a review found sufficient, and (unless a request-file sync manages the
\* wording) the reply answers the question as it is worded now.  The general
\* operations may reopen the work of that review: a second review of the same
\* answer, whatever its outcome, leaves the dependency answered.
SatisfiedByCurrentAnswer ==
  \A r \in Requests, w \in Works :
    (dep[r][w] # NotLinked /\ dep[r][w].by > 0) =>
      /\ dep[r][w].by = Current(r)
      /\ Current(r) \in sufficient[r]
      /\ r \notin SectionRequests => AnswersQuestion(r, Current(r))

\* The outcome a request shows is that of the last review of its current reply;
\* a reply that arrived since, or a question revised since, takes it back.
OutcomeIsOfCurrentAnswer ==
  \A r \in Requests : request[r].status \in Reviewed =>
    /\ Current(r) > 0 /\ verdict[r].of = Current(r)
    /\ request[r].status = StatusAfter(verdict[r].outcome)
    /\ r \notin SectionRequests => AnswersQuestion(r, Current(r))

\* A request waits for an answer only while its question has none, so that a
\* person is never asked again for what they answered.
WaitsOnlyUnanswered ==
  \A r \in Requests :
    (request[r].status = "waiting_for_answer" /\ Current(r) > 0) => ~AnswersQuestion(r, Current(r))

\* What a request says of itself, and what is taken to be answered by it, are
\* always about its current answer, in whatever order answers, reviews, new
\* wordings and files arrive: a review of anything older moves none of it.
CurrentAnswerCounts ==
  /\ SatisfiedByCurrentAnswer
  /\ OutcomeIsOfCurrentAnswer
  /\ WaitsOnlyUnanswered

\* What a file sync saves is what its preview showed: the same answer, set
\* against the same reply, however the files and the requests moved meanwhile.
SyncSavesWhatWasShown ==
  [][\A r \in FileRequests :
       (Len(reply'[r]) > Current(r) /\ reply'[r][Len(reply'[r])].source = "file")
         => /\ preview.row[r].text = reply'[r][Len(reply'[r])].text
            /\ preview.row[r].base = Current(r)]_vars

\* The gate of InputGate, put together from the questions of a work item.
GateOf(w) ==
  LET linked == {r \in Requests : dep[r][w] # NotLinked}
  IN  IF linked = {} THEN "none" ELSE IF Cleared(dep, w) THEN "met" ELSE "open"
StateOf(w) ==
  CASE blocked[w] = "blocked" -> "held"
    [] blocked[w] = "done"    -> "finished"
    [] OTHER -> "other"

Gates  == [w \in Works |-> GateOf(w)]
States == [w \in Works |-> StateOf(w)]

Gate == INSTANCE InputGate WITH gate <- Gates, state <- States

\* The service keeps the promise of InputGate.
ImplementsGate == Gate!Spec

\* "Corrections/revised questions invalidate satisfaction" (DEVELOPMENT.md),
\* also for questions a request-file sync revises.
RevisionInvalidatesSatisfaction ==
  \A r \in Requests, w \in Works :
    (dep[r][w] # NotLinked /\ dep[r][w].by > 0) => AnswersQuestion(r, dep[r][w].by)

\* "Do not reinterpret an old answer as answering a newly changed question":
\* an answer is put up for review only as an answer to the current wording.
OldAnswerIsNotReviewedAsNew ==
  \A r \in Requests :
    request[r].status = "ready_for_review" => AnswersQuestion(r, Current(r))

=============================================================================
