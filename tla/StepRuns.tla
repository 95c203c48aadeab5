------------------------------ MODULE StepRuns ------------------------------
(***************************************************************************)
(* Bounded steps with a durable record (steps.py).                         *)
(*                                                                         *)
(* A call of start names a request key.  It creates a run and its work     *)
(* item, executes the step and records how it ended; an operator may mark  *)
(* a run as interrupted.  The transactions are plain UnitOfWork ones: what *)
(* a call reads, and what it writes from that, are two steps, and the      *)
(* version columns refuse a write whose row changed in between.  A process *)
(* may stop at any point of a call.                                        *)
(*                                                                         *)
(* Only _finish writes a run, and only once, so that the version of a run  *)
(* says no more than its status does.                                      *)
(***************************************************************************)
EXTENDS Naturals

CONSTANTS
  Keys,      \* request keys
  Subjects,  \* workspaces a step is about
  Callers,   \* processes that start steps or recover runs, several calls each
  NoRun,     \* no run has this key
  NoKey,     \* the caller has made no call
  TouchedTo, \* the statuses others give that work
  MaxTouches \* bound on how often others change the work of one run

VARIABLES
  run,     \* key -> its run, or NoRun
  work,    \* key -> the work item of its run
  touches, \* key -> how often others have changed that work
  call,    \* caller -> the call it makes or made last
  asked,   \* key -> how often the runner was asked to execute its run
  mapped   \* the workspaces that have a decision map

vars == <<run, work, touches, call, asked, mapped>>

Kinds        == {"brief", "agent"}  \* "readiness" is of the kind "brief" here
Outcomes     == {"succeeded", "blocked", "failed"}
WorkStatuses == {"todo", "ready", "in_progress", "blocked", "done", "cancelled"}
Places       == {"insert", "execute", "asking", "read", "write"}
Over         == {"replied", "refused", "unsaved"}

ASSUME TouchesAreNat == MaxTouches \in Nat
ASSUME TouchStatuses == TouchedTo \subseteq WorkStatuses
RunRow == [subject : Subjects, kind : Kinds, status : Outcomes \cup {"running"},
           by : Callers \cup {NoKey}]
WorkRow == [status : WorkStatuses, version : Nat]
Call == [key : Keys \cup {NoKey}, subject : Subjects \cup {NoKey},
         kind : Kinds \cup {"recover"}, runner : BOOLEAN,
         at : Places \cup Over \cup {"look", "stopped"},
         want : Outcomes \cup {"none"}, guarded : BOOLEAN, seen : WorkRow]

ASSUME RunNames == NoRun \notin RunRow

Running(k) == run[k] # NoRun /\ run[k].status = "running"
Ended(k)   == run[k] # NoRun /\ run[k].status # "running"

\* A row nobody has read or written yet.
Unread == [status |-> "todo", version |-> 0]

\* c is free to make a call.
Free(c) == call[c].at \in Over

\* c has created the run of key k and has neither ended nor left it.
Attends(c, k) ==
  /\ call[c].key = k /\ call[c].kind # "recover"
  /\ call[c].at \in {"execute", "asking", "read", "write"}

\* c goes on at another place of its call, with what it holds there.
Going(c, place, want, guarded, seen) ==
  [call EXCEPT ![c] = [key |-> @.key, subject |-> @.subject, kind |-> @.kind,
                       runner |-> @.runner, at |-> place,
                       want |-> want, guarded |-> guarded, seen |-> seen]]

Moved(c, place) == Going(c, place, call[c].want, call[c].guarded, call[c].seen)

\* Fault: the outcome is not passed on.
FinishingAsBefore(c, outcome, guarded) == Going(c, "read", call[c].want, guarded, Unread)

\* c goes on to record the outcome; guarded while an error can still be recorded.
Finishing(c, outcome, guarded) == Going(c, "read", outcome, guarded, Unread)

-----------------------------------------------------------------------------
(* start *)

\* Faults: any run is an answer to the call; a repeated key executes the run again.
AnswersAny(c) == Moved(c, "replied")
RunsAgain(c) ==
  IF Running(call[c].key) THEN Moved(c, "execute") ELSE Moved(c, "replied")

\* _same_request: the run of the key is the answer if it is of the same step.
SameRequest(c) ==
  LET r == run[call[c].key]
  IN  Moved(c, IF r.subject = call[c].subject /\ r.kind = call[c].kind
               THEN "replied" ELSE "refused")

\* A call that has read nothing yet; the process has an agent runner or not.
Begin(c, k, s, kind, runner) ==
  /\ Free(c)
  /\ call' = [call EXCEPT ![c] = [key |-> k, subject |-> s, kind |-> kind,
                                  runner |-> runner, at |-> "look", want |-> "none",
                                  guarded |-> TRUE, seen |-> Unread]]
  /\ UNCHANGED <<run, work, touches, asked, mapped>>

\* The first reads: a run with this key, and a map that rules out agent research.
Look(c) ==
  /\ call[c].at = "look"
  /\ call' = IF run[call[c].key] # NoRun THEN SameRequest(c)
             ELSE IF call[c].kind = "agent" /\ call[c].subject \in mapped
             THEN Moved(c, "refused")
             ELSE Moved(c, "insert")
  /\ UNCHANGED <<run, work, touches, asked, mapped>>

NewRun(c) == [subject |-> call[c].subject, kind |-> call[c].kind,
              status |-> "running", by |-> NoKey]

\* Fault: the key is not unique.
InsertAnyway(c) ==
  /\ call[c].at = "insert"
  /\ run' = [run EXCEPT ![call[c].key] = NewRun(c)]
  /\ work' = [work EXCEPT ![call[c].key] = [status |-> "in_progress", version |-> 1]]
  /\ call' = Moved(c, "execute")
  /\ UNCHANGED <<touches, asked, mapped>>

\* The key is unique: whoever inserts second gets the run of the first.
Insert(c) ==
  /\ call[c].at = "insert"
  /\ LET k == call[c].key IN
     IF run[k] = NoRun
     THEN /\ run' = [run EXCEPT ![k] = NewRun(c)]
          /\ work' = [work EXCEPT ![k] = [status |-> "in_progress", version |-> 1]]
          /\ call' = Moved(c, "execute")
     ELSE /\ call' = SameRequest(c)
          /\ UNCHANGED <<run, work>>
  /\ UNCHANGED <<touches, asked, mapped>>

\* The steps that need no runner, and agent research without one, which writes
\* a request file; each of them may fail.
Prepare(c) ==
  /\ call[c].at = "execute"
  /\ call[c].kind = "brief" \/ ~call[c].runner
  /\ \/ call' = Finishing(c, IF call[c].kind = "brief" THEN "succeeded" ELSE "blocked", TRUE)
     \/ call' = Finishing(c, "failed", FALSE)
  /\ UNCHANGED <<run, work, touches, asked, mapped>>

\* The runner is asked unless a map has come up since the first check.
Ask(c) ==
  /\ call[c].at = "execute"
  /\ call[c].kind = "agent" /\ call[c].runner
  /\ IF call[c].subject \in mapped
     THEN call' = Finishing(c, "failed", FALSE) /\ UNCHANGED asked
     ELSE /\ call' = Moved(c, "asking")
          /\ asked' = [asked EXCEPT ![call[c].key] = @ + 1]
  /\ UNCHANGED <<run, work, touches, mapped>>

\* Fault: an error of the runner goes straight to the caller.
AnswerOrRaise(c) ==
  /\ call[c].at = "asking"
  /\ call' \in {Finishing(c, "succeeded", TRUE), Moved(c, "refused")}
  /\ UNCHANGED <<run, work, touches, asked, mapped>>

\* The runner returns a draft, or it or its output is in error.
Answer(c) ==
  /\ call[c].at = "asking"
  /\ call' \in {Finishing(c, "succeeded", TRUE), Finishing(c, "failed", FALSE)}
  /\ UNCHANGED <<run, work, touches, asked, mapped>>

-----------------------------------------------------------------------------
(* _finish, by the call that runs the step or by the operator. *)

Read(c) ==
  /\ call[c].at = "read"
  /\ call' = IF Ended(call[c].key) THEN Moved(c, "replied")
             ELSE Going(c, "write", call[c].want, call[c].guarded, work[call[c].key])
  /\ UNCHANGED <<run, work, touches, asked, mapped>>

WorkAfter(outcome) == IF outcome = "succeeded" THEN "done" ELSE "blocked"

\* Fault: only the work row has a version.
WorkRowHolds(c) ==
  call[c].seen.status = WorkAfter(call[c].want) \/ work[call[c].key] = call[c].seen

\* Neither row has changed since it was read; a work item that has the status
\* already is not written, hence not compared.
RowsHold(c) ==
  /\ Running(call[c].key)
  /\ call[c].seen.status = WorkAfter(call[c].want) \/ work[call[c].key] = call[c].seen

Outcome(c) == [subject |-> run[call[c].key].subject, kind |-> run[call[c].key].kind,
               status |-> call[c].want, by |-> c]

FinishedWork(c) ==
  LET k == call[c].key
  IN  IF call[c].seen.status = WorkAfter(call[c].want) THEN work[k]
      ELSE [status |-> WorkAfter(call[c].want), version |-> work[k].version + 1]

\* Both rows are written, or neither: then a call that could not save its
\* outcome records a failure instead, once.
Write(c) ==
  /\ call[c].at = "write"
  /\ LET k == call[c].key IN
     IF RowsHold(c)
     THEN /\ run' = [run EXCEPT ![k] = Outcome(c)]
          /\ work' = [work EXCEPT ![k] = FinishedWork(c)]
          /\ call' = Moved(c, "replied")
     ELSE /\ call' = IF call[c].guarded THEN Finishing(c, "failed", FALSE)
                     ELSE Moved(c, "unsaved")
          /\ UNCHANGED <<run, work>>
  /\ UNCHANGED <<touches, asked, mapped>>

\* recover_interrupted
Recover(c, k) ==
  /\ Free(c)
  /\ run[k] # NoRun
  /\ call' = [call EXCEPT ![c] = [key |-> k, subject |-> run[k].subject, kind |-> "recover",
                                  runner |-> FALSE, at |-> "read", want |-> "failed", guarded |-> FALSE,
                                  seen |-> Unread]]
  /\ UNCHANGED <<run, work, touches, asked, mapped>>

-----------------------------------------------------------------------------
(* What happens around the calls. *)

\* The process of c is gone.
Stop(c) ==
  /\ call[c].at \notin Over \cup {"stopped"}
  /\ call' = Moved(c, "stopped")
  /\ UNCHANGED <<run, work, touches, asked, mapped>>

\* The work of a run is a work item like any other: revisions of the map treat
\* it, and the command line sets its status.
TouchWork(k, status) ==
  /\ run[k] # NoRun
  /\ touches[k] < MaxTouches
  /\ work' = [work EXCEPT ![k] = [status |-> status, version |-> @.version + 1]]
  /\ touches' = [touches EXCEPT ![k] = @ + 1]
  /\ UNCHANGED <<run, call, asked, mapped>>

RecordMap(s) ==
  /\ s \notin mapped
  /\ mapped' = mapped \cup {s}
  /\ UNCHANGED <<run, work, touches, call, asked>>

-----------------------------------------------------------------------------
NoCall == [key |-> NoKey, subject |-> NoKey, kind |-> "recover", runner |-> FALSE,
           at |-> "replied", want |-> "none", guarded |-> FALSE, seen |-> Unread]

Init ==
  /\ run = [k \in Keys |-> NoRun]
  /\ work = [k \in Keys |-> Unread]
  /\ touches = [k \in Keys |-> 0]
  /\ call = [c \in Callers |-> NoCall]
  /\ asked = [k \in Keys |-> 0]
  /\ mapped = {}

\* What a process does on its own once it has begun a call.
Proceed(c) ==
  \/ Look(c) \/ Insert(c) \/ Prepare(c) \/ Ask(c) \/ Answer(c)
  \/ Read(c) \/ Write(c)

Next ==
  \/ \E c \in Callers :
       \/ \E k \in Keys, s \in Subjects, kind \in Kinds, runner \in BOOLEAN :
            Begin(c, k, s, kind, runner)
       \/ \E k \in Keys : Recover(c, k)
       \/ Proceed(c)
       \/ Stop(c)
  \/ \E k \in Keys, status \in TouchedTo : TouchWork(k, status)
  \/ \E s \in Subjects : RecordMap(s)

Spec == Init /\ [][Next]_vars

\* A process that has not stopped goes on with its call; a runner has limits of
\* its own and answers.  Nobody is bound to call, to recover or to keep off.
FairSpec == Spec /\ \A c \in Callers : WF_vars(Proceed(c))

-----------------------------------------------------------------------------
(* Properties. *)

\* Runs, their work and the calls are well formed.
TypeOK ==
  /\ run \in [Keys -> RunRow \cup {NoRun}]
  /\ work \in [Keys -> WorkRow]
  /\ touches \in [Keys -> 0..MaxTouches]
  /\ call \in [Callers -> Call]
  /\ asked \in [Keys -> Nat]
  /\ mapped \subseteq Subjects
  /\ \A c \in Callers :
       /\ call[c].at \in {"look", "insert", "execute", "asking"} =>
            call[c].key \in Keys /\ call[c].subject \in Subjects /\ call[c].kind \in Kinds
       /\ call[c].at \in {"read", "write"} => call[c].key \in Keys /\ call[c].want \in Outcomes

\* The first outcome of a run stands: neither a late answer, nor a recovery,
\* nor a repeated request ever replaces it (steps.py, _finish).
FirstOutcomeStands ==
  [][\A k \in Keys : Ended(k) => run'[k] = run[k]]_vars

\* However often and by however many processes a key is submitted, the runner
\* is asked once at most to execute its run (steps.py, start).
RunnerAskedOnce == \A k \in Keys : asked[k] <= 1

\* A call is answered with a run only if it is a run of the step it asked for,
\* also when another process has created it meanwhile (steps.py, _same_request).
ReplyIsOfTheRequest ==
  \A c \in Callers :
    (call[c].at = "replied" /\ call[c].kind # "recover") =>
       /\ run[call[c].key].subject = call[c].subject
       /\ run[call[c].key].kind = call[c].kind

\* A run that its process has left stays visible as running until an operator
\* marks it interrupted; a retry or another process never completes it
\* (steps.py, start and recover_interrupted).
Unattended(k) == Running(k) /\ \A c \in Callers : ~Attends(c, k)

InterruptedStaysVisible ==
  [][\A k \in Keys : Unattended(k) =>
        \/ Unattended(k)'
        \/ /\ run'[k].status = "failed"
           /\ call[run'[k].by].kind = "recover"]_vars

\* A run ends that a process is at work on, unless that process stops or, twice
\* in a row, finds the rows changed under it (steps.py, start and _finish).
Leaves(c, k) == call[c].key = k /\ call[c].at \in {"stopped", "unsaved"}

EveryRunEnds ==
  \A c \in Callers, k \in Keys : Attends(c, k) ~> (Ended(k) \/ Leaves(c, k))

=============================================================================
