--------------------------- MODULE StepRunsProofs ---------------------------
(***************************************************************************)
(* The safety of step runs, for any number of keys, subjects and callers.  *)
(***************************************************************************)
EXTENDS StepRuns, TLAPS

\* What holds of the call that c makes: it is of a run that exists once there is
\* one, a run that c itself created or was answered with is of the step that c
\* asked for, and a run that c is about to execute has not been executed.
Fine(c) ==
  /\ call[c].at \in {"read", "write"} =>
       /\ run[call[c].key] # NoRun
       /\ call[c].kind = "recover" => call[c].want = "failed"
  /\ call[c].at \in {"execute", "asking", "read", "write", "replied"} /\ call[c].kind # "recover" =>
       /\ call[c].key \in Keys
       /\ run[call[c].key] # NoRun
       /\ run[call[c].key].subject = call[c].subject
       /\ run[call[c].key].kind = call[c].kind
  /\ call[c].at = "execute" => asked[call[c].key] = 0

Executes(c) == call[c].at \in {"execute", "asking"}

\* A run is executed by one caller only.
OneExecutor ==
  \A c, d \in Callers : (Executes(c) /\ Executes(d) /\ call[c].key = call[d].key) => c = d

NotAskedBefore == \A k \in Keys : run[k] = NoRun => asked[k] = 0

Inv ==
  /\ TypeOK
  /\ \A c \in Callers : Fine(c)
  /\ OneExecutor
  /\ NotAskedBefore
  /\ RunnerAskedOnce

\* The conjunct of TypeOK about one call.
Known(c) ==
  /\ call[c].at \in {"look", "insert", "execute", "asking"} =>
       call[c].key \in Keys /\ call[c].subject \in Subjects /\ call[c].kind \in Kinds
  /\ call[c].at \in {"read", "write"} => call[c].key \in Keys /\ call[c].want \in Outcomes

-----------------------------------------------------------------------------
(* Calls. *)

\* Going on changes the place, and what is held there, of one call.
LEMMA GoingFacts ==
  ASSUME TypeOK, NEW c \in Callers, NEW place \in Places \cup Over \cup {"look", "stopped"},
         NEW want \in Outcomes \cup {"none"}, NEW guarded \in BOOLEAN, NEW seen \in WorkRow,
         call' = Going(c, place, want, guarded, seen)
  PROVE  /\ call' \in [Callers -> Call]
         /\ \A d \in Callers \ {c} : call'[d] = call[d]
         /\ call'[c].at = place
         /\ call'[c].key = call[c].key
         /\ call'[c].subject = call[c].subject
         /\ call'[c].kind = call[c].kind
         /\ call'[c].want = want
<1> DEFINE new == [key |-> call[c].key, subject |-> call[c].subject, kind |-> call[c].kind,
                   runner |-> call[c].runner, at |-> place,
                   want |-> want, guarded |-> guarded, seen |-> seen]
<1>1. call \in [Callers -> Call]
  BY DEF TypeOK
<1>2. call' = [call EXCEPT ![c] = new]
  BY DEF Going
<1>3. call[c] \in Call
  BY <1>1
<1>4. new \in Call
  BY <1>3 DEF Call
<1>5. call'[c] = new
  BY <1>1, <1>2
<1> QED
  BY <1>1, <1>2, <1>4, <1>5

\* So does moving on with what the call holds already.
LEMMA MovedFacts ==
  ASSUME TypeOK, NEW c \in Callers, NEW place \in Places \cup Over \cup {"look", "stopped"},
         call' = Moved(c, place)
  PROVE  /\ call' \in [Callers -> Call]
         /\ \A d \in Callers \ {c} : call'[d] = call[d]
         /\ call'[c].at = place
         /\ call'[c].key = call[c].key
         /\ call'[c].subject = call[c].subject
         /\ call'[c].kind = call[c].kind
         /\ call'[c].want = call[c].want
<1>1. call[c] \in Call
  BY DEF TypeOK
<1>2. /\ call[c].want \in Outcomes \cup {"none"}
      /\ call[c].guarded \in BOOLEAN
      /\ call[c].seen \in WorkRow
  BY <1>1 DEF Call
<1>3. call' = Going(c, place, call[c].want, call[c].guarded, call[c].seen)
  BY DEF Moved
<1> QED
  BY <1>2, <1>3, GoingFacts

\* A call that goes on without touching a run, and without starting to execute
\* one, keeps the invariant when it is fine afterwards.
LEMMA MoveStep ==
  ASSUME Inv, NEW c \in Callers,
         UNCHANGED <<run, asked, touches, mapped>>,
         work' \in [Keys -> WorkRow],
         call' \in [Callers -> Call],
         \A d \in Callers \ {c} : call'[d] = call[d],
         call'[c].at \notin {"execute", "asking"},
         Known(c)', Fine(c)'
  PROVE  Inv'
<1>1. TypeOK'
  <2>1. \A d \in Callers : Known(d)'
    BY DEF Inv, TypeOK, Known
  <2> QED
    BY <2>1 DEF Inv, TypeOK, Known
<1>2. \A d \in Callers : Fine(d)'
  BY DEF Inv, Fine
<1>3. OneExecutor'
  BY DEF Inv, OneExecutor, Executes
<1>4. NotAskedBefore' /\ RunnerAskedOnce'
  BY DEF Inv, NotAskedBefore, RunnerAskedOnce
<1> QED
  BY <1>1, <1>2, <1>3, <1>4 DEF Inv

\* The answer to a repeated key is of the step that was asked for, or refused.
LEMMA SameRequestFacts ==
  ASSUME Inv, NEW c \in Callers, call[c].key \in Keys, run[call[c].key] # NoRun,
         call' = SameRequest(c), UNCHANGED run, UNCHANGED asked
  PROVE  /\ call' \in [Callers -> Call]
         /\ \A d \in Callers \ {c} : call'[d] = call[d]
         /\ call'[c].at \in {"replied", "refused"}
         /\ Known(c)' /\ Fine(c)'
<1> DEFINE same == /\ run[call[c].key].subject = call[c].subject
                   /\ run[call[c].key].kind = call[c].kind
           place == IF same THEN "replied" ELSE "refused"
<1>1. call' = Moved(c, place)
  BY DEF SameRequest
<1>2. place \in {"replied", "refused"}
  OBVIOUS
<1>3. place = "replied" => same
  OBVIOUS
<1> HIDE DEF place
<1>4. /\ call' \in [Callers -> Call]
      /\ \A d \in Callers \ {c} : call'[d] = call[d]
      /\ call'[c].at = place
      /\ call'[c].key = call[c].key
      /\ call'[c].subject = call[c].subject
      /\ call'[c].kind = call[c].kind
  BY <1>1, <1>2, MovedFacts DEF Inv, Over
<1>5. Known(c)'
  BY <1>2, <1>4 DEF Known
<1>6. Fine(c)'
  BY <1>2, <1>3, <1>4 DEF Fine
<1> QED
  BY <1>2, <1>4, <1>5, <1>6

-----------------------------------------------------------------------------
(* One step of each kind. *)

\* A call begins with nothing read.
LEMMA BeginStep ==
  ASSUME Inv, NEW c \in Callers, NEW k \in Keys, NEW s \in Subjects, NEW kind \in Kinds,
         NEW runner \in BOOLEAN, Begin(c, k, s, kind, runner)
  PROVE  Inv'
<1> DEFINE new == [key |-> k, subject |-> s, kind |-> kind, runner |-> runner,
                   at |-> "look", want |-> "none", guarded |-> TRUE, seen |-> Unread]
<1>1. call \in [Callers -> Call]
  BY DEF Inv, TypeOK
<1>2. call' = [call EXCEPT ![c] = new]
  BY DEF Begin
<1>3. new \in Call
  BY DEF Call, Unread, WorkRow, WorkStatuses
<1>4. call' \in [Callers -> Call] /\ call'[c] = new /\ \A d \in Callers \ {c} : call'[d] = call[d]
  BY <1>1, <1>2, <1>3
<1>5. Known(c)' /\ Fine(c)' /\ call'[c].at \notin {"execute", "asking"}
  BY <1>4 DEF Known, Fine
<1>6. UNCHANGED <<run, asked, touches, mapped>> /\ work' \in [Keys -> WorkRow]
  BY DEF Begin, Inv, TypeOK
<1> QED
  BY <1>4, <1>5, <1>6, MoveStep

\* An operator's call names a run that exists.
LEMMA RecoverStep ==
  ASSUME Inv, NEW c \in Callers, NEW k \in Keys, Recover(c, k)
  PROVE  Inv'
<1> DEFINE new == [key |-> k, subject |-> run[k].subject, kind |-> "recover", runner |-> FALSE,
                   at |-> "read", want |-> "failed", guarded |-> FALSE, seen |-> Unread]
<1>1. call \in [Callers -> Call] /\ run[k] \in RunRow /\ run[k] # NoRun
  BY DEF Inv, TypeOK, Recover
<1>2. call' = [call EXCEPT ![c] = new]
  BY DEF Recover
<1>3. new \in Call
  BY <1>1 DEF Call, Unread, WorkRow, WorkStatuses, RunRow, Places, Outcomes
<1>4. call' \in [Callers -> Call] /\ call'[c] = new /\ \A d \in Callers \ {c} : call'[d] = call[d]
  BY <1>1, <1>2, <1>3
<1>5. UNCHANGED <<run, asked, touches, mapped>> /\ work' \in [Keys -> WorkRow]
  BY DEF Recover, Inv, TypeOK
<1>6. Known(c)' /\ Fine(c)' /\ call'[c].at \notin {"execute", "asking"}
  BY <1>1, <1>4, <1>5 DEF Known, Fine, Outcomes
<1> QED
  BY <1>4, <1>5, <1>6, MoveStep

\* A first look executes nothing.
LEMMA LookStep ==
  ASSUME Inv, NEW c \in Callers, Look(c)
  PROVE  Inv'
<1>1. UNCHANGED <<run, asked, touches, mapped>> /\ work' \in [Keys -> WorkRow]
  BY DEF Look, Inv, TypeOK
<1>2. Known(c) /\ call[c].at = "look" /\ call[c].key \in Keys
  BY DEF Look, Inv, TypeOK, Known
<1>3. CASE run[call[c].key] # NoRun
  <2>1. call' = SameRequest(c)
    BY <1>3 DEF Look
  <2> QED
    BY <1>1, <1>2, <1>3, <2>1, SameRequestFacts, MoveStep
<1>4. CASE run[call[c].key] = NoRun
  <2>1. PICK place \in {"refused", "insert"} : call' = Moved(c, place)
    BY <1>4 DEF Look
  <2>2. /\ call' \in [Callers -> Call]
        /\ \A d \in Callers \ {c} : call'[d] = call[d]
        /\ call'[c].at = place
        /\ call'[c].key = call[c].key
        /\ call'[c].subject = call[c].subject
        /\ call'[c].kind = call[c].kind
    BY <2>1, MovedFacts DEF Inv, Over, Places
  <2>3. Known(c)' /\ Fine(c)'
    BY <1>2, <2>2 DEF Known, Fine
  <2> QED
    BY <1>1, <2>2, <2>3, MoveStep
<1> QED
  BY <1>3, <1>4

\* A caller that ends the execution keeps its run.
LEMMA FinishingStep ==
  ASSUME Inv, NEW c \in Callers, NEW outcome \in Outcomes, NEW guarded \in BOOLEAN,
         call[c].at \in {"execute", "asking", "write"},
         call[c].kind = "recover" => outcome = "failed",
         call' = Finishing(c, outcome, guarded),
         UNCHANGED <<run, work, asked, touches, mapped>>
  PROVE  Inv'
<1>1. /\ call' \in [Callers -> Call]
      /\ \A d \in Callers \ {c} : call'[d] = call[d]
      /\ call'[c].at = "read"
      /\ call'[c].key = call[c].key
      /\ call'[c].subject = call[c].subject
      /\ call'[c].kind = call[c].kind
      /\ call'[c].want = outcome
  <2>1. Unread \in WorkRow
    BY DEF Unread, WorkRow, WorkStatuses
  <2> QED
    BY <2>1, GoingFacts DEF Inv, Finishing, Places
<1>2. call[c].key \in Keys /\ Fine(c)
  BY DEF Inv, TypeOK
<1>3. run[call[c].key] # NoRun
  <2>1. CASE call[c].at = "write"
    BY <1>2, <2>1 DEF Fine
  <2>2. CASE call[c].at \in {"execute", "asking"}
    <3>1. call[c].kind # "recover"
      BY <2>2 DEF Inv, TypeOK, Kinds
    <3> QED
      BY <1>2, <2>2, <3>1 DEF Fine
  <2> QED
    BY <2>1, <2>2
<1>4. Known(c)'
  BY <1>1, <1>2 DEF Known
<1>5. Fine(c)'
  BY <1>1, <1>2, <1>3 DEF Fine
<1>6. work' \in [Keys -> WorkRow]
  BY DEF Inv, TypeOK
<1> QED
  BY <1>1, <1>4, <1>5, <1>6, MoveStep

\* Leaving a call, with a run that is at hand or without, keeps the invariant.
LEMMA LeavingStep ==
  ASSUME Inv, NEW c \in Callers, NEW place \in Over \cup {"stopped"},
         call' = Moved(c, place),
         place = "replied" => call[c].at \in {"read", "write"},
         UNCHANGED <<run, work, asked, touches, mapped>>
  PROVE  Inv'
<1>1. /\ call' \in [Callers -> Call]
      /\ \A d \in Callers \ {c} : call'[d] = call[d]
      /\ call'[c].at = place
      /\ call'[c].key = call[c].key
      /\ call'[c].subject = call[c].subject
      /\ call'[c].kind = call[c].kind
  BY MovedFacts DEF Inv
<1>2. place \in {"replied", "refused", "unsaved", "stopped"}
  BY DEF Over
<1>3. Known(c)'
  BY <1>1, <1>2 DEF Known
<1>4. Fine(c)'
  BY <1>1, <1>2 DEF Fine, Inv
<1>5. work' \in [Keys -> WorkRow]
  BY DEF Inv, TypeOK
<1> QED
  BY <1>1, <1>2, <1>3, <1>4, <1>5, MoveStep

\* Preparing ends the execution without a runner.
LEMMA PrepareStep ==
  ASSUME Inv, NEW c \in Callers, Prepare(c)
  PROVE  Inv'
<1>1. PICK outcome \in Outcomes, guarded \in BOOLEAN : call' = Finishing(c, outcome, guarded)
  BY DEF Prepare, Outcomes
<1>2. /\ call[c].at = "execute"
      /\ UNCHANGED <<run, work, asked, touches, mapped>>
  BY DEF Prepare
<1>3. call[c].kind # "recover"
  BY <1>2 DEF Inv, TypeOK, Kinds
<1> QED
  BY <1>1, <1>2, <1>3, FinishingStep

\* The only caller that executes the run asks the runner, for the first time.
LEMMA AskStep ==
  ASSUME Inv, NEW c \in Callers, Ask(c)
  PROVE  Inv'
<1>1. /\ call[c].at = "execute" /\ call[c].kind = "agent" /\ call[c].key \in Keys
      /\ UNCHANGED <<run, work, touches, mapped>>
      /\ Fine(c)
  BY DEF Ask, Inv, TypeOK
<1>2. CASE call[c].subject \in mapped
  <2>1. call' = Finishing(c, "failed", FALSE) /\ UNCHANGED asked
    BY <1>2 DEF Ask
  <2> QED
    BY <1>1, <2>1, FinishingStep DEF Outcomes
<1>3. CASE call[c].subject \notin mapped
  <2>1. call' = Moved(c, "asking") /\ asked' = [asked EXCEPT ![call[c].key] = @ + 1]
    BY <1>3 DEF Ask
  <2>2. /\ call' \in [Callers -> Call]
        /\ \A d \in Callers \ {c} : call'[d] = call[d]
        /\ call'[c].at = "asking"
        /\ call'[c].key = call[c].key
        /\ call'[c].subject = call[c].subject
        /\ call'[c].kind = call[c].kind
    BY <2>1, MovedFacts DEF Inv, Places
  <2>3. /\ asked \in [Keys -> Nat] /\ asked' \in [Keys -> Nat]
        /\ asked'[call[c].key] = 1
        /\ \A k \in Keys \ {call[c].key} : asked'[k] = asked[k]
    BY <1>1, <2>1 DEF Inv, TypeOK, Fine
  <2>4. TypeOK'
    <3>1. Known(c)'
      BY <1>1, <2>2 DEF Known, Inv, TypeOK
    <3>2. \A d \in Callers : Known(d)'
      BY <2>2, <3>1 DEF Inv, TypeOK, Known
    <3> QED
      BY <1>1, <2>2, <2>3, <3>2 DEF Inv, TypeOK, Known
  <2>5. Fine(c)'
    BY <1>1, <2>2 DEF Fine
  <2>6. ASSUME NEW d \in Callers \ {c} PROVE Fine(d)'
    <3>1. Fine(d) /\ call'[d] = call[d]
      BY <2>2 DEF Inv
    <3>2. call[d].at = "execute" => call[d].key \in Keys \ {call[c].key}
      BY <1>1 DEF Inv, TypeOK, OneExecutor, Executes
    <3>3. call[d].at = "execute" => asked'[call[d].key] = asked[call[d].key]
      BY <2>3, <3>2
    <3> QED
      BY <1>1, <3>1, <3>3 DEF Fine
  <2>7. OneExecutor'
    BY <1>1, <2>2 DEF Inv, OneExecutor, Executes
  <2>8. NotAskedBefore'
    <3>1. run[call[c].key] # NoRun
      BY <1>1 DEF Fine
    <3> QED
      BY <1>1, <2>3, <3>1 DEF Inv, NotAskedBefore
  <2>9. RunnerAskedOnce'
    BY <2>3 DEF Inv, RunnerAskedOnce
  <2> QED
    BY <2>4, <2>5, <2>6, <2>7, <2>8, <2>9 DEF Inv
<1> QED
  BY <1>2, <1>3

\* The answer of the runner ends the execution.
LEMMA AnswerStep ==
  ASSUME Inv, NEW c \in Callers, Answer(c)
  PROVE  Inv'
<1>1. PICK outcome \in Outcomes, guarded \in BOOLEAN : call' = Finishing(c, outcome, guarded)
  BY DEF Answer, Outcomes
<1>2. /\ call[c].at = "asking"
      /\ UNCHANGED <<run, work, asked, touches, mapped>>
  BY DEF Answer
<1>3. call[c].kind # "recover"
  BY <1>2 DEF Inv, TypeOK, Kinds
<1> QED
  BY <1>1, <1>2, <1>3, FinishingStep

\* A new run has one executor, because no call is bound to a run that is not
\* there; and whoever finds the key taken is answered or refused.
LEMMA InsertStep ==
  ASSUME Inv, NEW c \in Callers, Insert(c)
  PROVE  Inv'
<1> DEFINE k == call[c].key
           row == [status |-> "in_progress", version |-> 1]
<1>1. /\ call[c].at = "insert" /\ k \in Keys
      /\ call[c].subject \in Subjects /\ call[c].kind \in Kinds
      /\ UNCHANGED <<touches, asked, mapped>>
  BY DEF Insert, Inv, TypeOK
<1>2. CASE run[k] # NoRun
  <2>1. call' = SameRequest(c) /\ UNCHANGED <<run, work>>
    BY <1>2 DEF Insert
  <2>2. work' \in [Keys -> WorkRow]
    BY <2>1 DEF Inv, TypeOK
  <2> QED
    BY <1>1, <1>2, <2>1, <2>2, SameRequestFacts, MoveStep
<1>3. CASE run[k] = NoRun
  <2>1. /\ run' = [run EXCEPT ![k] = NewRun(c)]
        /\ work' = [work EXCEPT ![k] = row]
        /\ call' = Moved(c, "execute")
    BY <1>3 DEF Insert
  <2>2. /\ call' \in [Callers -> Call]
        /\ \A d \in Callers \ {c} : call'[d] = call[d]
        /\ call'[c].at = "execute"
        /\ call'[c].key = k
        /\ call'[c].subject = call[c].subject
        /\ call'[c].kind = call[c].kind
    BY <2>1, MovedFacts DEF Inv, Places
  <2>3. NewRun(c) \in RunRow /\ row \in WorkRow
    BY <1>1 DEF NewRun, RunRow, WorkRow, WorkStatuses
  <2>4. /\ run' \in [Keys -> RunRow \cup {NoRun}]
        /\ run'[k] = NewRun(c) /\ run'[k] # NoRun
        /\ \A j \in Keys \ {k} : run'[j] = run[j]
    BY <1>1, <2>1, <2>3, RunNames DEF Inv, TypeOK
  <2>5. work' \in [Keys -> WorkRow]
    BY <1>1, <2>1, <2>3 DEF Inv, TypeOK
  <2>6. TypeOK'
    <3>1. Known(c)'
      BY <1>1, <2>2 DEF Known
    <3>2. \A d \in Callers : Known(d)'
      BY <2>2, <3>1 DEF Inv, TypeOK, Known
    <3> QED
      BY <1>1, <2>2, <2>4, <2>5, <3>2 DEF Inv, TypeOK, Known
  <2>7. asked[k] = 0
    BY <1>1, <1>3 DEF Inv, NotAskedBefore
  <2>8. Fine(c)'
    BY <1>1, <2>2, <2>4, <2>7 DEF Fine, NewRun
  <2>9. ASSUME NEW d \in Callers \ {c} PROVE Fine(d)'
    <3>1. Fine(d) /\ call'[d] = call[d]
      BY <2>2 DEF Inv
    <3>2. call[d].at \in {"read", "write"} => call[d].key \in Keys \ {k}
      BY <1>3, <3>1 DEF Fine, Inv, TypeOK
    <3>3. call[d].at \in {"execute", "asking", "read", "write", "replied"} /\ call[d].kind # "recover"
            => call[d].key \in Keys \ {k}
      BY <1>3, <3>1 DEF Fine
    <3> QED
      BY <1>1, <2>4, <3>1, <3>2, <3>3 DEF Fine
  <2>10. OneExecutor'
    <3>1. ASSUME NEW d \in Callers \ {c}, Executes(d) PROVE call[d].key # k
      <4>1. call[d].kind # "recover" /\ Fine(d)
        BY <3>1 DEF Executes, Inv, TypeOK, Kinds
      <4> QED
        BY <1>3, <3>1, <4>1 DEF Executes, Fine
    <3> QED
      BY <2>2, <3>1 DEF Inv, OneExecutor, Executes
  <2>11. NotAskedBefore' /\ RunnerAskedOnce'
    BY <1>1, <2>4 DEF Inv, NotAskedBefore, RunnerAskedOnce
  <2> QED
    BY <2>6, <2>8, <2>9, <2>10, <2>11 DEF Inv
<1> QED
  BY <1>2, <1>3

\* Reading the run writes nothing.
LEMMA ReadStep ==
  ASSUME Inv, NEW c \in Callers, Read(c)
  PROVE  Inv'
<1>1. /\ call[c].at = "read" /\ call[c].key \in Keys /\ call[c].want \in Outcomes
      /\ UNCHANGED <<run, work, touches, asked, mapped>>
      /\ Fine(c)
  BY DEF Read, Inv, TypeOK
<1>2. CASE Ended(call[c].key)
  <2>1. call' = Moved(c, "replied")
    BY <1>2 DEF Read
  <2> QED
    BY <1>1, <2>1, LeavingStep DEF Over
<1>3. CASE ~Ended(call[c].key)
  <2>1. call' = Going(c, "write", call[c].want, call[c].guarded, work[call[c].key])
    BY <1>3 DEF Read
  <2>2. call[c].guarded \in BOOLEAN /\ work[call[c].key] \in WorkRow
    BY <1>1 DEF Inv, TypeOK, Call
  <2>3. /\ call' \in [Callers -> Call]
        /\ \A d \in Callers \ {c} : call'[d] = call[d]
        /\ call'[c].at = "write"
        /\ call'[c].key = call[c].key
        /\ call'[c].subject = call[c].subject
        /\ call'[c].kind = call[c].kind
        /\ call'[c].want = call[c].want
    BY <1>1, <2>1, <2>2, GoingFacts DEF Inv, Places
  <2>4. Known(c)' /\ Fine(c)'
    BY <1>1, <2>3 DEF Known, Fine
  <2>5. work' \in [Keys -> WorkRow]
    BY <1>1 DEF Inv, TypeOK
  <2> QED
    BY <1>1, <2>3, <2>4, <2>5, MoveStep
<1> QED
  BY <1>2, <1>3

\* What a call writes is an outcome of a run that still runs; the step that the
\* run is of stays the same.
LEMMA WriteFacts ==
  ASSUME Inv, NEW c \in Callers, Write(c), RowsHold(c)
  PROVE  /\ call[c].key \in Keys
         /\ Running(call[c].key)
         /\ run' = [run EXCEPT ![call[c].key] = Outcome(c)]
         /\ run' \in [Keys -> RunRow \cup {NoRun}]
         /\ run'[call[c].key] = Outcome(c)
         /\ run'[call[c].key] # NoRun
         /\ run'[call[c].key].subject = run[call[c].key].subject
         /\ run'[call[c].key].kind = run[call[c].key].kind
         /\ \A j \in Keys \ {call[c].key} : run'[j] = run[j]
         /\ work' \in [Keys -> WorkRow]
         /\ call' = Moved(c, "replied")
<1> DEFINE k == call[c].key
<1>1. call[c].at = "write" /\ k \in Keys /\ call[c].want \in Outcomes
  BY DEF Write, Inv, TypeOK
<1>2. run[k] # NoRun /\ run[k] \in RunRow /\ run \in [Keys -> RunRow \cup {NoRun}]
  BY <1>1 DEF RowsHold, Running, Inv, TypeOK
<1>3. Outcome(c) \in RunRow
  BY <1>1, <1>2 DEF Outcome, RunRow
<1>4. /\ run' = [run EXCEPT ![k] = Outcome(c)]
      /\ work' = [work EXCEPT ![k] = FinishedWork(c)]
      /\ call' = Moved(c, "replied")
  BY DEF Write
<1>5. FinishedWork(c) \in WorkRow
  <2>1. work[k] \in WorkRow
    BY <1>1 DEF Inv, TypeOK
  <2>2. WorkAfter(call[c].want) \in WorkStatuses
    BY DEF WorkAfter, WorkStatuses
  <2>3. work[k].version + 1 \in Nat
    BY <2>1 DEF WorkRow
  <2> QED
    BY <2>1, <2>2, <2>3 DEF FinishedWork, WorkRow
<1>6. work' \in [Keys -> WorkRow]
  BY <1>1, <1>4, <1>5 DEF Inv, TypeOK
<1>7. run'[k] = Outcome(c) /\ \A j \in Keys \ {k} : run'[j] = run[j]
  BY <1>1, <1>2, <1>4
<1>8. run' \in [Keys -> RunRow \cup {NoRun}]
  BY <1>1, <1>2, <1>3, <1>4
<1> QED
  BY <1>1, <1>3, <1>4, <1>6, <1>7, <1>8, RunNames DEF Outcome, RowsHold

\* Writing the outcome, or failing to, keeps the invariant.
LEMMA WriteStep ==
  ASSUME Inv, NEW c \in Callers, Write(c)
  PROVE  Inv'
<1> DEFINE k == call[c].key
<1>1. call[c].at = "write" /\ Fine(c) /\ UNCHANGED <<touches, asked, mapped>>
  BY DEF Write, Inv
<1>2. CASE ~RowsHold(c) /\ call[c].guarded
  <2>1. call' = Finishing(c, "failed", FALSE) /\ UNCHANGED <<run, work>>
    BY <1>2 DEF Write
  <2> QED
    BY <1>1, <2>1, FinishingStep DEF Outcomes
<1>3. CASE ~RowsHold(c) /\ ~call[c].guarded
  <2>1. call' = Moved(c, "unsaved") /\ UNCHANGED <<run, work>>
    BY <1>3 DEF Write
  <2> QED
    BY <1>1, <2>1, LeavingStep DEF Over
<1>4. CASE RowsHold(c)
  <2>1. /\ k \in Keys
        /\ run' \in [Keys -> RunRow \cup {NoRun}]
        /\ run[k] # NoRun
        /\ run'[k] # NoRun
        /\ run'[k].subject = run[k].subject
        /\ run'[k].kind = run[k].kind
        /\ \A j \in Keys \ {k} : run'[j] = run[j]
        /\ work' \in [Keys -> WorkRow]
        /\ call' = Moved(c, "replied")
    BY <1>4, WriteFacts DEF Running
  <2>2. /\ call' \in [Callers -> Call]
        /\ \A d \in Callers \ {c} : call'[d] = call[d]
        /\ call'[c].at = "replied"
        /\ call'[c].key = k
        /\ call'[c].subject = call[c].subject
        /\ call'[c].kind = call[c].kind
    BY <2>1, MovedFacts DEF Inv, Over
  <2>3. TypeOK'
    <3>1. \A d \in Callers : Known(d)'
      BY <2>2 DEF Inv, TypeOK, Known
    <3> QED
      BY <1>1, <2>1, <2>2, <3>1 DEF Inv, TypeOK, Known
  <2>4. Fine(c)'
    BY <1>1, <2>1, <2>2 DEF Fine
  <2>5. ASSUME NEW d \in Callers \ {c} PROVE Fine(d)'
    <3>1. Fine(d) /\ call'[d] = call[d]
      BY <2>2 DEF Inv
    <3>2. call[d].at \in {"read", "write"} => call[d].key \in Keys
      BY DEF Inv, TypeOK
    <3> QED
      BY <1>1, <2>1, <3>1, <3>2 DEF Fine
  <2>6. OneExecutor'
    BY <2>2 DEF Inv, OneExecutor, Executes
  <2>7. NotAskedBefore' /\ RunnerAskedOnce'
    BY <1>1, <2>1 DEF Inv, NotAskedBefore, RunnerAskedOnce
  <2> QED
    BY <2>3, <2>4, <2>5, <2>6, <2>7 DEF Inv
<1> QED
  BY <1>2, <1>3, <1>4

\* A process may stop anywhere.
LEMMA StopStep ==
  ASSUME Inv, NEW c \in Callers, Stop(c)
  PROVE  Inv'
BY LeavingStep DEF Stop

\* Others change the work, or record a map, without a run or a call.
LEMMA OtherStep ==
  ASSUME Inv,
         \/ \E k \in Keys, status \in TouchedTo : TouchWork(k, status)
         \/ \E s \in Subjects : RecordMap(s)
  PROVE  Inv'
<1>1. CASE \E k \in Keys, status \in TouchedTo : TouchWork(k, status)
  <2>1. PICK k \in Keys, status \in TouchedTo : TouchWork(k, status)
    BY <1>1
  <2> DEFINE row == [status |-> status, version |-> work[k].version + 1]
  <2>2. /\ work' = [work EXCEPT ![k] = row]
        /\ touches' = [touches EXCEPT ![k] = touches[k] + 1]
        /\ touches[k] < MaxTouches
        /\ UNCHANGED <<run, call, asked, mapped>>
    BY <2>1 DEF TouchWork
  <2>3. row \in WorkRow
    BY TouchStatuses DEF Inv, TypeOK, WorkRow
  <2>4. work' \in [Keys -> WorkRow] /\ touches' \in [Keys -> 0..MaxTouches]
    <3>1. touches[k] + 1 \in 0..MaxTouches
      BY <2>2, TouchesAreNat DEF Inv, TypeOK
    <3> QED
      BY <2>2, <2>3, <3>1 DEF Inv, TypeOK
  <2>5. TypeOK'
    BY <2>2, <2>4 DEF Inv, TypeOK
  <2>6. \A c \in Callers : Fine(c)'
    BY <2>2 DEF Inv, Fine
  <2> QED
    BY <2>2, <2>5, <2>6 DEF Inv, OneExecutor, Executes, NotAskedBefore, RunnerAskedOnce
<1>2. CASE \E s \in Subjects : RecordMap(s)
  <2>1. UNCHANGED <<run, work, touches, call, asked>> /\ mapped' \subseteq Subjects
    BY <1>2 DEF RecordMap, Inv, TypeOK
  <2>2. TypeOK'
    BY <2>1 DEF Inv, TypeOK
  <2>3. \A c \in Callers : Fine(c)'
    BY <2>1 DEF Inv, Fine
  <2> QED
    BY <2>1, <2>2, <2>3 DEF Inv, OneExecutor, Executes, NotAskedBefore, RunnerAskedOnce
<1> QED
  BY <1>1, <1>2

-----------------------------------------------------------------------------
(* Theorems of the specification. *)

\* Nothing has been asked for at the start.
LEMMA InitInv == Init => Inv
<1> SUFFICES ASSUME Init PROVE Inv
  OBVIOUS
<1>1. NoCall \in Call
  BY DEF NoCall, Call, Over, Unread, WorkRow, WorkStatuses
<1>2. TypeOK
  BY <1>1, TouchesAreNat DEF Init, TypeOK, Unread, WorkRow, WorkStatuses, NoCall
<1>3. \A c \in Callers : Fine(c)
  BY DEF Init, Fine, NoCall
<1> QED
  BY <1>2, <1>3 DEF Init, Inv, OneExecutor, Executes, NotAskedBefore, RunnerAskedOnce, NoCall

\* Every step keeps the invariant.
LEMMA NextKeeps ==
  ASSUME Inv, [Next]_vars
  PROVE  Inv'
<1>1. CASE \E c \in Callers : Proceed(c)
  BY <1>1, LookStep, InsertStep, PrepareStep, AskStep, AnswerStep, ReadStep, WriteStep DEF Proceed
<1>2. CASE \E c \in Callers : Stop(c)
  BY <1>2, StopStep
<1>3. CASE \E c \in Callers, k \in Keys : Recover(c, k)
  BY <1>3, RecoverStep
<1>4. CASE \E c \in Callers, k \in Keys, s \in Subjects, kind \in Kinds, runner \in BOOLEAN :
             Begin(c, k, s, kind, runner)
  BY <1>4, BeginStep
<1>5. CASE \/ \E k \in Keys, status \in TouchedTo : TouchWork(k, status)
           \/ \E s \in Subjects : RecordMap(s)
  BY <1>5, OtherStep
<1>6. CASE UNCHANGED vars
  <2>1. TypeOK'
    BY <1>6 DEF vars, Inv, TypeOK
  <2>2. \A c \in Callers : Fine(c)'
    BY <1>6 DEF vars, Inv, Fine
  <2> QED
    BY <1>6, <2>1, <2>2 DEF vars, Inv, OneExecutor, Executes, NotAskedBefore, RunnerAskedOnce
<1> QED
  BY <1>1, <1>2, <1>3, <1>4, <1>5, <1>6 DEF Next

\* The invariant holds throughout.
THEOREM InvariantHolds == Spec => []Inv
<1>1. Inv /\ [Next]_vars => Inv'
  BY NextKeeps
<1> QED
  BY InitInv, <1>1, PTL DEF Spec

\* Runs, their work and the calls stay well formed.
THEOREM TypeCorrect == Spec => []TypeOK
<1>1. Inv => TypeOK
  BY DEF Inv
<1> QED
  BY <1>1, InvariantHolds, PTL

\* Whatever processes submit a key, and whenever, its runner is asked once at most.
THEOREM AskedOnce == Spec => []RunnerAskedOnce
<1>1. Inv => RunnerAskedOnce
  BY DEF Inv
<1> QED
  BY <1>1, InvariantHolds, PTL

\* Whoever is answered is answered with a run of the step it asked for.
THEOREM AnsweredAsAsked == Spec => []ReplyIsOfTheRequest
<1>1. Inv => ReplyIsOfTheRequest
  BY DEF Inv, Fine, ReplyIsOfTheRequest
<1> QED
  BY <1>1, InvariantHolds, PTL

\* Only creating a run and writing its outcome change it.
LEMMA RunChange ==
  ASSUME Inv, [Next]_vars, NEW k \in Keys, run'[k] # run[k]
  PROVE  \/ run[k] = NoRun
         \/ \E c \in Callers :
              /\ Write(c) /\ RowsHold(c) /\ call[c].key = k
              /\ run'[k] = Outcome(c) /\ call' = Moved(c, "replied")
<1>1. ASSUME NEW c \in Callers, Insert(c)
      PROVE  run[k] = NoRun
  <2>1. call[c].key \in Keys /\ run \in [Keys -> RunRow \cup {NoRun}]
    BY <1>1 DEF Insert, Inv, TypeOK
  <2>2. run[call[c].key] = NoRun /\ run' = [run EXCEPT ![call[c].key] = NewRun(c)]
    BY <1>1 DEF Insert
  <2> QED
    BY <2>1, <2>2
<1>2. ASSUME NEW c \in Callers, Write(c)
      PROVE  RowsHold(c) /\ call[c].key = k /\ run'[k] = Outcome(c) /\ call' = Moved(c, "replied")
  <2>1. RowsHold(c)
    BY <1>2 DEF Write
  <2> QED
    BY <1>2, <2>1, WriteFacts
<1>3. \/ \E c \in Callers : Insert(c)
      \/ \E c \in Callers : Write(c)
  BY DEF Next, Proceed, vars, Begin, Recover, Look, Prepare, Ask, Answer, Read, Stop,
         TouchWork, RecordMap
<1> QED
  BY <1>1, <1>2, <1>3

\* A late answer, a recovery or a retry never replaces the outcome of a run.
THEOREM OutcomeStands == Spec => FirstOutcomeStands
<1>1. ASSUME Inv, [Next]_vars, NEW k \in Keys, Ended(k)
      PROVE  run'[k] = run[k]
  BY <1>1, RunChange DEF Ended, RowsHold, Running
<1>2. Inv /\ [Next]_vars => [\A k \in Keys : Ended(k) => run'[k] = run[k]]_vars
  BY <1>1
<1> QED
  BY <1>2, InvariantHolds, PTL DEF Spec, FirstOutcomeStands

\* No caller comes to attend a run that is there already.
LEMMA NobodyComesToAttend ==
  ASSUME Inv, [Next]_vars, NEW k \in Keys, Unattended(k), NEW c \in Callers
  PROVE  ~Attends(c, k)'
<1>1. run[k] # NoRun /\ ~Attends(c, k)
  BY DEF Unattended, Running
<1>2. call \in [Callers -> Call]
  BY DEF Inv, TypeOK
<1>3. CASE call'[c] = call[c]
  BY <1>1, <1>3 DEF Attends
<1>4. CASE call'[c].at \notin {"execute", "asking", "read", "write"}
  BY <1>4 DEF Attends
<1>5. CASE call'[c].kind = "recover"
  BY <1>5 DEF Attends
<1>6. CASE /\ call'[c].key = call[c].key /\ call'[c].kind = call[c].kind
           /\ call[c].at \in {"execute", "asking", "read", "write"} \/ call[c].key # k
  BY <1>1, <1>6 DEF Attends
<1>7. \A d \in Callers, place \in Places \cup Over \cup {"look", "stopped"} :
        call' = Moved(d, place) =>
          /\ d # c => call'[c] = call[c]
          /\ call'[d].at = place /\ call'[d].key = call[d].key /\ call'[d].kind = call[d].kind
  BY MovedFacts DEF Inv
<1>8. \A d \in Callers, want \in Outcomes, guarded \in BOOLEAN :
        call' = Finishing(d, want, guarded) =>
          /\ d # c => call'[c] = call[c]
          /\ call'[d].key = call[d].key /\ call'[d].kind = call[d].kind
  <2>1. Unread \in WorkRow
    BY DEF Unread, WorkRow, WorkStatuses
  <2> QED
    BY <2>1, GoingFacts DEF Inv, Finishing, Places
<1>9. ASSUME NEW d \in Callers, Stop(d)
      PROVE  ~Attends(c, k)'
  BY <1>3, <1>4, <1>7, <1>9 DEF Stop
<1>10. ASSUME NEW d \in Callers, NEW j \in Keys, Recover(d, j)
       PROVE  ~Attends(c, k)'
  BY <1>2, <1>3, <1>5, <1>10 DEF Recover
<1>11. ASSUME NEW d \in Callers, NEW j \in Keys, NEW s \in Subjects, NEW kind \in Kinds,
              NEW runner \in BOOLEAN, Begin(d, j, s, kind, runner)
       PROVE  ~Attends(c, k)'
  BY <1>2, <1>3, <1>4, <1>11 DEF Begin
<1>12. ASSUME NEW d \in Callers, call' = SameRequest(d)
       PROVE  ~Attends(c, k)'
  <2>1. PICK place \in {"replied", "refused"} : call' = Moved(d, place)
    BY <1>12 DEF SameRequest
  <2> QED
    BY <1>3, <1>4, <1>7, <2>1 DEF Over
<1>13. ASSUME NEW d \in Callers, Look(d)
       PROVE  ~Attends(c, k)'
  <2>1. CASE call' = SameRequest(d)
    BY <1>12, <2>1
  <2>2. CASE call' \in {Moved(d, "refused"), Moved(d, "insert")}
    BY <1>3, <1>4, <1>7, <2>2 DEF Over, Places
  <2> QED
    BY <1>13, <2>1, <2>2 DEF Look
<1>14. ASSUME NEW d \in Callers, Insert(d)
       PROVE  ~Attends(c, k)'
  <2>1. CASE call' = SameRequest(d)
    BY <1>12, <2>1
  <2>2. CASE call' = Moved(d, "execute") /\ run[call[d].key] = NoRun
    BY <1>1, <1>3, <1>6, <1>7, <2>2 DEF Places
  <2> QED
    BY <1>14, <2>1, <2>2 DEF Insert
<1>15. ASSUME NEW d \in Callers, Prepare(d) \/ Ask(d) \/ Answer(d)
       PROVE  ~Attends(c, k)'
  <2>1. call[d].at \in {"execute", "asking"}
    BY <1>15 DEF Prepare, Ask, Answer
  <2>2. \/ call' = Moved(d, "asking")
        \/ \E want \in Outcomes, guarded \in BOOLEAN : call' = Finishing(d, want, guarded)
    BY <1>15 DEF Prepare, Ask, Answer, Outcomes
  <2> QED
    BY <1>3, <1>6, <1>7, <1>8, <2>1, <2>2 DEF Places
<1>16. ASSUME NEW d \in Callers, Read(d)
       PROVE  ~Attends(c, k)'
  <2>1. call[d].at = "read" /\ call[d].key \in Keys /\ call[d].want \in Outcomes
    BY <1>16 DEF Read, Inv, TypeOK
  <2>2. CASE call' = Moved(d, "replied")
    BY <1>3, <1>4, <1>7, <2>2 DEF Over
  <2>3. CASE call' = Going(d, "write", call[d].want, call[d].guarded, work[call[d].key])
    <3>1. /\ TypeOK
          /\ call[d].guarded \in BOOLEAN /\ work[call[d].key] \in WorkRow
          /\ call[d].want \in Outcomes \cup {"none"}
          /\ "write" \in Places \cup Over \cup {"look", "stopped"}
      BY <2>1 DEF Inv, TypeOK, Call, Places
    <3>2. /\ d # c => call'[c] = call[c]
          /\ call'[d].key = call[d].key /\ call'[d].kind = call[d].kind
      BY <2>3, <3>1, GoingFacts
    <3> QED
      BY <1>3, <1>6, <2>1, <3>2
  <2> QED
    BY <1>16, <2>2, <2>3 DEF Read
<1>17. ASSUME NEW d \in Callers, Write(d)
       PROVE  ~Attends(c, k)'
  <2>1. call[d].at = "write"
    BY <1>17 DEF Write
  <2>2. \/ call' = Moved(d, "replied") \/ call' = Moved(d, "unsaved")
        \/ call' = Finishing(d, "failed", FALSE)
    BY <1>17 DEF Write
  <2> QED
    BY <1>3, <1>4, <1>6, <1>7, <1>8, <2>1, <2>2 DEF Over, Outcomes
<1>18. CASE UNCHANGED call
  BY <1>3, <1>18
<1> QED
  BY <1>9, <1>10, <1>11, <1>13, <1>14, <1>15, <1>16, <1>17, <1>18
  DEF Next, Proceed, TouchWork, RecordMap, vars

\* A run that its process has left stays visible as running until an operator
\* marks it interrupted.
THEOREM StaysVisible == Spec => InterruptedStaysVisible
<1>1. ASSUME Inv, [Next]_vars, NEW k \in Keys, Unattended(k)
      PROVE  \/ Unattended(k)'
             \/ /\ run'[k].status = "failed"
                /\ call[run'[k].by].kind = "recover"
  <2>1. \A c \in Callers : ~Attends(c, k)'
    BY <1>1, NobodyComesToAttend
  <2>2. CASE run'[k] = run[k]
    BY <1>1, <2>1, <2>2 DEF Unattended, Running
  <2>3. CASE run'[k] # run[k]
    <3>1. PICK c \in Callers : Write(c) /\ call[c].key = k /\ run'[k] = Outcome(c)
      BY <1>1, <2>3, RunChange DEF Unattended, Running
    <3>2. call[c].at = "write" /\ Fine(c)
      BY <1>1, <3>1 DEF Write, Inv
    <3>3. call[c].kind = "recover"
      BY <1>1, <3>1, <3>2 DEF Unattended, Attends
    <3> QED
      BY <3>1, <3>2, <3>3 DEF Fine, Outcome
  <2> QED
    BY <2>2, <2>3
<1>2. Inv /\ [Next]_vars =>
        [\A k \in Keys : Unattended(k) =>
           \/ Unattended(k)'
           \/ /\ run'[k].status = "failed"
              /\ call[run'[k].by].kind = "recover"]_vars
  BY <1>1
<1> QED
  BY <1>2, InvariantHolds, PTL DEF Spec, InterruptedStaysVisible

=============================================================================
