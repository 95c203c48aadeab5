----------------------------- MODULE AgentBridge -----------------------------
(***************************************************************************)
(* The bridge an agent runs beside its repository (tools/foundry_agent.py). *)
(* It reaches the workspace only through calls of the command line, each    *)
(* one transaction of the store, and keeps files of its own.                *)
(*                                                                         *)
(* start reads the work and the map, claims the work, prepares a context   *)
(* and saves it; if preparing fails it releases the claim.  With            *)
(* --resume-owned it prepares for a claim that its actor already holds.     *)
(*                                                                         *)
(* A terminal is one place where the bridge is run, again and again.  A     *)
(* call may fail, its answer may be lost after it took effect or before,    *)
(* and the bridge may be stopped; MaxFaults bounds how often.               *)
(***************************************************************************)
EXTENDS Integers

CONSTANTS Terminals,    \* places where the bridge runs
          Actor,        \* the actor name each terminal passes
          Oversized,    \* map revisions whose context exceeds what is allowed
          MaxVersion, MaxHead, MaxFaults

VARIABLES work,      \* the work row: status, owner and version
          head,      \* the revision of the decision map
          contexts,  \* contexts in the store
          run,       \* what each terminal's bridge is doing
          saved,     \* contexts saved under runs/
          faults     \* faults so far

store == <<work, head, contexts>>
vars  == <<store, run, saved, faults>>

Idle == [at |-> "idle", version |-> 0, head |-> 0, claim |-> 0, fault |-> FALSE]

\* The rows of the store that the bridge reads, and what one run of it remembers.
WorkRow  == [status  : {"ready", "in_progress", "done"},
             owner   : {"agent"} \cup {Actor[t] : t \in Terminals},
             version : 1..MaxVersion]
Prepared == [version : 1..MaxVersion, head : 1..MaxHead]
Run      == [at      : {"idle", "claiming", "preparing", "again", "saving", "releasing", "failed"},
             version : 0..MaxVersion, head : 0..MaxHead, claim : 0..MaxVersion, fault : BOOLEAN]

\* What a bridge saves is a context of the store: of the map it had read before it
\* claimed, and of work that nobody has touched since.
TypeOK ==
    /\ work \in WorkRow
    /\ head \in 1..MaxHead
    /\ contexts \subseteq Prepared
    /\ saved \subseteq contexts
    /\ run \in [Terminals -> Run]
    /\ faults \in 0..MaxFaults

Init ==
    /\ work = [status |-> "ready", owner |-> "agent", version |-> 1]
    /\ head = 1
    /\ contexts = {}
    /\ saved = {}
    /\ run = [t \in Terminals |-> Idle]
    /\ faults = 0

-----------------------------------------------------------------------------
(* start: every step is one call of the command line or one file.          *)

Row(status, owner) ==
    [status |-> status, owner |-> owner, version |-> work.version + 1]

Held(t) == work.status = "in_progress" /\ work.owner = Actor[t]

\* The terminal's bridge goes on to its next step.
Goes(t, at) == run' = [run EXCEPT ![t].at = at]

\* Fault: the second attempt to prepare is outside the handler.
AfterFirstError(r) == IF r.claim # 0 /\ r.at # "again" THEN "releasing" ELSE "failed"

\* What start_work does with an error of prepare_with_budget: the claim it made
\* itself is released, a claim that was only resumed stays.
AfterError(r) == IF r.claim # 0 THEN "releasing" ELSE "failed"

\* A fault: a call or a file of the terminal's bridge does not end as it should.
Fault(t, at) ==
    /\ faults < MaxFaults
    /\ faults' = faults + 1
    /\ run' = [run EXCEPT ![t].at = at, ![t].fault = (at = "failed")]

Read(t) ==
    /\ run[t].at \in {"idle", "failed"}
    /\ run' = [run EXCEPT ![t] =
                 [Idle EXCEPT !.at = "claiming", !.version = work.version, !.head = head]]
    /\ UNCHANGED <<store, saved, faults>>

ResumeOwned(t) ==
    /\ run[t].at \in {"idle", "failed"}
    /\ Held(t)
    /\ run' = [run EXCEPT ![t] =
                 [Idle EXCEPT !.at = "preparing", !.version = work.version, !.head = head]]
    /\ UNCHANGED <<store, saved, faults>>

Claimable(t) == work.version = run[t].version /\ work.status = "ready"

Claim(t) ==
    /\ run[t].at = "claiming"
    /\ \/ /\ Claimable(t)
          /\ work.version + 1 < MaxVersion
          /\ work' = Row("in_progress", Actor[t])
          /\ run' = [run EXCEPT ![t].at = "preparing", ![t].claim = work.version + 1]
          /\ UNCHANGED faults
       \/ ~Claimable(t) /\ Goes(t, "failed") /\ UNCHANGED <<work, faults>>
       \/ /\ Claimable(t)
          /\ work.version + 1 < MaxVersion
          /\ work' = Row("in_progress", Actor[t])
          /\ Fault(t, "failed")
       \/ Fault(t, "failed") /\ UNCHANGED work
    /\ UNCHANGED <<head, contexts, saved>>

\* Fault: only a claim of this run counts.
ExpectedClaim(r) == r.claim

Expected(r) == IF r.claim # 0 THEN r.claim ELSE r.version

\* Fault: the map may have moved.
UnmovedWork(r) == work.version = Expected(r)

\* The store compares the work and the map with what the bridge has read.
Unmoved(r) == work.version = Expected(r) /\ head = r.head

Context(r) == [version |-> Expected(r), head |-> head]

\* The first call; on the exact size error there is one more, with the size.
Prepare(t) ==
    /\ run[t].at \in {"preparing", "again"}
    /\ \/ /\ Unmoved(run[t])
          /\ head \notin Oversized
          /\ contexts' = contexts \cup {Context(run[t])}
          /\ Goes(t, "saving")
          /\ UNCHANGED faults
       \/ /\ Unmoved(run[t])
          /\ run[t].at = "preparing"
          /\ head \notin Oversized
          /\ Goes(t, "again")                   \* too large for the budget
          /\ UNCHANGED <<contexts, faults>>
       \/ /\ ~Unmoved(run[t])                  \* refused
          /\ Goes(t, AfterError(run[t]))
          /\ UNCHANGED <<contexts, faults>>
       \/ /\ Unmoved(run[t])                   \* larger than is allowed
          /\ head \in Oversized
          /\ Goes(t, AfterError(run[t]))
          /\ UNCHANGED <<contexts, faults>>
       \/ /\ Unmoved(run[t])                   \* the answer is lost
          /\ head \notin Oversized
          /\ contexts' \in {contexts, contexts \cup {Context(run[t])}}
          /\ Fault(t, AfterError(run[t]))
    /\ UNCHANGED <<work, head, saved>>

Release(t) ==
    /\ run[t].at = "releasing"
    /\ \/ /\ Held(t) /\ work.version = run[t].claim
          /\ work.version < MaxVersion
          /\ work' = Row("ready", "agent")
          /\ Goes(t, "failed")
          /\ UNCHANGED faults
       \/ /\ ~(Held(t) /\ work.version = run[t].claim)
          /\ Goes(t, "failed")
          /\ UNCHANGED <<work, faults>>
       \/ Fault(t, "failed") /\ UNCHANGED work
    /\ UNCHANGED <<head, contexts, saved>>

Save(t) ==
    /\ run[t].at = "saving"
    /\ \/ /\ saved' = saved \cup {[version |-> Expected(run[t]), head |-> run[t].head]}
          /\ Goes(t, "idle")
          /\ UNCHANGED faults
       \/ Fault(t, "failed") /\ UNCHANGED saved
    /\ UNCHANGED store

\* The bridge is stopped between two of its steps.
Stop(t) ==
    /\ run[t].at \notin {"idle", "failed"}
    /\ Fault(t, "failed")
    /\ UNCHANGED <<store, saved>>

-----------------------------------------------------------------------------
(* What others do to the work and the map: a revision of the map that may   *)
(* touch the work, a release by the owner, an accepted result.              *)

MapMoves ==
    /\ head < MaxHead
    /\ head' = head + 1
    /\ \/ UNCHANGED work
       \/ /\ work.version < MaxVersion
          /\ work' = [work EXCEPT !.version = @ + 1]
    /\ UNCHANGED <<contexts, run, saved, faults>>

OwnerReleases ==
    /\ work.status = "in_progress"
    /\ work.version < MaxVersion
    /\ work' = Row("ready", "agent")
    /\ UNCHANGED <<head, contexts, run, saved, faults>>

Deliver ==
    /\ work.status = "in_progress"
    /\ \E c \in saved : c.version = work.version
    /\ work.version < MaxVersion
    /\ work' = Row("done", work.owner)
    /\ UNCHANGED <<head, contexts, run, saved, faults>>

Next ==
    \/ \E t \in Terminals :
          \/ Read(t) \/ ResumeOwned(t) \/ Claim(t) \/ Prepare(t)
          \/ Release(t) \/ Save(t) \/ Stop(t)
    \/ MapMoves \/ OwnerReleases \/ Deliver

Proceeds(t) == Claim(t) \/ Prepare(t) \/ Release(t) \/ Save(t)

\* A bridge that runs goes on, since every call has a timeout, and an actor whose
\* claim was left behind resumes it, as docs/EXTERNAL_AGENTS.md asks.
Fairness == \A t \in Terminals : WF_vars(Proceeds(t)) /\ SF_vars(ResumeOwned(t))

Spec == Init /\ [][Next]_vars /\ Fairness

-----------------------------------------------------------------------------
(* Properties.                                                             *)

\* A start that failed without a fault of its own claim, release or file leaves
\* no claim behind, whatever was refused, too large or lost while it prepared.
FailedStartIsSettled ==
    \A t \in Terminals :
        run[t].at = "failed" /\ ~run[t].fault /\ run[t].claim # 0 =>
            ~(Held(t) /\ work.version = run[t].claim)

\* Work that is claimed does not stay claimed without a context to work from:
\* after every interruption the owner's next resumption prepares one, unless
\* the context of the current map is larger than is allowed.
InterruptedIsRecovered ==
    work.status = "in_progress" ~>
        \/ work.status # "in_progress"
        \/ \E c \in saved : c.version = work.version
        \/ head \in Oversized
=============================================================================
