---------------------------- MODULE ToolsProofs -----------------------------
(***************************************************************************)
(* The two commands of the agent bridge, one outreach draft and the          *)
(* algorithms of the map, which share no state with each other: for any     *)
(* terminals, reports, editors and senders, any number of faults and drafts  *)
(* of any size.                                                             *)
(***************************************************************************)
EXTENDS Tools, FiniteSetTheorems, SequenceTheorems, TLAPS

-----------------------------------------------------------------------------
(* AgentBridge: a claim is made once, and what is saved was prepared.       *)

\* A claim that a bridge remembers is one of a row that was: whoever touched the
\* work since has given it a later version.
ClaimIsPast(t) == run[t].claim <= claimed.version

\* What a bridge is about to save is a context of the store.
SavesPrepared(t) ==
  run[t].at = "saving" =>
    [version |-> Bridge!Expected(run[t]), head |-> run[t].head] \in contexts

Settled(t) ==
  run[t].at = "failed" /\ ~run[t].fault /\ run[t].claim # 0 =>
    ~(Bridge!Held(t) /\ claimed.version = run[t].claim)

\* Nothing is remembered as claimed before the claim is made.
NoClaimYet(t) == run[t].at = "claiming" => run[t].claim = 0

InOrder(t) == ClaimIsPast(t) /\ SavesPrepared(t) /\ Settled(t) /\ NoClaimYet(t)

BridgeInv == Bridge!TypeOK /\ \A t \in Terminals : InOrder(t)

\* The bridge of one terminal takes a step that leaves the row, or gives it the
\* next version; what it remembers then is again in order.
LEMMA RunStep ==
  ASSUME BridgeInv, NEW t \in Terminals, NEW r \in Bridge!Run,
         run' = [run EXCEPT ![t] = r],
         claimed' = claimed \/ (claimed' \in Bridge!WorkRow /\ claimed'.version = claimed.version + 1),
         mapHead' = mapHead,
         contexts' \in SUBSET Bridge!Prepared, contexts \subseteq contexts',
         saved' \subseteq contexts', faults' \in 0..MaxFaults,
         r.claim <= claimed'.version,
         r.at = "claiming" => r.claim = 0,
         r.at = "saving" => [version |-> Bridge!Expected(r), head |-> r.head] \in contexts',
         (r.at = "failed" /\ ~r.fault /\ r.claim # 0) =>
            ~(claimed'.status = "in_progress" /\ claimed'.owner = Actor[t]
                /\ claimed'.version = r.claim)
  PROVE  BridgeInv'
<1>1. run' \in [Terminals -> Bridge!Run] /\ run'[t] = r
      /\ \A u \in Terminals \ {t} : run'[u] = run[u]
  BY DEF BridgeInv, Bridge!TypeOK
<1>2. Bridge!TypeOK'
  BY <1>1 DEF BridgeInv, Bridge!TypeOK
<1>3. claimed.version \in Int /\ \A u \in Terminals : run[u].claim \in Int
  BY DEF BridgeInv, Bridge!TypeOK, Bridge!WorkRow, Bridge!Run
<1>4. ASSUME NEW u \in Terminals
      PROVE  InOrder(u)'
  <2>1. CASE u = t
    BY <1>1, <2>1
    DEF InOrder, ClaimIsPast, SavesPrepared, Settled, NoClaimYet, Bridge!Held, Bridge!Expected
  <2>2. CASE u # t
    <3>1. run'[u] = run[u] /\ ClaimIsPast(u) /\ SavesPrepared(u) /\ Settled(u) /\ NoClaimYet(u)
      BY <1>1, <2>2 DEF BridgeInv, InOrder
    <3>2. ClaimIsPast(u)'
      BY <1>3, <3>1 DEF ClaimIsPast
    <3>3. SavesPrepared(u)'
      BY <3>1 DEF SavesPrepared, Bridge!Expected
    <3>4. Settled(u)'
      BY <1>3, <3>1 DEF Settled, ClaimIsPast, Bridge!Held
    <3>5. NoClaimYet(u)'
      BY <3>1 DEF NoClaimYet
    <3> QED
      BY <3>2, <3>3, <3>4, <3>5 DEF InOrder
  <2> QED
    BY <2>1, <2>2
<1> QED
  BY <1>2, <1>4 DEF BridgeInv

\* What a bridge remembers once it is at another step.
After(t, at, claim, fault) ==
  [at |-> at, version |-> run[t].version, head |-> run[t].head, claim |-> claim, fault |-> fault]

LEMMA GoesOn ==
  ASSUME BridgeInv, NEW t \in Terminals, NEW at
  PROVE  /\ Bridge!Goes(t, at) => run' = [run EXCEPT ![t] = After(t, at, run[t].claim, run[t].fault)]
         /\ Bridge!Fault(t, at) =>
              /\ run' = [run EXCEPT ![t] = After(t, at, run[t].claim, at = "failed")]
              /\ faults' = faults + 1 /\ faults < MaxFaults
<1>1. run[t] = [at |-> run[t].at, version |-> run[t].version, head |-> run[t].head,
                claim |-> run[t].claim, fault |-> run[t].fault]
      /\ run \in [Terminals -> Bridge!Run]
  BY DEF BridgeInv, Bridge!TypeOK, Bridge!Run
<1> QED
  BY <1>1 DEF Bridge!Goes, Bridge!Fault, After

\* Reading starts a run that has made no claim.
LEMMA ReadStep ==
  ASSUME BridgeInv, NEW t \in Terminals, Bridge!Read(t) \/ Bridge!ResumeOwned(t)
  PROVE  BridgeInv'
<1>1. PICK at \in {"claiming", "preparing"} :
        run' = [run EXCEPT ![t] = [at |-> at, version |-> claimed.version, head |-> mapHead,
                                   claim |-> 0, fault |-> FALSE]]
  BY DEF Bridge!Read, Bridge!ResumeOwned, Bridge!Idle
<1> DEFINE r == [at |-> at, version |-> claimed.version, head |-> mapHead,
                 claim |-> 0, fault |-> FALSE]
<1>2. UNCHANGED <<claimed, mapHead, contexts, saved, faults>>
  BY DEF Bridge!Read, Bridge!ResumeOwned, Bridge!store
<1>3. r \in Bridge!Run /\ r.claim <= claimed.version
  BY BridgeBounds DEF BridgeInv, Bridge!TypeOK, Bridge!WorkRow, Bridge!Run
<1>4. contexts \in SUBSET Bridge!Prepared /\ saved \subseteq contexts /\ faults \in 0..MaxFaults
  BY DEF BridgeInv, Bridge!TypeOK
<1>5. r.at # "saving" /\ r.at # "failed" /\ r.claim = 0
  OBVIOUS
<1>6. run' = [run EXCEPT ![t] = r]
  BY <1>1
<1> HIDE DEF r
<1> QED
  BY <1>2, <1>3, <1>4, <1>5, <1>6, RunStep

\* The row with its next version.
LEMMA NextVersion ==
  ASSUME BridgeInv, NEW status \in {"ready", "in_progress", "done"},
         NEW owner \in {"agent"} \cup {Actor[t] : t \in Terminals},
         claimed.version < MaxVersion, claimed' = Bridge!Row(status, owner)
  PROVE  /\ claimed' \in Bridge!WorkRow
         /\ claimed'.version = claimed.version + 1
         /\ claimed'.status = status
BY BridgeBounds DEF BridgeInv, Bridge!TypeOK, Bridge!WorkRow, Bridge!Row

\* What every step of a run starts from.
LEMMA RunFacts ==
  ASSUME BridgeInv, NEW t \in Terminals
  PROVE  /\ claimed \in Bridge!WorkRow /\ claimed.version \in 1..MaxVersion /\ mapHead \in 1..MaxHead
         /\ run[t].version \in 0..MaxVersion /\ run[t].head \in 0..MaxHead
         /\ run[t].claim \in 0..MaxVersion /\ run[t].fault \in BOOLEAN
         /\ run[t].claim <= claimed.version
         /\ contexts \in SUBSET Bridge!Prepared /\ saved \subseteq contexts /\ faults \in 0..MaxFaults
         /\ faults < MaxFaults => faults + 1 \in 0..MaxFaults
BY BridgeBounds DEF BridgeInv, InOrder, ClaimIsPast, Bridge!TypeOK, Bridge!WorkRow, Bridge!Run

\* A claim gives the row its next version, and that version is remembered.
LEMMA ClaimStep ==
  ASSUME BridgeInv, NEW t \in Terminals, Bridge!Claim(t)
  PROVE  BridgeInv'
<1> DEFINE made   == After(t, "preparing", claimed.version + 1, run[t].fault)
           not    == After(t, "failed", run[t].claim, run[t].fault)
           broken == After(t, "failed", run[t].claim, TRUE)
<1>1. run[t].claim = 0 /\ UNCHANGED <<mapHead, contexts, saved>>
  BY DEF Bridge!Claim, BridgeInv, InOrder, NoClaimYet
<1>2. /\ not \in Bridge!Run /\ broken \in Bridge!Run
      /\ not.claim = 0 /\ broken.claim = 0 /\ not.at = "failed" /\ broken.at = "failed"
  BY BridgeBounds, <1>1, RunFacts DEF After, Bridge!Run
<1>3. CASE claimed' = claimed
  <2>1. \/ run' = [run EXCEPT ![t] = not] /\ faults' = faults
        \/ run' = [run EXCEPT ![t] = broken] /\ faults' = faults + 1 /\ faults < MaxFaults
    <3>1. claimed.version \in Int
      BY BridgeBounds, RunFacts
    <3>2. ~(claimed' = Bridge!Row("in_progress", Actor[t]))
      BY <1>3, <3>1 DEF Bridge!Row
    <3>3. (Bridge!Goes(t, "failed") /\ faults' = faults) \/ Bridge!Fault(t, "failed")
      BY <3>2 DEF Bridge!Claim
    <3> QED
      BY <3>3, GoesOn
  <2> HIDE DEF not, broken
  <2> QED
    BY <1>1, <1>2, <1>3, <2>1, RunFacts, RunStep
<1>4. CASE claimed' = Bridge!Row("in_progress", Actor[t]) /\ claimed.version + 1 < MaxVersion
  <2>1. claimed' \in Bridge!WorkRow /\ claimed'.version = claimed.version + 1
    <3>1. claimed.version < MaxVersion
      BY BridgeBounds, <1>4, RunFacts
    <3>2. Actor[t] \in {"agent"} \cup {Actor[u] : u \in Terminals}
      OBVIOUS
    <3>3. claimed' = Bridge!Row("in_progress", Actor[t])
      BY <1>4
    <3> QED
      BY <3>1, <3>2, <3>3, NextVersion
  <2>2. \/ run' = [run EXCEPT ![t] = made] /\ faults' = faults
        \/ run' = [run EXCEPT ![t] = broken] /\ faults' = faults + 1 /\ faults < MaxFaults
    <3>1. claimed' # claimed
      BY BridgeBounds, <2>1, RunFacts
    <3>2. \/ /\ run' = [run EXCEPT ![t].at = "preparing", ![t].claim = claimed.version + 1]
             /\ faults' = faults
          \/ Bridge!Fault(t, "failed")
      BY <3>1 DEF Bridge!Claim
    <3>3. run[t] = [at |-> run[t].at, version |-> run[t].version, head |-> run[t].head,
                    claim |-> run[t].claim, fault |-> run[t].fault]
          /\ run \in [Terminals -> Bridge!Run]
      BY DEF BridgeInv, Bridge!TypeOK, Bridge!Run
    <3> QED
      BY <3>2, <3>3, GoesOn DEF After
  <2>3. made \in Bridge!Run /\ made.claim = claimed.version + 1 /\ made.at = "preparing"
    BY BridgeBounds, <1>4, RunFacts DEF After, Bridge!Run
  <2> HIDE DEF made, broken
  <2>4. 0 <= claimed'.version /\ claimed.version + 1 <= claimed'.version
    BY BridgeBounds, <2>1, RunFacts
  <2> QED
    BY <1>1, <1>2, <2>1, <2>2, <2>3, <2>4, RunFacts, RunStep
<1> QED
  BY <1>3, <1>4 DEF Bridge!Claim

\* What a run goes to when it goes on: the same claim, and whether a fault ended it.
LEMMA AfterIsRun ==
  ASSUME BridgeInv, NEW t \in Terminals, NEW fault \in BOOLEAN,
         NEW at \in {"idle", "preparing", "again", "saving", "releasing", "failed"}
  PROVE  LET r == After(t, at, run[t].claim, fault)
         IN  /\ r \in Bridge!Run
             /\ r.at = at /\ r.claim = run[t].claim /\ r.fault = fault /\ r.head = run[t].head
             /\ Bridge!Expected(r) = Bridge!Expected(run[t])
BY RunFacts DEF After, Bridge!Run, Bridge!Expected

\* A step that leaves the row alone: what is about to be saved has been prepared,
\* and a run that fails has made no claim, or ends with a fault of its own, or has
\* found that the claim is no longer its own.
LEMMA FileStep ==
  ASSUME BridgeInv, NEW t \in Terminals,
         NEW fault \in BOOLEAN,
         NEW at \in {"idle", "preparing", "again", "saving", "releasing", "failed"},
         run' = [run EXCEPT ![t] = After(t, at, run[t].claim, fault)],
         UNCHANGED <<claimed, mapHead>>,
         contexts' \in SUBSET Bridge!Prepared, contexts \subseteq contexts',
         saved' \subseteq contexts', faults' \in 0..MaxFaults,
         at = "saving" =>
           [version |-> Bridge!Expected(run[t]), head |-> run[t].head] \in contexts',
         (at = "failed" /\ ~fault /\ run[t].claim # 0) =>
            ~(Bridge!Held(t) /\ claimed.version = run[t].claim)
  PROVE  BridgeInv'
<1> DEFINE r == After(t, at, run[t].claim, fault)
<1>1. /\ r \in Bridge!Run
      /\ r.at = at /\ r.claim = run[t].claim /\ r.fault = fault /\ r.head = run[t].head
      /\ Bridge!Expected(r) = Bridge!Expected(run[t])
  BY AfterIsRun
<1>2. r.claim <= claimed'.version
  BY <1>1, RunFacts
<1>3. (r.at = "failed" /\ ~r.fault /\ r.claim # 0) =>
            ~(claimed'.status = "in_progress" /\ claimed'.owner = Actor[t]
                /\ claimed'.version = r.claim)
  BY <1>1 DEF Bridge!Held
<1>4. /\ r.at # "claiming"
      /\ r.at = "saving" => [version |-> Bridge!Expected(r), head |-> r.head] \in contexts'
  BY <1>1
<1> HIDE DEF r
<1> QED
  BY <1>1, <1>2, <1>3, <1>4, RunStep DEF r

\* A context is prepared of the work and the map as the bridge has read them; a
\* refusal sends a run with a claim of its own to its release.
LEMMA PrepareStep ==
  ASSUME BridgeInv, NEW t \in Terminals, Bridge!Prepare(t)
  PROVE  BridgeInv'
<1> DEFINE error == Bridge!AfterError(run[t])
           new   == contexts \cup {Bridge!Context(run[t])}
<1>1. UNCHANGED <<claimed, mapHead>> /\ saved' = saved
  BY DEF Bridge!Prepare
<1>2. error \in {"releasing", "failed"} /\ (error = "failed" => run[t].claim = 0)
  BY DEF Bridge!AfterError
<1>3. Bridge!Unmoved(run[t]) =>
        /\ Bridge!Context(run[t]) \in Bridge!Prepared
        /\ Bridge!Context(run[t]) = [version |-> Bridge!Expected(run[t]), head |-> run[t].head]
  BY RunFacts DEF Bridge!Unmoved, Bridge!Context, Bridge!Prepared
<1> HIDE DEF error
<1> DEFINE Goes(at, fault) ==
             /\ run' = [run EXCEPT ![t] = After(t, at, run[t].claim, fault)]
             /\ faults' = faults \/ (faults' = faults + 1 /\ faults < MaxFaults)
             /\ \/ at = "saving" /\ Bridge!Unmoved(run[t]) /\ contexts' = new
                \/ at = "again" /\ contexts' = contexts
                \/ at = error /\ contexts' = contexts
                \/ at = error /\ Bridge!Unmoved(run[t]) /\ contexts' = new
<1>4. PICK at \in {"saving", "again", error}, fault \in BOOLEAN : Goes(at, fault)
  <2>1. run[t].fault \in BOOLEAN /\ TRUE \in BOOLEAN /\ FALSE \in BOOLEAN
    BY RunFacts
  <2>2. CASE /\ Bridge!Unmoved(run[t]) /\ contexts' = new
             /\ Bridge!Goes(t, "saving") /\ faults' = faults
    <3>1. Goes("saving", run[t].fault)
      BY <2>2, GoesOn
    <3> HIDE DEF Goes
    <3> QED
      BY <2>1, <3>1
  <2>3. CASE Bridge!Goes(t, "again") /\ UNCHANGED <<contexts, faults>>
    <3>1. Goes("again", run[t].fault)
      BY <2>3, GoesOn
    <3> HIDE DEF Goes
    <3> QED
      BY <2>1, <3>1
  <2>4. CASE Bridge!Goes(t, error) /\ UNCHANGED <<contexts, faults>>
    <3>1. Goes(error, run[t].fault)
      BY <2>4, GoesOn
    <3> HIDE DEF Goes
    <3> QED
      BY <2>1, <3>1
  <2>5. CASE /\ Bridge!Unmoved(run[t]) /\ contexts' \in {contexts, new}
             /\ Bridge!Fault(t, error)
    <3>1. Goes(error, error = "failed")
      BY <2>5, GoesOn
    <3>2. (error = "failed") \in BOOLEAN
      OBVIOUS
    <3> HIDE DEF Goes
    <3> QED
      BY <3>1, <3>2
  <2> QED
    BY <2>2, <2>3, <2>4, <2>5 DEF Bridge!Prepare, error
<1>5. at \in {"saving", "again", "releasing", "failed"}
  BY <1>2, <1>4
<1>6. /\ contexts' \in SUBSET Bridge!Prepared /\ contexts \subseteq contexts'
      /\ saved' \subseteq contexts' /\ faults' \in 0..MaxFaults
  BY <1>1, <1>3, <1>4, RunFacts
<1>7. at = "saving" =>
        [version |-> Bridge!Expected(run[t]), head |-> run[t].head] \in contexts'
  BY <1>2, <1>3, <1>4
<1>8. at = "failed" => run[t].claim = 0
  BY <1>2, <1>4
<1> HIDE DEF new
<1> QED
  BY <1>1, <1>4, <1>5, <1>6, <1>7, <1>8, FileStep

\* A release gives up the very claim that was made.
LEMMA ReleaseStep ==
  ASSUME BridgeInv, NEW t \in Terminals, Bridge!Release(t)
  PROVE  BridgeInv'
<1> DEFINE r == After(t, "failed", run[t].claim, run[t].fault)
<1>1. UNCHANGED <<mapHead, contexts, saved>>
  BY DEF Bridge!Release
<1>2. CASE /\ claimed.version < MaxVersion
           /\ claimed' = Bridge!Row("ready", "agent")
           /\ Bridge!Goes(t, "failed")
           /\ faults' = faults
  <2>1. /\ claimed' \in Bridge!WorkRow /\ claimed'.version = claimed.version + 1
        /\ claimed'.status = "ready"
    BY <1>2, NextVersion
  <2>2. run' = [run EXCEPT ![t] = r]
    BY <1>2, GoesOn
  <2>3. /\ r \in Bridge!Run /\ r.at = "failed" /\ r.claim = run[t].claim
    BY AfterIsRun, RunFacts
  <2>4. r.claim <= claimed'.version
    BY BridgeBounds, <2>1, <2>3, RunFacts
  <2> HIDE DEF r
  <2> QED
    BY <1>1, <1>2, <2>1, <2>2, <2>3, <2>4, RunFacts, RunStep
<1>3. CASE /\ ~(Bridge!Held(t) /\ claimed.version = run[t].claim)
           /\ Bridge!Goes(t, "failed")
           /\ UNCHANGED <<claimed, faults>>
  <2>1. run' = [run EXCEPT ![t] = r] /\ run[t].fault \in BOOLEAN
    BY <1>3, GoesOn, RunFacts
  <2> QED
    BY <1>1, <1>3, <2>1, RunFacts, FileStep
<1>4. CASE Bridge!Fault(t, "failed") /\ UNCHANGED claimed
  <2>1. /\ run' = [run EXCEPT ![t] = After(t, "failed", run[t].claim, TRUE)]
        /\ faults' \in 0..MaxFaults
    BY <1>4, GoesOn, RunFacts
  <2> QED
    BY <1>1, <1>4, <2>1, RunFacts, FileStep
<1> QED
  BY <1>2, <1>3, <1>4 DEF Bridge!Release

\* What is saved is what was prepared.
LEMMA SaveStep ==
  ASSUME BridgeInv, NEW t \in Terminals, Bridge!Save(t)
  PROVE  BridgeInv'
<1>1. UNCHANGED <<claimed, mapHead, contexts>>
  BY DEF Bridge!Save, Bridge!store
<1>2. [version |-> Bridge!Expected(run[t]), head |-> run[t].head] \in contexts
  BY DEF Bridge!Save, BridgeInv, InOrder, SavesPrepared
<1>3. saved' \subseteq contexts'
  BY <1>1, <1>2, RunFacts DEF Bridge!Save
<1>4. CASE Bridge!Goes(t, "idle") /\ faults' = faults
  <2>1. /\ run' = [run EXCEPT ![t] = After(t, "idle", run[t].claim, run[t].fault)]
        /\ run[t].fault \in BOOLEAN /\ faults' \in 0..MaxFaults
    BY <1>4, GoesOn, RunFacts
  <2> QED
    BY <1>1, <1>3, <2>1, RunFacts, FileStep
<1>5. CASE Bridge!Fault(t, "failed")
  <2>1. /\ run' = [run EXCEPT ![t] = After(t, "failed", run[t].claim, TRUE)]
        /\ faults' \in 0..MaxFaults
    BY <1>5, GoesOn, RunFacts
  <2> QED
    BY <1>1, <1>3, <2>1, RunFacts, FileStep
<1> QED
  BY <1>4, <1>5 DEF Bridge!Save

\* A bridge that is stopped leaves everything as it is.
LEMMA StopStep ==
  ASSUME BridgeInv, NEW t \in Terminals, Bridge!Stop(t)
  PROVE  BridgeInv'
<1>1. UNCHANGED <<claimed, mapHead, contexts, saved>> /\ Bridge!Fault(t, "failed")
  BY DEF Bridge!Stop, Bridge!store
<1>2. /\ run' = [run EXCEPT ![t] = After(t, "failed", run[t].claim, TRUE)]
      /\ faults' \in 0..MaxFaults
  BY <1>1, GoesOn, RunFacts
<1> QED
  BY <1>1, <1>2, RunFacts, FileStep

\* Others move the map and the work, the work always to its next version.
LEMMA OthersStep ==
  ASSUME BridgeInv, Bridge!MapMoves \/ Bridge!OwnerReleases \/ Bridge!Deliver
  PROVE  BridgeInv'
<1>1. UNCHANGED <<contexts, run, saved, faults>>
  BY DEF Bridge!MapMoves, Bridge!OwnerReleases, Bridge!Deliver
<1>2. claimed \in Bridge!WorkRow /\ claimed.version \in 1..MaxVersion
      /\ claimed = [status |-> claimed.status, owner |-> claimed.owner, version |-> claimed.version]
      /\ claimed.owner \in {"agent"} \cup {Actor[t] : t \in Terminals}
      /\ claimed.status \in {"ready", "in_progress", "done"}
  BY DEF BridgeInv, Bridge!TypeOK, Bridge!WorkRow
<1>3. \/ claimed' = claimed
      \/ claimed' \in Bridge!WorkRow /\ claimed'.version = claimed.version + 1
  <2>1. CASE Bridge!MapMoves
    <3>1. \/ claimed' = claimed
          \/ claimed.version < MaxVersion /\ claimed' = Bridge!Row(claimed.status, claimed.owner)
      BY <1>2, <2>1 DEF Bridge!MapMoves, Bridge!Row
    <3> QED
      BY <1>2, <3>1, NextVersion
  <2>2. CASE Bridge!OwnerReleases
    BY <2>2, NextVersion DEF Bridge!OwnerReleases
  <2>3. CASE Bridge!Deliver
    BY <1>2, <2>3, NextVersion DEF Bridge!Deliver
  <2> QED
    BY <2>1, <2>2, <2>3
<1>4. mapHead' \in 1..MaxHead
  BY BridgeBounds DEF Bridge!MapMoves, Bridge!OwnerReleases, Bridge!Deliver, BridgeInv, Bridge!TypeOK
<1>5. Bridge!TypeOK'
  BY <1>1, <1>2, <1>3, <1>4 DEF BridgeInv, Bridge!TypeOK
<1>6. ASSUME NEW t \in Terminals
      PROVE  InOrder(t)'
  <2>1. run'[t] = run[t] /\ ClaimIsPast(t) /\ SavesPrepared(t) /\ Settled(t) /\ NoClaimYet(t)
    BY <1>1 DEF BridgeInv, InOrder
  <2>2. run[t].claim \in Int /\ claimed.version \in Int
    BY BridgeBounds, RunFacts
  <2>3. ClaimIsPast(t)'
    BY <1>3, <2>1, <2>2 DEF ClaimIsPast
  <2>4. SavesPrepared(t)' /\ NoClaimYet(t)'
    BY <1>1, <2>1 DEF SavesPrepared, NoClaimYet, Bridge!Expected
  <2>5. Settled(t)'
    BY <1>3, <2>1, <2>2 DEF Settled, ClaimIsPast, Bridge!Held
  <2> QED
    BY <2>3, <2>4, <2>5 DEF InOrder
<1> QED
  BY <1>5, <1>6 DEF BridgeInv

\* A start whose preparation was refused, too large or lost releases its claim, and
\* a context is saved only as it was prepared, for any number of terminals.
THEOREM BridgeInvariant == Bridge!Spec => []BridgeInv
<1>1. Bridge!Init => BridgeInv
  BY BridgeBounds DEF Bridge!Init, BridgeInv, Bridge!TypeOK, Bridge!WorkRow, Bridge!Prepared,
         Bridge!Run, Bridge!Idle, InOrder, ClaimIsPast, SavesPrepared, Settled, NoClaimYet
<1>2. BridgeInv /\ [Bridge!Next]_(Bridge!vars) => BridgeInv'
  <2>1. SUFFICES ASSUME BridgeInv, [Bridge!Next]_(Bridge!vars) PROVE BridgeInv'
    OBVIOUS
  <2>2. CASE \E t \in Terminals :
               \/ Bridge!Read(t) \/ Bridge!ResumeOwned(t) \/ Bridge!Claim(t) \/ Bridge!Prepare(t)
               \/ Bridge!Release(t) \/ Bridge!Save(t) \/ Bridge!Stop(t)
    BY <2>1, <2>2, ReadStep, ClaimStep, PrepareStep, ReleaseStep, SaveStep, StopStep
  <2>3. CASE Bridge!MapMoves \/ Bridge!OwnerReleases \/ Bridge!Deliver
    BY <2>1, <2>3, OthersStep
  <2>4. CASE UNCHANGED Bridge!vars
    BY <2>1, <2>4
    DEF Bridge!vars, Bridge!store, BridgeInv, InOrder, ClaimIsPast, SavesPrepared, Settled,
        NoClaimYet, Bridge!TypeOK, Bridge!Held, Bridge!Expected
  <2> QED
    BY <2>1, <2>2, <2>3, <2>4 DEF Bridge!Next
<1> QED
  BY <1>1, <1>2, PTL DEF Bridge!Spec

\* A start that failed without a fault of its own leaves no claim behind.
THEOREM StartSettles == Bridge!Spec => []FailedStartIsSettled
<1>1. BridgeInv => FailedStartIsSettled
  BY DEF BridgeInv, InOrder, Settled, FailedStartIsSettled, Bridge!FailedStartIsSettled
<1> QED
  BY <1>1, BridgeInvariant, PTL

-----------------------------------------------------------------------------
(* FeedbackOutbox: what is retained, sent, recorded and filed is one report. *)

\* A report under way is the one that is retained, ...
SendsRetained ==
  sending.at # "idle" => sending.report \in Reports /\ outbox = sending.report

\* ... only a retained report is ever recorded, and it is filed once it is.
RecordsRetained ==
  /\ captured # Feedback!None => captured = outbox
  /\ sending.at = "filing" => captured = sending.report

FilesRecorded ==
  receipt # Feedback!None => captured # Feedback!None /\ receipt \in {captured, Feedback!Cut}

FeedbackInv == Feedback!TypeOK /\ SendsRetained /\ RecordsRetained /\ FilesRecorded

\* A report is retained where there is none, or is the one that is there.
LEMMA RetainStep ==
  ASSUME FeedbackInv, NEW c \in Reports, Feedback!Retain(c)
  PROVE  FeedbackInv'
<1>1. /\ sending.at = "idle" /\ outbox \in {Feedback!None, c}
      /\ UNCHANGED <<captured, receipt>>
  BY DEF Feedback!Retain, Feedback!SameAsRetained
<1>2. CASE /\ outbox' = c
           /\ sending' = [at |-> "sending", report |-> c] /\ UNCHANGED mailFaults
  BY <1>1, <1>2
  DEF FeedbackInv, SendsRetained, RecordsRetained, FilesRecorded, Feedback!TypeOK,
      Feedback!Files, Feedback!Record
<1>3. CASE outbox = Feedback!None /\ outbox' = Feedback!Cut /\ Feedback!SendFault /\ UNCHANGED sending
  BY FeedbackNames, <1>1, <1>3
  DEF FeedbackInv, SendsRetained, RecordsRetained, FilesRecorded, Feedback!TypeOK,
      Feedback!Files, Feedback!Record, Feedback!SendFault
<1> QED
  BY <1>1, <1>2, <1>3 DEF Feedback!Retain

\* The store records the report under way, or keeps the one it has.
LEMMA SendStep ==
  ASSUME FeedbackInv, Feedback!Send
  PROVE  FeedbackInv'
<1>1. /\ sending.at = "sending" /\ UNCHANGED <<outbox, receipt>>
      /\ sending.report \in Reports /\ outbox = sending.report
  BY DEF Feedback!Send, FeedbackInv, SendsRetained
<1>2. captured' = captured \/ (captured \in {Feedback!None, sending.report} /\ captured' = sending.report)
  BY DEF Feedback!Send, Feedback!Recordable
<1>3. mailFaults' \in 0..MaxMailFaults
  BY FeedbackNames DEF Feedback!Send, Feedback!SendFault, FeedbackInv, Feedback!TypeOK
<1>4. \/ sending' = [at |-> "filing", report |-> sending.report] /\ captured' = sending.report
      \/ sending' = Feedback!NotSending
  BY DEF Feedback!Send, FeedbackInv, Feedback!TypeOK
<1>5. Feedback!TypeOK'
  BY <1>1, <1>2, <1>3, <1>4
  DEF FeedbackInv, Feedback!TypeOK, Feedback!Record, Feedback!NotSending
<1>6. SendsRetained' /\ RecordsRetained' /\ FilesRecorded'
  BY FeedbackNames, <1>1, <1>2, <1>4
  DEF FeedbackInv, SendsRetained, RecordsRetained, FilesRecorded, Feedback!NotSending
<1> QED
  BY <1>5, <1>6 DEF FeedbackInv

\* A receipt is filed for the report that was recorded, unless there is one.
LEMMA FilingStep ==
  ASSUME FeedbackInv, Feedback!File
  PROVE  FeedbackInv'
<1>1. /\ sending.at = "filing" /\ sending' = Feedback!NotSending /\ UNCHANGED <<outbox, captured>>
      /\ sending.report \in Reports /\ captured = sending.report
  BY DEF Feedback!File, FeedbackInv, SendsRetained, RecordsRetained
<1>2. receipt' \in {receipt, sending.report, Feedback!None, Feedback!Cut}
      /\ (receipt' # receipt => receipt = Feedback!None)
  BY DEF Feedback!File
<1>3. mailFaults' \in 0..MaxMailFaults
  BY FeedbackNames DEF Feedback!File, Feedback!SendFault, FeedbackInv, Feedback!TypeOK
<1>4. Feedback!TypeOK'
  BY <1>1, <1>2, <1>3
  DEF FeedbackInv, Feedback!TypeOK, Feedback!Files, Feedback!Record, Feedback!NotSending
<1>5. SendsRetained' /\ RecordsRetained' /\ FilesRecorded'
  BY FeedbackNames, <1>1, <1>2
  DEF FeedbackInv, SendsRetained, RecordsRetained, FilesRecorded, Feedback!NotSending
<1> QED
  BY <1>4, <1>5 DEF FeedbackInv

\* The invariant of the outbox holds throughout.
LEMMA FeedbackInvariant == Feedback!Spec => []FeedbackInv
<1>1. Feedback!Init => FeedbackInv
  BY FeedbackNames DEF Feedback!Init, FeedbackInv, SendsRetained, RecordsRetained, FilesRecorded,
         Feedback!TypeOK, Feedback!Files, Feedback!Record, Feedback!NotSending
<1>2. FeedbackInv /\ [Feedback!Next]_(Feedback!vars) => FeedbackInv'
  <2>1. SUFFICES ASSUME FeedbackInv, [Feedback!Next]_(Feedback!vars) PROVE FeedbackInv'
    OBVIOUS
  <2>2. CASE UNCHANGED Feedback!vars
    BY <2>1, <2>2
    DEF Feedback!vars, FeedbackInv, SendsRetained, RecordsRetained, FilesRecorded, Feedback!TypeOK
  <2> QED
    BY <2>1, <2>2, RetainStep, SendStep, FilingStep DEF Feedback!Next
<1> QED
  BY <1>1, <1>2, PTL DEF Feedback!Spec

\* A receipt is there only for what the store has recorded, and that is what is
\* retained, for any reports, interruptions and repetitions.
THEOREM ReceiptsAreOfRecords == Feedback!Spec => []ReceiptMeansRecorded
<1>1. FeedbackInv => ReceiptMeansRecorded
  BY DEF FeedbackInv, RecordsRetained, FilesRecorded, ReceiptMeansRecorded,
         Feedback!ReceiptMeansRecorded
<1> QED
  BY <1>1, FeedbackInvariant, PTL

-----------------------------------------------------------------------------
(* Outreach: a revision that was printed on something can be read back.      *)

\* Revision r is retained with this text.
Says(r, text) == r \in 1..Len(retained) /\ retained[r].text = text

\* What is exported, sent and reported is a retained revision, word for word.
CopiesAreRetained == \A s \in Senders : copy[s] # NoCopy => Says(copy[s].revision, copy[s].text)
SentIsRetained    == \A c \in sent : Says(c.revision, c.text)
ReportsAreRetained == \A o \in outcomes : Says(o.revision, o.text)

\* Each revision was written over the one before it.
WrittenInTurn == \A r \in 1..Len(retained) : retained[r].over = r - 1

\* The draft is its latest retained revision.
DraftIsLatest == draft # NoDraft => Says(draft.revision, draft.text)

RetainedRows ==
  /\ retained \in Seq(Snapshot)
  /\ Len(retained) = draft.revision
  /\ draft.revision \in 0..MaxRevisions
  /\ draft \in Draft
  /\ draft # NoDraft => draft.text \in Texts

OtherRows ==
  /\ read \in [Editors -> 0..MaxRevisions]
  /\ copy \in [Senders -> Exported]
  /\ outcomes \subseteq Outcome
  /\ work \in {"ready", "in_progress", "blocked", "done", "cancelled"}
  /\ file \in Bytes

OutreachInv ==
  /\ RetainedRows /\ OtherRows
  /\ DraftIsLatest /\ WrittenInTurn
  /\ CopiesAreRetained /\ SentIsRetained /\ ReportsAreRetained

\* Retained revisions stay what they are when one more is retained.
LEMMA SaysStays ==
  ASSUME RetainedRows, NEW row \in Snapshot, retained' = Append(retained, row)
  PROVE  /\ \A r, text : Says(r, text) => Says(r, text)'
         /\ \A r : r = Len(retained) + 1 => Says(r, row.text)'
         /\ Len(retained') = Len(retained) + 1
         /\ retained' \in Seq(Snapshot)
         /\ (WrittenInTurn /\ row.over = Len(retained)) => WrittenInTurn'
<1>1. /\ Len(retained) \in Nat
      /\ retained' \in Seq(Snapshot)
      /\ Len(retained') = Len(retained) + 1
      /\ retained'[Len(retained) + 1] = row
      /\ \A r \in 1..Len(retained) : retained'[r] = retained[r]
  BY DEF RetainedRows
<1>2. \A r \in 1..Len(retained') : r \in 1..Len(retained) \/ r = Len(retained) + 1
  BY <1>1
<1>3. (WrittenInTurn /\ row.over = Len(retained)) => WrittenInTurn'
  BY <1>1, <1>2 DEF WrittenInTurn
<1>4. \A r, text : Says(r, text) => Says(r, text)'
  BY <1>1 DEF Says
<1>5. \A r : r = Len(retained) + 1 => Says(r, row.text)'
  BY <1>1 DEF Says
<1> QED
  BY <1>1, <1>3, <1>4, <1>5

\* A draft is created, and revised by an editor who has read its latest revision.
LEMMA WriteStep ==
  ASSUME OutreachInv,
         \/ \E text \in Texts, linked \in BOOLEAN : Create(text, linked)
         \/ \E e \in Editors, text \in Texts : Revise(e, text)
  PROVE  OutreachInv'
<1>1. PICK row \in Snapshot, linked \in BOOLEAN :
        /\ retained' = Append(retained, row)
        /\ row.over = Len(retained)
        /\ draft' = [text |-> row.text, revision |-> Len(retained) + 1, linked |-> linked]
        /\ Len(retained) + 1 \in 1..MaxRevisions
        /\ UNCHANGED <<read, copy, outcomes, work, file, sent>>
  <2>1. CASE \E text \in Texts, linked \in BOOLEAN : Create(text, linked)
    <3>1. PICK text \in Texts, linked \in BOOLEAN : Create(text, linked)
      BY <2>1
    <3> DEFINE row == [text |-> text, over |-> 0]
    <3>2. row \in Snapshot /\ row.text = text /\ row.over = 0
      BY BoundsAreNat DEF Snapshot
    <3>3. retained = <<>> /\ Len(retained) = 0
      BY <3>1 DEF Create, NoDraft, OutreachInv, RetainedRows
    <3>4. retained' = Append(retained, row)
      BY <3>1, <3>3 DEF Create
    <3>5. draft' = [text |-> row.text, revision |-> Len(retained) + 1, linked |-> linked]
      BY <3>1, <3>3 DEF Create
    <3>6. 1 \in 1..MaxRevisions
      BY BoundsAreNat
    <3> HIDE DEF row
    <3> QED
      BY <3>1, <3>2, <3>3, <3>4, <3>5, <3>6 DEF Create
  <2>2. CASE \E e \in Editors, text \in Texts : Revise(e, text)
    <3>1. PICK e \in Editors, text \in Texts : Revise(e, text)
      BY <2>2
    <3> DEFINE row == [text |-> text, over |-> read[e]]
    <3>2. /\ read[e] = Len(retained) /\ read[e] \in 0..MaxRevisions
          /\ Len(retained) < MaxRevisions /\ draft.revision = Len(retained)
          /\ draft \in Draft
      BY <3>1 DEF Revise, Fresh, OutreachInv, RetainedRows, OtherRows
    <3>3. row \in Snapshot /\ row.text = text /\ row.over = Len(retained)
      BY <3>2 DEF Snapshot
    <3>4. retained' = Append(retained, row)
      BY <3>1 DEF Revise
    <3>5. draft' = [text |-> row.text, revision |-> Len(retained) + 1, linked |-> draft.linked]
          /\ draft.linked \in BOOLEAN
      BY <3>1, <3>2 DEF Revise, Draft
    <3>6. Len(retained) + 1 \in 1..MaxRevisions
      BY <3>2, BoundsAreNat
    <3> HIDE DEF row
    <3> QED
      BY <3>1, <3>3, <3>4, <3>5, <3>6 DEF Revise
  <2> QED
    BY <2>1, <2>2
<1>2. /\ \A r, text : Says(r, text) => Says(r, text)'
      /\ \A r : r = Len(retained) + 1 => Says(r, row.text)'
      /\ Len(retained') = Len(retained) + 1
      /\ retained' \in Seq(Snapshot)
      /\ WrittenInTurn'
  BY <1>1, SaysStays DEF OutreachInv
<1>3. row.text \in Texts
  BY DEF Snapshot
<1>4. RetainedRows'
  BY <1>1, <1>2, <1>3 DEF RetainedRows, Draft
<1>5. DraftIsLatest'
  BY <1>1, <1>2 DEF DraftIsLatest
<1>6. OtherRows'
  BY <1>1 DEF OutreachInv, OtherRows
<1>7. CopiesAreRetained' /\ SentIsRetained' /\ ReportsAreRetained'
  BY <1>1, <1>2 DEF OutreachInv, CopiesAreRetained, SentIsRetained, ReportsAreRetained
<1> QED
  BY <1>2, <1>4, <1>5, <1>6, <1>7 DEF OutreachInv

\* An export is of the latest revision.
LEMMA ExportStep ==
  ASSUME OutreachInv, NEW s \in Senders, NEW attached, Export(s, attached)
  PROVE  OutreachInv'
<1> DEFINE new == [text |-> draft.text, revision |-> draft.revision]
<1>1. /\ UNCHANGED <<draft, retained, read, outcomes, work, file, sent>>
      /\ draft # NoDraft /\ copy' = [copy EXCEPT ![s] = new]
  BY DEF Export
<1>2. new \in Exported
  BY DEF OutreachInv, RetainedRows, Draft, Exported
<1>3. Says(new.revision, new.text)
  BY <1>1 DEF OutreachInv, DraftIsLatest
<1> HIDE DEF new
<1>4. \A x \in Senders : copy'[x] = new \/ copy'[x] = copy[x]
  BY <1>1 DEF OutreachInv, OtherRows
<1>5. CopiesAreRetained'
  BY <1>1, <1>3, <1>4 DEF OutreachInv, CopiesAreRetained, Says
<1>6. OtherRows'
  BY <1>1, <1>2 DEF OutreachInv, OtherRows
<1> QED
  BY <1>1, <1>5, <1>6
  DEF OutreachInv, RetainedRows, DraftIsLatest, WrittenInTurn, SentIsRetained, ReportsAreRetained, Says

\* What is sent, and what is reported of it, is an exported revision.
LEMMA SendingStep ==
  ASSUME OutreachInv, NEW s \in Senders, Send(s)
  PROVE  OutreachInv'
<1>1. /\ UNCHANGED <<draft, retained, read, copy, outcomes, work, file>>
      /\ copy[s] # NoCopy /\ sent' = sent \cup {copy[s]}
  BY DEF Send
<1>2. Says(copy[s].revision, copy[s].text)
  BY <1>1 DEF OutreachInv, CopiesAreRetained
<1>3. SentIsRetained'
  BY <1>1, <1>2 DEF OutreachInv, SentIsRetained, Says
<1> QED
  BY <1>1, <1>3
  DEF OutreachInv, RetainedRows, OtherRows, DraftIsLatest, WrittenInTurn, CopiesAreRetained,
      ReportsAreRetained, Says

LEMMA ReportStep ==
  ASSUME OutreachInv, NEW s \in Senders, NEW kind \in Kinds, Report(s, kind)
  PROVE  OutreachInv'
<1> DEFINE r == copy[s].revision
           o == [kind |-> kind, revision |-> r, by |-> s, text |-> retained[r].text]
<1>1. /\ UNCHANGED <<draft, retained, read, copy, file, sent>>
      /\ copy[s] \in sent /\ outcomes' = outcomes \cup {o}
      /\ work' \in {"done", work}
  BY DEF Report
<1>2. r \in 1..Len(retained)
  BY <1>1 DEF OutreachInv, SentIsRetained, Says
<1>3. retained[r] \in Snapshot /\ Len(retained) \in 0..MaxRevisions
  BY <1>2 DEF OutreachInv, RetainedRows
<1>4. r \in 1..MaxRevisions /\ retained[r].text \in Texts
  BY <1>2, <1>3, BoundsAreNat DEF Snapshot
<1>5. o \in Outcome
  BY <1>4 DEF Outcome
<1>6. Says(o.revision, o.text)
  BY <1>2 DEF Says
<1> HIDE DEF o
<1>7. ReportsAreRetained'
  BY <1>1, <1>6 DEF OutreachInv, ReportsAreRetained, Says
<1>8. OtherRows'
  BY <1>1, <1>5 DEF OutreachInv, OtherRows
<1> QED
  BY <1>1, <1>7, <1>8
  DEF OutreachInv, RetainedRows, DraftIsLatest, WrittenInTurn, CopiesAreRetained, SentIsRetained, Says

\* The rest leaves the draft and what is retained of it alone.
LEMMA OtherStep ==
  ASSUME OutreachInv,
         \/ \E e \in Editors : Read(e)
         \/ WorkMoves
         \/ \E b \in Bytes : FileChanges(b)
  PROVE  OutreachInv'
<1>1. UNCHANGED <<draft, retained, copy, outcomes, sent>>
  BY DEF Read, WorkMoves, FileChanges
<1>2. OtherRows'
  BY DEF Read, WorkMoves, FileChanges, OutreachInv, OtherRows, RetainedRows
<1> QED
  BY <1>1, <1>2
  DEF OutreachInv, RetainedRows, DraftIsLatest, WrittenInTurn, CopiesAreRetained, SentIsRetained,
      ReportsAreRetained, Says

\* The invariant of a draft holds throughout.
LEMMA OutreachInvariant == Spec => []OutreachInv
<1>1. Init => OutreachInv
  <2>1. SUFFICES ASSUME Init PROVE OutreachInv
    OBVIOUS
  <2>2. RetainedRows
    BY <2>1, BoundsAreNat DEF Init, RetainedRows, NoDraft, Draft
  <2>3. OtherRows
    <3>1. Registered \in Bytes
      BY BoundsAreNat DEF Registered
    <3> QED
      BY <2>1, <3>1, BoundsAreNat DEF Init, OtherRows, NoCopy, Exported
  <2> QED
    BY <2>1, <2>2, <2>3
    DEF Init, OutreachInv, DraftIsLatest, WrittenInTurn, CopiesAreRetained, SentIsRetained,
        ReportsAreRetained
<1>2. OutreachInv /\ [Next]_vars => OutreachInv'
  <2>1. SUFFICES ASSUME OutreachInv, [Next]_vars PROVE OutreachInv'
    OBVIOUS
  <2>2. CASE UNCHANGED vars
    BY <2>1, <2>2
    DEF vars, OutreachInv, RetainedRows, OtherRows, DraftIsLatest, WrittenInTurn, CopiesAreRetained,
        SentIsRetained, ReportsAreRetained, Says
  <2> QED
    BY <2>1, <2>2, WriteStep, ExportStep, SendingStep, ReportStep, OtherStep DEF Next
<1> QED
  BY <1>1, <1>2, PTL DEF Spec

\* The draft, its revisions, exports and reports are of their kinds.
LEMMA OutreachTypeCorrect == Spec => []TypeOK
<1>1. OutreachInv => TypeOK
  <2>1. SUFFICES ASSUME OutreachInv PROVE draft # NoDraft => Last(retained).text = draft.text
    BY DEF OutreachInv, RetainedRows, OtherRows, TypeOK
  <2> QED
    BY <2>1 DEF OutreachInv, RetainedRows, DraftIsLatest, Says, Last
<1> QED
  BY <1>1, OutreachInvariant, PTL

\* What was sent and reported is retained word for word under the revision printed
\* on it, and every revision was written by somebody who had read the one before.
THEOREM SentCanBeReadBack == Spec => []SentTextIsRetained
<1>1. OutreachInv => SentTextIsRetained
  BY DEF OutreachInv, SentIsRetained, ReportsAreRetained, WrittenInTurn, Says, SentTextIsRetained
<1> QED
  BY <1>1, OutreachInvariant, PTL

-----------------------------------------------------------------------------
\* Each of them is at any time in a state it can be in: the bridge and its claim, the
\* outbox, and the draft with its revisions and copies.
THEOREM TypesCorrect == Spec /\ Bridge!Spec /\ Feedback!Spec => []TypesOK
<1>1. BridgeInv => Bridge!TypeOK
  BY DEF BridgeInv
<1>2. FeedbackInv => Feedback!TypeOK
  BY DEF FeedbackInv
<1>3. TypeOK /\ Bridge!TypeOK /\ Feedback!TypeOK => TypesOK
  BY DEF TypesOK
<1> QED
  BY <1>1, <1>2, <1>3, BridgeInvariant, FeedbackInvariant, OutreachTypeCorrect, PTL

-----------------------------------------------------------------------------
(* MapAlgorithms: the loops and the search compute what MapGraph defines.   *)

\* The nodes of a draft whose edges lie within it.
GoodDraft(d) == \A e \in d.edge : e.source \in Maps!Nodes(d) /\ e.target \in Maps!Nodes(d)

\* The loop of dependent_work stops when the set is closed under influence; it stays
\* within the map, and within every closed set that holds what it began with.
LEMMA DownStops ==
  ASSUME NEW d, NEW S
  PROVE  Maps!StepDown(d, S) \subseteq S <=> Maps!ClosedUnder(Maps!Influence(d), S)
<1>1. \A q \in Maps!Influence(d) : q = <<q[1], q[2]>>
  BY DEF Maps!Influence
<1> QED BY <1>1 DEF Maps!StepDown, Maps!ClosedUnder

LEMMA DownStays ==
  ASSUME NEW d, GoodDraft(d), NEW S
  PROVE  Maps!StepDown(d, S) \subseteq Maps!Nodes(d)
BY DEF Maps!StepDown, Maps!Influence, GoodDraft

LEMMA DownWithin ==
  ASSUME NEW d, GoodDraft(d), NEW c, NEW S, S \subseteq Maps!Downstream(d, c)
  PROVE  Maps!StepDown(d, S) \subseteq Maps!Downstream(d, c)
<1>1. ASSUME NEW n \in Maps!StepDown(d, S), NEW T \in Maps!ClosedSets(d, c)
      PROVE  n \in T
  <2>1. S \subseteq T
    BY DEF Maps!Downstream
  <2>2. Maps!ClosedUnder(Maps!Influence(d), T)
    BY DEF Maps!ClosedSets
  <2> QED BY <2>1, <2>2 DEF Maps!StepDown, Maps!ClosedUnder
<1> QED BY <1>1, DownStays DEF Maps!Downstream

LEMMA DownEnds ==
  ASSUME NEW d, NEW c, NEW S, c \subseteq S, S \subseteq Maps!Nodes(d),
         S \subseteq Maps!Downstream(d, c), Maps!StepDown(d, S) \subseteq S
  PROVE  S = Maps!Downstream(d, c)
<1>1. S \in Maps!ClosedSets(d, c)
  BY DownStops DEF Maps!ClosedSets
<1> QED BY <1>1 DEF Maps!Downstream

LEMMA DownBegins ==
  ASSUME NEW d, NEW c, c \subseteq Maps!Nodes(d)
  PROVE  c \subseteq Maps!Downstream(d, c)
BY DEF Maps!Downstream, Maps!ClosedSets

\* The same of the loop of task_map, which follows influence against its direction.
LEMMA UpStays ==
  ASSUME NEW d, GoodDraft(d), NEW S
  PROVE  Maps!StepUp(d, S) \subseteq Maps!Nodes(d)
BY DEF Maps!StepUp, Maps!Influence, GoodDraft

LEMMA UpWithin ==
  ASSUME NEW d, GoodDraft(d), NEW w, NEW S, S \subseteq Maps!TaskCore(d, w)
  PROVE  Maps!StepUp(d, S) \subseteq Maps!TaskCore(d, w)
<1> DEFINE Closed == {T \in SUBSET Maps!Nodes(d) :
                        /\ Maps!TaskStart(d, w) \subseteq T
                        /\ \A p \in Maps!Influence(d) : p[2] \in T => p[1] \in T}
<1>1. Maps!TaskCore(d, w) = {n \in Maps!Nodes(d) : \A T \in Closed : n \in T}
  BY DEF Maps!TaskCore
<1>2. ASSUME NEW n \in Maps!StepUp(d, S), NEW T \in Closed
      PROVE  n \in T
  BY <1>1 DEF Maps!StepUp
<1> QED BY <1>1, <1>2, UpStays

LEMMA UpEnds ==
  ASSUME NEW d, NEW w, NEW S, Maps!TaskStart(d, w) \subseteq S, S \subseteq Maps!Nodes(d),
         S \subseteq Maps!TaskCore(d, w), Maps!StepUp(d, S) \subseteq S
  PROVE  S = Maps!TaskCore(d, w)
<1> DEFINE Closed == {T \in SUBSET Maps!Nodes(d) :
                        /\ Maps!TaskStart(d, w) \subseteq T
                        /\ \A p \in Maps!Influence(d) : p[2] \in T => p[1] \in T}
<1>1. Maps!TaskCore(d, w) = {n \in Maps!Nodes(d) : \A T \in Closed : n \in T}
  BY DEF Maps!TaskCore
<1>2. S \in Closed
  BY DEF Maps!StepUp
<1> QED BY <1>1, <1>2

LEMMA UpBegins ==
  ASSUME NEW d, NEW w, Maps!TaskStart(d, w) \subseteq Maps!Nodes(d)
  PROVE  Maps!TaskStart(d, w) \subseteq Maps!TaskCore(d, w)
BY DEF Maps!TaskCore

LEMMA StartInMap ==
  ASSUME NEW d, NEW w, d.focus \subseteq Maps!Nodes(d)
  PROVE  Maps!TaskStart(d, w) \subseteq Maps!Nodes(d)
BY DEF Maps!TaskStart

\* A round that finds something new makes the set larger.
LEMMA RoundAdds ==
  ASSUME NEW U, IsFiniteSet(U), NEW S \in SUBSET U, NEW more \in SUBSET U, ~ more \subseteq S
  PROVE  /\ Cardinality(S) \in Nat /\ Cardinality(U) \in Nat
         /\ Cardinality(S \cup more) \in Nat
         /\ Cardinality(S) + 1 <= Cardinality(S \cup more)
         /\ Cardinality(S \cup more) <= Cardinality(U)
<1>1. PICK n \in more : n \notin S
  OBVIOUS
<1>2. IsFiniteSet(S) /\ IsFiniteSet(S \cup more) /\ IsFiniteSet(S \cup {n})
  BY FS_Subset, S \cup {n} \subseteq U
<1>3. Cardinality(S \cup {n}) = Cardinality(S) + 1
  BY <1>1, <1>2, FS_AddElement
<1>4. Cardinality(S \cup {n}) <= Cardinality(S \cup more)
  BY <1>1, <1>2, FS_Subset, S \cup {n} \subseteq S \cup more
<1>5. Cardinality(S \cup more) <= Cardinality(U)
  BY <1>2, FS_Subset, S \cup more \subseteq U
<1> QED BY <1>2, <1>3, <1>4, <1>5, FS_CardinalityType

LEMMA SameCardinality == ASSUME NEW S PROVE Maps!Cardinality(S) = Cardinality(S)
BY DEF Maps!Cardinality, Cardinality

\* Each set of nodes has a member that waits for no other.
WellFounded(d, C) ==
  \A S \in SUBSET C : S # {} => \E n \in S : Maps!Waits(d, n) \cap S = {}

LEMMA ReturnKeepsFounded ==
  ASSUME NEW d, NEW C, NEW n, n \notin C, Maps!Waits(d, n) \subseteq C,
         \A m \in C : Maps!Waits(d, m) \subseteq C, WellFounded(d, C)
  PROVE  WellFounded(d, C \cup {n})
<1> SUFFICES ASSUME NEW S \in SUBSET (C \cup {n}), S # {}
             PROVE  \E m \in S : Maps!Waits(d, m) \cap S = {}
  BY DEF WellFounded
<1>1. CASE S \cap C = {}
  BY <1>1
<1>2. CASE S \cap C # {}
  <2>1. PICK m \in S \cap C : Maps!Waits(d, m) \cap (S \cap C) = {}
    BY <1>2, S \cap C \in SUBSET C DEF WellFounded
  <2> QED BY <2>1
<1> QED BY <1>1, <1>2

LEMMA AllReturned ==
  ASSUME NEW d, NEW C, WellFounded(d, C), Maps!Nodes(d) \subseteq C
  PROVE  Maps!AcyclicPrerequisites(d)
<1>1. ASSUME NEW S \in (SUBSET Maps!Nodes(d)) \ {{}}
      PROVE  \E n \in S : \A e \in d.edge :
               (e.kind = "depends_on" /\ e.source = n) => e.target \notin S
  <2>1. PICK n \in S : Maps!Waits(d, n) \cap S = {}
    BY DEF WellFounded
  <2> QED BY <2>1 DEF Maps!Waits
<1> QED BY <1>1 DEF Maps!AcyclicPrerequisites

\* A call of visit: a node, and those of the nodes it waits for still to visit.
Frame == [node : DOMAIN Body, left : SUBSET DOMAIN Body]

\* The open calls: distinct nodes of which each waits for the next, none of them
\* returned from; what a call is done with has returned, but for the next call.
PathOK(d, p, C) ==
  /\ p \in Seq(Frame)
  /\ C \subseteq DOMAIN Body
  /\ \A i \in 1..Len(p) : p[i].node \notin C
  /\ \A i, j \in 1..Len(p) : p[i].node = p[j].node => i = j
  /\ \A i \in 1..Len(p) : p[i].left \subseteq Maps!Waits(d, p[i].node)
  /\ \A i \in 1..(Len(p) - 1) : p[i + 1].node \in Maps!Waits(d, p[i].node)
  /\ \A i \in 1..(Len(p) - 1) :
       Maps!Waits(d, p[i].node) \ p[i].left \subseteq C \cup {p[i + 1].node}
  /\ Len(p) # 0 => Maps!Waits(d, p[Len(p)].node) \ p[Len(p)].left \subseteq C
  /\ \A n \in C : Maps!Waits(d, n) \subseteq C
  /\ WellFounded(d, C)

\* An innermost call that waits for an open one closes a cycle.
LEMMA CycleFound ==
  ASSUME NEW d, NEW p, NEW C, PathOK(d, p, C), Maps!Nodes(d) = DOMAIN Body,
         NEW i \in 1..Len(p), p[i].node \in Maps!Waits(d, p[Len(p)].node)
  PROVE  ~ Maps!AcyclicPrerequisites(d)
<1> DEFINE S == {p[j].node : j \in i..Len(p)}
<1>0. Len(p) \in Nat /\ i \in Nat /\ \A j \in 1..Len(p) : p[j] \in Frame
  BY DEF PathOK
<1>1. S \in (SUBSET Maps!Nodes(d)) \ {{}}
  <2>1. \A j \in i..Len(p) : j \in 1..Len(p) /\ i \in i..Len(p)
    BY <1>0
  <2>2. \A j \in i..Len(p) : p[j].node \in Maps!Nodes(d)
    BY <1>0, <2>1 DEF Frame
  <2>3. p[i].node \in S
    BY <1>0, i \in i..Len(p)
  <2> QED BY <2>2, <2>3
<1>2. ASSUME NEW n \in S
      PROVE  \E e \in d.edge : e.kind = "depends_on" /\ e.source = n /\ e.target \in S
  <2>1. PICK j \in i..Len(p) : n = p[j].node
    OBVIOUS
  <2>2. \E m \in S : m \in Maps!Waits(d, n)
    <3>1. CASE j = Len(p)
      BY <1>0, <2>1, <3>1
    <3>2. CASE j # Len(p)
      <4>1. j \in 1..(Len(p) - 1) /\ j + 1 \in i..Len(p)
        BY <1>0, <3>2
      <4> QED BY <2>1, <4>1 DEF PathOK
    <3> QED BY <3>1, <3>2
  <2> QED BY <2>2 DEF Maps!Waits
<1> HIDE DEF S
<1> QED BY <1>1, <1>2 DEF Maps!AcyclicPrerequisites

LEMMA PathRoot ==
  ASSUME NEW d, NEW C, PathOK(d, <<>>, C), NEW n \in DOMAIN Body \ C,
         Maps!Waits(d, n) \subseteq DOMAIN Body
  PROVE  PathOK(d, <<[node |-> n, left |-> Maps!Waits(d, n)]>>, C)
<1> DEFINE f == [node |-> n, left |-> Maps!Waits(d, n)]
<1>1. f \in Frame /\ f.node = n /\ f.left = Maps!Waits(d, n)
  BY DEF Frame
<1> HIDE DEF f
<1>2. <<f>> \in Seq(Frame) /\ Len(<<f>>) = 1 /\ <<f>>[1] = f
  BY <1>1
<1>3. \A i \in 1..Len(<<f>>) : <<f>>[i] = f /\ i = 1
  BY <1>2
<1>4. 1..(Len(<<f>>) - 1) = {}
  BY <1>2
<1>5. PathOK(d, <<f>>, C)
  BY <1>1, <1>2, <1>3, <1>4 DEF PathOK
<1> QED BY <1>5 DEF f

LEMMA FunctionIsSeq ==
  ASSUME NEW S, NEW k \in Nat, NEW q \in [1..k -> S]
  PROVE  q \in Seq(S) /\ Len(q) = k
OBVIOUS

\* Taking a child off the innermost call leaves the rest of the path as it was.
LEMMA TookPath ==
  ASSUME NEW p \in Seq(Frame), Len(p) # 0, NEW c, NEW q,
         q = [p EXCEPT ![Len(p)].left = @ \ {c}]
  PROVE  /\ q \in Seq(Frame) /\ Len(q) = Len(p)
         /\ \A i \in 1..Len(p) : q[i].node = p[i].node
         /\ \A i \in 1..(Len(p) - 1) : q[i] = p[i]
         /\ q[Len(p)].left = p[Len(p)].left \ {c}
<1> DEFINE k == Len(p)
<1>0. k \in Nat /\ k \in 1..k /\ DOMAIN p = 1..k /\ \A i \in 1..k : p[i] \in Frame
  OBVIOUS
<1>1. DOMAIN q = 1..k /\ q = [i \in 1..k |-> q[i]]
  BY <1>0
<1>2. \A i \in 1..k : i # k => q[i] = p[i]
  BY <1>0
<1>3. q[k] = [p[k] EXCEPT !.left = @ \ {c}]
  BY <1>0
<1>4. q[k] \in Frame /\ q[k].node = p[k].node /\ q[k].left = p[k].left \ {c}
  BY <1>0, <1>3 DEF Frame
<1>5. \A i \in 1..k : q[i] \in Frame
  BY <1>0, <1>2, <1>4
<1>6. q \in Seq(Frame) /\ Len(q) = k
  <2>1. q \in [1..k -> Frame]
    BY <1>1, <1>5
  <2> QED BY <1>0, <2>1, FunctionIsSeq
<1>7. \A i \in 1..(k - 1) : i \in 1..k /\ i # k
  BY <1>0
<1> QED BY <1>2, <1>4, <1>6, <1>7

LEMMA PathSkip ==
  ASSUME NEW d, NEW p, NEW C, PathOK(d, p, C), Len(p) # 0, NEW c \in C,
         c \in p[Len(p)].left
  PROVE  PathOK(d, [p EXCEPT ![Len(p)].left = @ \ {c}], C)
<1> DEFINE q == [p EXCEPT ![Len(p)].left = @ \ {c}]
<1>1. p \in Seq(Frame) /\ Len(p) \in Nat /\ Len(p) \in 1..Len(p)
  BY DEF PathOK
<1>2. /\ q \in Seq(Frame) /\ Len(q) = Len(p)
      /\ \A i \in 1..Len(p) : q[i].node = p[i].node
      /\ \A i \in 1..(Len(p) - 1) : q[i] = p[i]
      /\ q[Len(p)].left = p[Len(p)].left \ {c}
  BY <1>1, TookPath
<1> HIDE DEF q
<1>3. \A i \in 1..(Len(p) - 1) : i \in 1..Len(p) /\ i + 1 \in 1..Len(p)
  BY <1>1
<1>4. \A i \in 1..Len(p) : i \in 1..(Len(p) - 1) \/ i = Len(p)
  BY <1>1
<1>5. \A i \in 1..Len(p) : q[i].left \subseteq p[i].left
  BY <1>2, <1>4
<1>6. PathOK(d, q, C)
  <2>1. /\ \A i, j \in 1..Len(q) : q[i].node = q[j].node => i = j
        /\ \A i \in 1..Len(q) : q[i].node \notin C /\ q[i].left \subseteq Maps!Waits(d, q[i].node)
    BY <1>2, <1>5 DEF PathOK
  <2>2. \A i \in 1..(Len(q) - 1) :
          /\ q[i + 1].node \in Maps!Waits(d, q[i].node)
          /\ Maps!Waits(d, q[i].node) \ q[i].left \subseteq C \cup {q[i + 1].node}
    BY <1>2, <1>3 DEF PathOK
  <2>3. Maps!Waits(d, q[Len(q)].node) \ q[Len(q)].left \subseteq C
    <3>1. Maps!Waits(d, p[Len(p)].node) \ p[Len(p)].left \subseteq C
      BY DEF PathOK
    <3> QED BY <1>1, <1>2, <3>1
  <2> QED BY <1>2, <2>1, <2>2, <2>3 DEF PathOK
<1> QED BY <1>6 DEF q

LEMMA PathEnter ==
  ASSUME NEW d, NEW p, NEW C, PathOK(d, p, C), Len(p) # 0, NEW c \in DOMAIN Body \ C,
         c \in p[Len(p)].left, \A i \in 1..Len(p) : p[i].node # c,
         Maps!Waits(d, c) \subseteq DOMAIN Body
  PROVE  PathOK(d, Append([p EXCEPT ![Len(p)].left = @ \ {c}],
                          [node |-> c, left |-> Maps!Waits(d, c)]), C)
<1> DEFINE q == [p EXCEPT ![Len(p)].left = @ \ {c}]
           f == [node |-> c, left |-> Maps!Waits(d, c)]
           k == Len(p)
           r == Append(q, f)
<1>1. p \in Seq(Frame) /\ k \in Nat /\ k \in 1..k
  BY DEF PathOK
<1>2. /\ q \in Seq(Frame) /\ Len(q) = k
      /\ \A i \in 1..k : q[i].node = p[i].node
      /\ \A i \in 1..(k - 1) : q[i] = p[i]
      /\ q[k].left = p[k].left \ {c}
  BY <1>1, TookPath
<1>3. f \in Frame /\ f.node = c /\ f.left = Maps!Waits(d, c)
  BY DEF Frame
<1> HIDE DEF q, f
<1>4. /\ r \in Seq(Frame) /\ Len(r) = k + 1
      /\ \A i \in 1..k : r[i] = q[i]
      /\ r[k + 1] = f
  BY <1>1, <1>2, <1>3
<1> HIDE DEF r
<1>5. \A i \in 1..(k - 1) : i \in 1..k /\ i + 1 \in 1..k
  BY <1>1
<1>6. \A i \in 1..Len(r) : i \in 1..k \/ i = k + 1
  BY <1>1, <1>4
<1>7. \A i \in 1..k : i \in 1..(k - 1) \/ i = k
  BY <1>1
<1>8. \A i \in 1..k : r[i].node = p[i].node /\ r[i].left \subseteq p[i].left
  BY <1>2, <1>4, <1>7
<1>9. c \in Maps!Waits(d, p[k].node)
  BY <1>1 DEF PathOK
<1>10. Len(r) - 1 = k /\ Len(r) # 0
  BY <1>1, <1>4
<1>11. \A i \in 1..k : r[i + 1].node \in Maps!Waits(d, r[i].node)
  <2>1. ASSUME NEW i \in 1..(k - 1) PROVE r[i + 1].node \in Maps!Waits(d, r[i].node)
    BY <1>5, <1>8 DEF PathOK
  <2>2. r[k + 1].node \in Maps!Waits(d, r[k].node)
    BY <1>1, <1>3, <1>4, <1>8, <1>9
  <2> QED BY <1>7, <2>1, <2>2
<1>12. \A i \in 1..k : Maps!Waits(d, r[i].node) \ r[i].left \subseteq C \cup {r[i + 1].node}
  <2>1. ASSUME NEW i \in 1..(k - 1)
        PROVE  Maps!Waits(d, r[i].node) \ r[i].left \subseteq C \cup {r[i + 1].node}
    <3>1. r[i].left = p[i].left
      BY <1>2, <1>4, <1>5
    <3> QED BY <1>5, <1>8, <3>1 DEF PathOK
  <2>2. Maps!Waits(d, r[k].node) \ r[k].left \subseteq C \cup {r[k + 1].node}
    <3>1. Maps!Waits(d, p[k].node) \ p[k].left \subseteq C
      BY <1>1 DEF PathOK
    <3> QED BY <1>1, <1>2, <1>3, <1>4, <1>8, <3>1
  <2> QED BY <1>7, <2>1, <2>2
<1>13. \A i, j \in 1..Len(r) : r[i].node = r[j].node => i = j
  BY <1>1, <1>3, <1>4, <1>6, <1>8 DEF PathOK
<1>14. \A i \in 1..Len(r) : r[i].node \notin C /\ r[i].left \subseteq Maps!Waits(d, r[i].node)
  <2>1. \A i \in 1..k : p[i].node \notin C /\ p[i].left \subseteq Maps!Waits(d, p[i].node)
    BY DEF PathOK
  <2>2. \A i \in 1..k : r[i].node \notin C /\ r[i].left \subseteq Maps!Waits(d, r[i].node)
    BY <1>8, <2>1
  <2>3. r[k + 1].node \notin C /\ r[k + 1].left \subseteq Maps!Waits(d, r[k + 1].node)
    BY <1>3, <1>4
  <2> QED BY <1>6, <2>2, <2>3
<1>15. Maps!Waits(d, r[Len(r)].node) \ r[Len(r)].left \subseteq C
  BY <1>3, <1>4
<1>16. PathOK(d, r, C)
  BY <1>4, <1>10, <1>11, <1>12, <1>13, <1>14, <1>15 DEF PathOK
<1> QED BY <1>16 DEF r, q, f

LEMMA PathReturn ==
  ASSUME NEW d, NEW p, NEW C, PathOK(d, p, C), Len(p) # 0, p[Len(p)].left = {}
  PROVE  PathOK(d, SubSeq(p, 1, Len(p) - 1), C \cup {p[Len(p)].node})
<1> DEFINE k == Len(p)
           n == p[k].node
           r == SubSeq(p, 1, k - 1)
           D == C \cup {n}
<1>1. p \in Seq(Frame) /\ k \in Nat /\ k \in 1..k /\ n \in DOMAIN Body /\ n \notin C
  <2>1. p \in Seq(Frame) /\ k \in Nat /\ k \in 1..k /\ n \notin C
    BY DEF PathOK
  <2>2. p[k] \in Frame
    BY <2>1
  <2> QED BY <2>1, <2>2 DEF Frame
<1>2. /\ r \in Seq(Frame) /\ Len(r) = k - 1
      /\ \A i \in 1..(k - 1) : r[i] = p[i]
  <2>1. k - 1 \in Nat /\ \A i \in 1..(k - 1) : p[i] \in Frame
    BY <1>1
  <2>2. /\ r \in Seq(Frame)
        /\ Len(r) = IF 1 <= k - 1 THEN (k - 1) - 1 + 1 ELSE 0
        /\ \A i \in 1..((k - 1) - 1 + 1) : r[i] = p[1 + i - 1]
    BY <1>1, <2>1, SubSeqProperties
  <2> HIDE DEF r, k
  <2> QED BY <1>1, <2>1, <2>2
<1>3. Maps!Waits(d, n) \subseteq C
  BY <1>1 DEF PathOK
<1>4. WellFounded(d, D)
  BY <1>1, <1>3, ReturnKeepsFounded DEF PathOK
<1> HIDE DEF r
<1>5. \A i \in 1..(k - 1) : i \in 1..k /\ i # k /\ i + 1 \in 1..k
  BY <1>1
<1>6. \A i \in 1..(Len(r) - 1) : i \in 1..(k - 1) /\ i + 1 \in 1..(k - 1)
  BY <1>1, <1>2
<1>7. \A i \in 1..(k - 1) : r[i].node # n
  BY <1>1, <1>2, <1>5 DEF PathOK
<1>8. Len(r) # 0 => Maps!Waits(d, r[Len(r)].node) \ r[Len(r)].left \subseteq D
  <2> HAVE Len(r) # 0
  <2>1. k - 1 \in 1..(k - 1) /\ (k - 1) + 1 = k
    BY <1>1, <1>2
  <2>2. Maps!Waits(d, p[k - 1].node) \ p[k - 1].left \subseteq C \cup {p[(k - 1) + 1].node}
    BY <2>1 DEF PathOK
  <2>3. r[Len(r)] = p[k - 1]
    BY <1>2, <2>1
  <2> QED BY <2>1, <2>2, <2>3
<1>9. \A i \in 1..(Len(r) - 1) :
        Maps!Waits(d, r[i].node) \ r[i].left \subseteq D \cup {r[i + 1].node}
  BY <1>2, <1>6 DEF PathOK
<1>10. \A i \in 1..(Len(r) - 1) : r[i + 1].node \in Maps!Waits(d, r[i].node)
  BY <1>2, <1>6 DEF PathOK
<1>11. \A i \in 1..Len(r) : r[i].node \notin D /\ r[i].left \subseteq Maps!Waits(d, r[i].node)
  BY <1>2, <1>5, <1>7 DEF PathOK
<1>12. \A i, j \in 1..Len(r) : r[i].node = r[j].node => i = j
  <2>1. \A i, j \in 1..k : p[i].node = p[j].node => i = j
    BY DEF PathOK
  <2>2. \A i \in 1..(k - 1) : i \in 1..k
    BY <1>5
  <2> QED BY <1>2, <2>1, <2>2
<1>13. D \subseteq DOMAIN Body /\ \A m \in D : Maps!Waits(d, m) \subseteq D
  BY <1>1, <1>3 DEF PathOK
<1> HIDE DEF D
<1>14. PathOK(d, r, D)
  BY <1>2, <1>4, <1>8, <1>9, <1>10, <1>11, <1>12, <1>13 DEF PathOK
<1> QED BY <1>14 DEF r, D

LEMMA PathEmpty ==
  ASSUME NEW d
  PROVE  PathOK(d, <<>>, {})
<1>1. <<>> \in Seq(Frame) /\ Len(<<>>) = 0
  OBVIOUS
<1>2. 1..Len(<<>>) = {} /\ 1..(Len(<<>>) - 1) = {}
  BY <1>1
<1>3. WellFounded(d, {})
  BY DEF WellFounded
<1> QED BY <1>1, <1>2, <1>3 DEF PathOK

-----------------------------------------------------------------------------
MapDraft == [node : {Body}, edge : SUBSET Maps!Edges, focus : SUBSET DOMAIN Body]

\* The set that dependent_work grows lies between what changed and what depends on
\* it, and has gained a node in each round.
Dependents ==
  /\ stage \in {"loop", "returned"}
  /\ changed \subseteq selected
  /\ selected \subseteq DOMAIN Body
  /\ selected \subseteq Maps!Downstream(graph, changed)
  /\ rounds \in Nat /\ rounds <= Cardinality(selected)
  /\ stage = "returned" => Maps!StepDown(graph, selected) \subseteq selected

\* The set that task_map grows lies between the start and the core; the rounds left
\* and the nodes found are together more than the nodes there are.
Core == Maps!TaskCore(graph, task)
Near == Core \cup Maps!BranchesFrom(graph, Core)

Slice ==
  /\ stage \in {"loop", "branches", "returned"}
  /\ rounds \in Nat
  /\ stage = "loop" =>
       /\ Maps!TaskStart(graph, task) \subseteq selected
       /\ selected \subseteq DOMAIN Body
       /\ selected \subseteq Core
       /\ Cardinality(DOMAIN Body) < Cardinality(selected) + rounds
  /\ stage = "branches" => (rounds = 2 /\ selected = Core) \/ (rounds = 1 /\ selected = Near)
  /\ stage = "returned" => selected = Maps!TaskNodes(graph, task)

Search ==
  /\ stage \in {"loop", "returned", "raised"}
  /\ PathOK(graph, path, complete)
  /\ stage = "returned" => Maps!Nodes(graph) \subseteq complete
  /\ stage = "raised" => ~ Maps!AcyclicPrerequisites(graph)

MapsInv ==
  /\ graph \in MapDraft
  /\ op \in {"none", "dependent_work", "task_map", "graph_rules"}
  /\ op = "none" => stage = "loop" /\ path = <<>> /\ complete = {} /\ rounds = 0
  /\ op = "dependent_work" => Dependents
  /\ op = "task_map" => Slice
  /\ op = "graph_rules" => Search

LEMMA DraftFacts ==
  ASSUME graph \in MapDraft
  PROVE  /\ Maps!Nodes(graph) = DOMAIN Body
         /\ GoodDraft(graph)
         /\ graph.focus \subseteq DOMAIN Body
         /\ \A n : Maps!Waits(graph, n) \subseteq DOMAIN Body
BY DEF MapDraft, GoodDraft, Maps!Nodes, Maps!Edges, Maps!Waits

LEMMA DraftStep ==
  ASSUME MapsInv, Maps!AddEdge \/ Maps!SetFocus
  PROVE  MapsInv'
<1>1. graph' \in MapDraft
  <2>1. CASE Maps!AddEdge
    <3>1. PICK e \in Maps!Edges : graph' = [graph EXCEPT !.edge = @ \cup {e}]
      BY <2>1 DEF Maps!AddEdge
    <3> QED BY <3>1 DEF MapsInv, MapDraft
  <2>2. CASE Maps!SetFocus
    <3>1. PICK n \in DOMAIN Body : graph' = [graph EXCEPT !.focus = {n}]
      BY <2>2 DEF Maps!SetFocus
    <3> QED BY <3>1 DEF MapsInv, MapDraft
  <2> QED BY <2>1, <2>2
<1>2. op = "none" /\ op' = op /\ stage' = stage /\ path' = path /\ complete' = complete /\ rounds' = rounds
  BY DEF Maps!AddEdge, Maps!SetFocus, Maps!loop, Maps!search
<1> QED BY <1>1, <1>2 DEF MapsInv

LEMMA AskDependentsStep ==
  ASSUME MapsInv, Maps!AskDependents
  PROVE  MapsInv'
<1>1. graph \in MapDraft /\ stage = "loop" /\ rounds = 0 /\ graph' = graph /\ stage' = stage
      /\ rounds' = rounds /\ op' = "dependent_work"
  BY DEF MapsInv, Maps!AskDependents
<1>2. PICK c \in SUBSET DOMAIN Body : changed' = c /\ selected' = c
  BY <1>1, DraftFacts DEF Maps!AskDependents
<1>3. c \subseteq Maps!Downstream(graph, c)
  BY <1>1, DraftFacts, DownBegins
<1>4. Cardinality(c) \in Nat
  BY FiniteBody, FS_Subset, FS_CardinalityType
<1>5. Dependents'
  BY <1>1, <1>2, <1>3, <1>4 DEF Dependents
<1> QED BY <1>1, <1>5 DEF MapsInv

LEMMA DependentsRoundStep ==
  ASSUME MapsInv, Maps!DependentsRound
  PROVE  MapsInv'
<1> DEFINE more == Maps!StepDown(graph, selected)
<1>1. /\ graph \in MapDraft /\ stage = "loop" /\ graph' = graph /\ op' = op
      /\ op = "dependent_work" /\ Dependents /\ changed' = changed
  BY DEF MapsInv, Maps!DependentsRound
<1>2. more \subseteq DOMAIN Body
  BY <1>1, DraftFacts, DownStays
<1>3. CASE more \subseteq selected /\ stage' = "returned" /\ selected' = selected /\ rounds' = rounds
  <2>1. Dependents'
    BY <1>1, <1>3 DEF Dependents
  <2> QED BY <1>1, <2>1 DEF MapsInv
<1>4. CASE ~ more \subseteq selected /\ selected' = selected \cup more
           /\ rounds' = rounds + 1 /\ stage' = stage
  <2>1. selected \cup more \subseteq Maps!Downstream(graph, changed)
    BY <1>1, DraftFacts, DownWithin DEF Dependents
  <2>2. selected \in SUBSET DOMAIN Body /\ rounds \in Nat /\ rounds <= Cardinality(selected)
        /\ changed \subseteq selected
    BY <1>1 DEF Dependents
  <2> HIDE DEF more
  <2>3. /\ Cardinality(selected) \in Nat /\ Cardinality(selected \cup more) \in Nat
        /\ Cardinality(selected) + 1 <= Cardinality(selected \cup more)
    BY <1>2, <1>4, <2>2, RoundAdds, FiniteBody
  <2>4. rounds' \in Nat /\ rounds' <= Cardinality(selected')
    BY <1>4, <2>2, <2>3
  <2>5. changed' \subseteq selected' /\ selected' \subseteq DOMAIN Body
        /\ selected' \subseteq Maps!Downstream(graph', changed') /\ stage' = "loop"
    BY <1>1, <1>2, <1>4, <2>1, <2>2
  <2>6. Dependents'
    BY <2>4, <2>5 DEF Dependents
  <2> QED BY <1>1, <2>6 DEF MapsInv
<1> QED BY <1>3, <1>4 DEF Maps!DependentsRound

LEMMA AskSliceStep ==
  ASSUME MapsInv, Maps!AskSlice
  PROVE  MapsInv'
<1>1. graph \in MapDraft /\ stage = "loop" /\ graph' = graph /\ stage' = stage /\ op' = "task_map"
      /\ rounds' = Maps!Cardinality(Maps!Nodes(graph)) + 1
  BY DEF MapsInv, Maps!AskSlice
<1>2. PICK w \in Works : task' = w /\ selected' = Maps!TaskStart(graph, w)
  BY DEF Maps!AskSlice
<1>3. /\ Maps!TaskStart(graph, w) \subseteq DOMAIN Body
      /\ Maps!TaskStart(graph, w) \subseteq Maps!TaskCore(graph, w)
  BY <1>1, DraftFacts, StartInMap, UpBegins
<1>4. Cardinality(selected') \in Nat /\ Cardinality(DOMAIN Body) \in Nat
  BY <1>2, <1>3, FiniteBody, FS_Subset, FS_CardinalityType
<1>5. rounds' = Cardinality(DOMAIN Body) + 1
  BY <1>1, DraftFacts, SameCardinality
<1>6. rounds' \in Nat /\ Cardinality(DOMAIN Body) < Cardinality(selected') + rounds'
  BY <1>4, <1>5
<1>7. Slice'
  BY <1>1, <1>2, <1>3, <1>6 DEF Slice, Core
<1> QED BY <1>1, <1>7 DEF MapsInv

LEMMA SliceRoundStep ==
  ASSUME MapsInv, Maps!SliceRound
  PROVE  MapsInv'
<1> DEFINE more == Maps!StepUp(graph, selected)
<1>1. /\ graph \in MapDraft /\ stage = "loop" /\ graph' = graph /\ op' = op
      /\ op = "task_map" /\ Slice /\ task' = task
  BY DEF MapsInv, Maps!SliceRound
<1>2. /\ Maps!TaskStart(graph, task) \subseteq selected
      /\ selected \in SUBSET DOMAIN Body
      /\ selected \subseteq Maps!TaskCore(graph, task)
      /\ rounds \in Nat
      /\ Cardinality(DOMAIN Body) < Cardinality(selected) + rounds
  BY <1>1 DEF Slice, Core
<1>3. more \subseteq DOMAIN Body
  BY <1>1, DraftFacts, UpStays
<1>4. Cardinality(selected) \in Nat /\ Cardinality(DOMAIN Body) \in Nat
      /\ Cardinality(selected) <= Cardinality(DOMAIN Body)
  BY <1>2, FiniteBody, FS_Subset, FS_CardinalityType
<1>5. rounds # 0
  BY <1>2, <1>4
<1>6. CASE more \subseteq selected /\ stage' = "branches" /\ rounds' = 2 /\ selected' = selected
  <2>1. selected = Maps!TaskCore(graph, task)
    BY <1>1, <1>2, <1>6, DraftFacts, UpEnds
  <2>2. Slice'
    BY <1>1, <1>6, <2>1 DEF Slice, Core
  <2> QED BY <1>1, <2>2 DEF MapsInv
<1>7. CASE ~ more \subseteq selected /\ selected' = selected \cup more
           /\ rounds' = rounds - 1 /\ stage' = stage
  <2>1. selected \cup more \subseteq Maps!TaskCore(graph, task)
    BY <1>1, <1>2, DraftFacts, UpWithin
  <2> HIDE DEF more
  <2>2. /\ Cardinality(selected \cup more) \in Nat
        /\ Cardinality(selected) + 1 <= Cardinality(selected \cup more)
    BY <1>2, <1>3, <1>7, RoundAdds, FiniteBody
  <2>3. rounds' \in Nat /\ Cardinality(DOMAIN Body) < Cardinality(selected') + rounds'
    BY <1>2, <1>4, <1>5, <1>7, <2>2
  <2>4. Slice'
    BY <1>1, <1>2, <1>3, <1>7, <2>1, <2>3 DEF Slice, Core
  <2> QED BY <1>1, <2>4 DEF MapsInv
<1> QED BY <1>5, <1>6, <1>7 DEF Maps!SliceRound

LEMMA BranchRoundStep ==
  ASSUME MapsInv, Maps!BranchRound
  PROVE  MapsInv'
<1>1. /\ graph \in MapDraft /\ stage = "branches" /\ graph' = graph /\ op' = op /\ task' = task
      /\ selected' = selected \cup Maps!BranchesFrom(graph, selected)
      /\ rounds' = rounds - 1 /\ stage' = IF rounds' = 0 THEN "returned" ELSE "branches"
  BY DEF MapsInv, Maps!BranchRound
<1>2. op = "task_map" /\ Slice
  BY <1>1 DEF MapsInv, Dependents, Search
<1>3. CASE rounds = 2 /\ selected = Core
  <2>1. rounds' = 1 /\ stage' = "branches" /\ selected' = Near
    BY <1>1, <1>3 DEF Near
  <2>2. Near' = Near
    BY <1>1 DEF Near, Core
  <2>3. Slice'
    BY <2>1, <2>2 DEF Slice
  <2> QED BY <1>1, <1>2, <2>3 DEF MapsInv
<1>4. CASE rounds = 1 /\ selected = Near
  <2>1. rounds' = 0 /\ stage' = "returned" /\ selected' = Maps!TaskNodes(graph, task)
    BY <1>1, <1>4 DEF Near, Core, Maps!TaskNodes
  <2>2. Slice'
    BY <1>1, <2>1 DEF Slice
  <2> QED BY <1>1, <1>2, <2>2 DEF MapsInv
<1> QED BY <1>1, <1>2, <1>3, <1>4 DEF Slice

LEMMA SearchStep ==
  ASSUME MapsInv,
         \/ Maps!AskRules \/ Maps!VisitRoot \/ Maps!VisitChild
         \/ Maps!VisitReturns \/ Maps!Accept
  PROVE  MapsInv'
<1>1. /\ graph \in MapDraft /\ stage = "loop" /\ graph' = graph /\ op' = "graph_rules"
  BY DEF MapsInv, Maps!AskRules, Maps!VisitRoot, Maps!VisitChild, Maps!VisitReturns, Maps!Accept
<1>2. PathOK(graph, path, complete)
  <2>1. CASE Maps!AskRules
    BY <2>1, PathEmpty DEF MapsInv, Maps!AskRules
  <2>2. CASE ~ Maps!AskRules
    BY <2>2 DEF MapsInv, Search, Maps!VisitRoot, Maps!VisitChild, Maps!VisitReturns, Maps!Accept
  <2> QED BY <2>1, <2>2
<1>3. /\ Maps!Nodes(graph) = DOMAIN Body
      /\ \A n : Maps!Waits(graph, n) \subseteq DOMAIN Body
  BY <1>1, DraftFacts
<1>4. path \in Seq(Frame) /\ (path # <<>> => Len(path) # 0)
  BY <1>2 DEF PathOK
<1>5. SUFFICES Search'
  BY <1>1 DEF MapsInv
<1>6. CASE Maps!AskRules
  BY <1>1, <1>2, <1>6 DEF Search, Maps!AskRules, Maps!search
<1>7. CASE Maps!VisitRoot
  <2>1. PICK n \in DOMAIN Body \ complete : path' = <<[node |-> n, left |-> Maps!Waits(graph, n)]>>
    BY <1>3, <1>7 DEF Maps!VisitRoot, Maps!Call
  <2>2. path = <<>> /\ stage' = stage /\ complete' = complete
    BY <1>7 DEF Maps!VisitRoot
  <2>3. PathOK(graph, path', complete)
    BY <1>2, <1>3, <2>1, <2>2, PathRoot
  <2> QED BY <1>1, <2>2, <2>3 DEF Search
<1>8. CASE Maps!VisitChild
  <2>1. /\ path # <<>> /\ complete' = complete /\ Maps!Innermost = path[Len(path)]
    BY <1>8 DEF Maps!VisitChild, Maps!Innermost
  <2>2. PICK c \in Maps!Innermost.left :
          \/ c \in Maps!Active /\ stage' = "raised" /\ path' = path
          \/ c \in complete \ Maps!Active /\ path' = Maps!Took(c) /\ stage' = stage
          \/ c \notin complete \cup Maps!Active
             /\ path' = Append(Maps!Took(c), Maps!Call(c)) /\ stage' = stage
    BY <1>8 DEF Maps!VisitChild
  <2>3. Len(path) \in 1..Len(path) /\ c \in path[Len(path)].left
        /\ path[Len(path)] \in Frame
    BY <1>4, <2>1, <2>2
  <2>4. c \in Maps!Waits(graph, path[Len(path)].node) /\ c \in DOMAIN Body
    BY <1>2, <1>3, <2>3 DEF PathOK
  <2>5. CASE c \in Maps!Active /\ stage' = "raised" /\ path' = path
    <3>1. PICK i \in 1..Len(path) : path[i].node = c
      BY <2>5 DEF Maps!Active
    <3>2. ~ Maps!AcyclicPrerequisites(graph)
      BY <1>2, <1>3, <2>4, <3>1, CycleFound
    <3> QED BY <1>1, <1>2, <2>1, <2>5, <3>2 DEF Search
  <2>6. CASE c \in complete \ Maps!Active /\ path' = Maps!Took(c) /\ stage' = stage
    <3>1. PathOK(graph, path', complete)
      BY <1>2, <1>4, <2>1, <2>3, <2>6, PathSkip DEF Maps!Took
    <3> QED BY <1>1, <2>1, <2>6, <3>1 DEF Search
  <2>7. CASE /\ c \notin complete \cup Maps!Active
             /\ path' = Append(Maps!Took(c), Maps!Call(c)) /\ stage' = stage
    <3>1. \A i \in 1..Len(path) : path[i].node # c
      BY <2>7 DEF Maps!Active
    <3>2. PathOK(graph, path', complete)
      BY <1>2, <1>3, <1>4, <2>1, <2>3, <2>4, <2>7, <3>1, PathEnter DEF Maps!Took, Maps!Call
    <3> QED BY <1>1, <2>1, <2>7, <3>2 DEF Search
  <2> QED BY <2>2, <2>5, <2>6, <2>7
<1>9. CASE Maps!VisitReturns
  <2>1. /\ path # <<>> /\ stage' = stage /\ path[Len(path)].left = {}
        /\ complete' = complete \cup {path[Len(path)].node}
        /\ path' = SubSeq(path, 1, Len(path) - 1)
    BY <1>9 DEF Maps!VisitReturns, Maps!Innermost
  <2>2. PathOK(graph, path', complete')
    BY <1>2, <1>4, <2>1, PathReturn
  <2> QED BY <1>1, <2>1, <2>2 DEF Search
<1>10. CASE Maps!Accept
  BY <1>1, <1>2, <1>10 DEF Search, Maps!Accept, Maps!search
<1> QED BY <1>6, <1>7, <1>8, <1>9, <1>10

\* MapAlgorithms: every intermediate set and path is one from which the loops and
\* the search arrive at the right answer.
THEOREM LoopsInvariant == Maps!Spec => []MapsInv
<1>1. Maps!Init => MapsInv
  BY DEF Maps!Init, MapsInv, MapDraft
<1>2. MapsInv /\ [Maps!Next]_Maps!vars => MapsInv'
  <2> SUFFICES ASSUME MapsInv, [Maps!Next]_Maps!vars
               PROVE  MapsInv'
    OBVIOUS
  <2>1. CASE UNCHANGED Maps!vars
    BY <2>1 DEF Maps!vars, Maps!loop, Maps!search, MapsInv, Dependents, Slice, Search, Core, Near
  <2>2. CASE Maps!Next
    BY <2>2, DraftStep, AskDependentsStep, DependentsRoundStep, AskSliceStep, SliceRoundStep,
       BranchRoundStep, SearchStep DEF Maps!Next
  <2> QED BY <2>1, <2>2
<1> QED BY <1>1, <1>2, PTL DEF Maps!Spec

\* MapAlgorithms: the loops and the depth-first search of the code compute what
\* MapGraph defines, on a draft of any size.
THEOREM LoopsAreRight == Maps!Spec => []AlgorithmsAreRight
<1>1. MapsInv => AlgorithmsAreRight
  <2> SUFFICES ASSUME MapsInv
               PROVE  AlgorithmsAreRight
    OBVIOUS
  <2>1. graph \in MapDraft /\ Maps!Nodes(graph) = DOMAIN Body
    BY DraftFacts DEF MapsInv
  <2>2. op = "dependent_work" => rounds <= Maps!Cardinality(Maps!Nodes(graph))
    <3> HAVE op = "dependent_work"
    <3>1. selected \subseteq DOMAIN Body /\ rounds \in Nat /\ rounds <= Cardinality(selected)
      BY DEF MapsInv, Dependents
    <3>2. Cardinality(selected) <= Cardinality(DOMAIN Body)
          /\ Cardinality(selected) \in Nat /\ Cardinality(DOMAIN Body) \in Nat
      BY <3>1, FiniteBody, FS_Subset, FS_CardinalityType
    <3> QED BY <2>1, <3>1, <3>2, SameCardinality
  <2>3. op = "dependent_work" /\ stage = "returned" =>
          Maps!WorkOf(graph, selected) = Maps!DependentWork(graph, changed)
    <3> HAVE op = "dependent_work" /\ stage = "returned"
    <3>1. selected = Maps!Downstream(graph, changed)
      BY <2>1, DownEnds DEF MapsInv, Dependents
    <3> QED BY <3>1 DEF Maps!DependentWork
  <2>4. op = "task_map" /\ stage = "returned" => selected = Maps!TaskNodes(graph, task)
    BY DEF MapsInv, Slice
  <2>5. op = "graph_rules" /\ stage = "returned" => Maps!AcyclicPrerequisites(graph)
    BY AllReturned DEF MapsInv, Search, PathOK
  <2>6. op = "graph_rules" /\ stage = "raised" => ~ Maps!AcyclicPrerequisites(graph)
    BY DEF MapsInv, Search
  <2> QED BY <2>2, <2>3, <2>4, <2>5, <2>6 DEF AlgorithmsAreRight, Maps!AlgorithmsAreRight
<1> QED BY <1>1, LoopsInvariant, PTL

=============================================================================
